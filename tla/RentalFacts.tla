----------------------------- MODULE RentalFacts -----------------------------
(***************************************************************************)
(* zillow/rental_facts.go: what a rental's page says of laundry, parking   *)
(* and pets, and how long it has been listed.  A text is the set of the    *)
(* terms it contains that a rule looks for; a term stands for the phrases  *)
(* of one rule, and a dishwasher contains the letters of a washer.         *)
(***************************************************************************)
EXTENDS Integers, Sequences, FiniteSets, SequencesExt, TLC

Rule(then, when) == [then |-> then, when |-> when]
FirstThatHolds(rules) == SelectSeq(rules, LAMBDA r : r.when)[1].then

\* containsAny(text, "washer"): the letters, not the word
HasTerm(text, term) == term \in text \/ (term = "washer" /\ "dishwasher" \in text)

-----------------------------------------------------------------------------
(* Classes.  structured is what the features say, all is the description   *)
(* as well.                                                                *)

\* classifyLaundry
Laundry(structured, description) ==
    LET all == structured \cup description
    IN  FirstThatHolds(<<
            Rule("hookups", "hookups" \in all),
            Rule("shared", "shared laundry" \in all),
            Rule("none", "no laundry" \in all),
            Rule("in-unit", "laundry in unit" \in all \/ "in unit" \in structured),
            Rule("in-unit", HasTerm(structured, "washer") /\ HasTerm(structured, "dryer")),
            Rule("unknown", TRUE)>>)

\* classifyParking
Parking(structured, description) ==
    LET all == structured \cup description
    IN  FirstThatHolds(<<
            Rule("none", "no parking" \in all),
            Rule("private-garage", "shared garage" \notin all /\ "private garage" \in all),
            Rule("garage", {"garage", "private garage"} \cap structured # {}
                           \/ {"shared garage", "garage parking"} \cap all # {}),
            Rule("available", "parking" \in structured),
            Rule("unknown", TRUE)>>)

\* classifyPetPolicy
Pets(text) ==
    FirstThatHolds(<<
        Rule("unknown", text = {}),
        Rule("not-allowed", "no pets" \in text),
        Rule("restricted", {"restricted", "cats only"} \cap text # {}),
        Rule("allowed", "pets allowed" \in text),
        Rule("restricted", {"cats", "dogs"} \cap text # {}),
        Rule("unknown", TRUE)>>)

\* isLaundryAppliance
IsLaundryAppliance(text) == text \cap {"washer", "dryer", "hookups"} # {}

\* populatePropertyRentalFacts (a community's amenities are taken all)
LaundryFeatures(reso) ==
    UNION (reso.laundry \cup {a \in reso.appliances : IsLaundryAppliance(a)})
ParkingFeatures(reso) ==
    (UNION reso.parking)
    \cup (IF reso.attached THEN {"private garage"} ELSE {})
    \cup (IF reso.garage THEN {"garage"} ELSE {})
    \cup (IF reso.open THEN {"parking"} ELSE {})
PetsAllowed(reso) ==
    (UNION reso.pets) \cup (IF reso.petsAllowed THEN {"pets allowed"} ELSE {})
FlexSpaces(reso, description) ==
    ((description \cup reso.rooms) \cap {"den", "bonus", "loft", "flex", "home office"})
    \cup (IF "office" \in reso.rooms THEN {"home office"} ELSE {})
    \cup (IF Parking(ParkingFeatures(reso), description) = "private-garage"
          THEN {"private-garage"} ELSE {})

-----------------------------------------------------------------------------
(* Recency.  An event of a page's price history is [date, event, rental];  *)
(* 0 is a date that cannot be read, and none.                              *)

IsReset(e) == e.event = "removed"
OfRental(e) == e.date # 0 /\ (e.rental \/ e.event = "listed for rent" \/ IsReset(e))

Unlisted == [listed |-> 0, updated |-> 0]
AfterEvent(recency, e) ==
    CASE IsReset(e) -> Unlisted
      [] e.event = "listed for rent" -> [listed |-> e.date, updated |-> e.date]
      [] OTHER -> IF recency.listed # 0 /\ e.date > recency.updated
                  THEN [recency EXCEPT !.updated = e.date] ELSE recency

\* sort.Slice, which keeps the order of equals in a history of up to 12 events
ByDate(events) ==
    LET order == SortSeq([i \in DOMAIN events |-> i],
                     LAMBDA i, j : \/ events[i].date < events[j].date
                                   \/ events[i].date = events[j].date /\ i < j)
    IN  [n \in DOMAIN order |-> events[order[n]]]

\* rentalHistoryRecency; days is {} for a listing of the future.
Recency(history, today) ==
    LET last == FoldLeft(AfterEvent, Unlisted, ByDate(SelectSeq(history, OfRental)))
    IN  [listed |-> last.listed, updated |-> last.updated,
         days |-> IF last.listed = 0 \/ today < last.listed THEN {} ELSE {today - last.listed}]

-----------------------------------------------------------------------------
(* No facts are promised that a page does not give: laundry is in the unit *)
(* only if nothing says otherwise, and not for a dishwasher among the      *)
(* appliances; a garage is private only if nothing calls it shared, and    *)
(* then it is a flex space; an office is a home's office only if a room is *)
(* or the description says so; and pets are never welcome against a "no".  *)
FactsArePromised(reso, description) ==
    LET laundry == Laundry(LaundryFeatures(reso), description)
        parking == Parking(ParkingFeatures(reso), description)
        said == description \cup UNION (reso.laundry \cup reso.appliances \cup reso.parking)
        flex == FlexSpaces(reso, description)
    IN  /\ laundry = "in-unit" =>
              /\ {"hookups", "shared laundry", "no laundry"} \cap said = {}
              /\ \/ "laundry in unit" \in said \/ "in unit" \in said
                 \/ "dryer" \in said
                    /\ ("washer" \in said \/ \E t \in reso.laundry : "dishwasher" \in t)
        /\ parking = "private-garage" => {"shared garage", "no parking"} \cap said = {}
        /\ "private-garage" \in flex <=> parking = "private-garage"
        /\ "home office" \in flex =>
              "home office" \in description \cup reso.rooms \/ "office" \in reso.rooms
        /\ Pets(PetsAllowed(reso)) = "allowed" => "no pets" \notin UNION reso.pets

\* Whatever the order of a page, a home is as old as its last listing for rent
\* that no later removal ended, and was updated by the last event since.
RecencyIsCurrent(history, today) ==
    LET recency == Recency(history, today)
        events == {e \in ToSet(history) : e.date # 0}
        current == {e \in events : /\ e.event = "listed for rent"
                                   /\ \A r \in events : IsReset(r) => r.date < e.date}
        since == {e.date : e \in {x \in events : x.rental \/ x.event = "listed for rent"}}
        latest(dates) == CHOOSE d \in dates : \A x \in dates : x <= d
    IN  (\A e, f \in events : e.date = f.date => e = f) =>
        /\ recency.listed = IF current = {} THEN 0 ELSE latest({e.date : e \in current})
        /\ recency.listed # 0 =>
              /\ recency.updated = latest(since)
              /\ recency.days = {d \in {today - recency.listed} : d >= 0}
=============================================================================
