---------------------------- MODULE CommunityPage ----------------------------
(***************************************************************************)
(* zillow/rental_page.go: the rentals of an apartment community.  Plans    *)
(* and units are objects of fields (see PageValue) or of is "other"; a     *)
(* plan holds the sequence of its units.  A rental is traced to its source *)
(* by from: <<plan, unit>>, <<plan>> or <<0, unit>>.             *)
(***************************************************************************)
EXTENDS PageValue

None == [is |-> "object", fields |-> <<>>]
Described(item) == item.is = "object"

\* communityZPID
ZpidOfItem(item) ==
    UNION {ZpidOf(text) : text \in StringOf(At(item.fields, "zpid"))}

\* firstNormalizedAvailability
AvailableFrom(unit, plan) ==
    FirstOfTwo(unit.fields, plan.fields, <<"availableFrom", "availabilityDate">>, StringOf)

\* normalizeCommunityRental: a unit's own field, else its plan's, but never
\* the plan's identifier.
RentalOf(plan, unit, source, from) ==
    LET own(keys, read(_)) == FirstOfTwo(unit.fields, plan.fields, keys, read)
        price == own(<<"baseRent", "minBaseRent", "minPrice", "price">>, MoneyOf)
        id == ZpidOfItem(IF Len(from) = 1 THEN plan ELSE unit)
    IN  [from |-> from, id |-> id, url |-> PageOf(id, source), price |-> price,
         cost |-> TotalMonthlyCost(price, own(<<"totalRequiredMonthlyMinFee">>, MoneyOf),
                      own(<<"listPriceIncludesRequiredMonthlyFees">>, BoolOf)),
         beds |-> own(<<"beds", "bedrooms">>, FloatOf),
         sqft |-> own(<<"sqft", "livingArea", "area">>, IntOf),
         available |-> AvailableFrom(unit, plan), planOnly |-> Len(from) = 1]

IsRental(rental) == rental.id # {} \/ rental.price # {} \/ rental.available # {}

RentalsOf(units, plan, source, p) ==
    LET indices == SelectSeq([u \in DOMAIN units |-> u], LAMBDA u : Described(units[u]))
        all == [n \in DOMAIN indices |->
                   RentalOf(plan, units[indices[n]], source, <<p, indices[n]>>)]
    IN  SelectSeq(all, IsRental)

\* A plan stands for itself where none of its units is a rental.
RentalsOfPlan(plan, p, source) ==
    LET units == RentalsOf(plan.units, plan, source, p)
        itself == RentalOf(plan, None, source, <<p>>)
    IN  CASE ~Described(plan) -> <<>>
          [] Described(plan) /\ units # <<>> -> units
          [] OTHER -> IF IsRental(itself) THEN <<itself>> ELSE <<>>

Candidates(building) ==
    FlattenSeq([p \in DOMAIN building.plans |->
                   RentalsOfPlan(building.plans[p], p, building.source)])
    \o RentalsOf(building.ungrouped, None, building.source, 0)

\* communityPropertyDedupKey: what has no identifier is told apart by its place.
DedupKey(rental) == IF rental.id # {} THEN <<"zpid", rental.id>> ELSE <<"source", rental.from>>

\* normalizeCommunityProperties and deduplicateCommunityProperties
RentalsIn(building) ==
    LET all == Candidates(building)
        first == SelectSeq([i \in DOMAIN all |-> i],
                     LAMBDA i : \A j \in 1 .. i - 1 : DedupKey(all[j]) # DedupKey(all[i]))
    IN  [n \in DOMAIN first |-> all[first[n]]]

-----------------------------------------------------------------------------
\* A unit that says something of itself is listed, alone or by its identifier.
Says(item) ==
    \/ ZpidOfItem(item) # {} \/ AvailableFrom(item, None) # {}
    \/ First(item.fields, <<"baseRent", "minPrice", "price">>, MoneyOf) # {}

Listed(unit, place, rentals) ==
    Described(unit) /\ Says(unit) =>
        \E r \in ToSet(rentals) :
            r.from = place \/ (r.id # {} /\ r.id = ZpidOfItem(unit))

\* A rental that stands for a unit has that unit's identifier and its facts.
IsOfItsUnit(rental, plans) ==
    LET unit == plans[rental.from[1]].units[rental.from[2]] IN
    Len(rental.from) = 2 /\ rental.from[1] # 0 =>
        /\ rental.id = ZpidOfItem(unit)
        /\ First(unit.fields, <<"beds">>, FloatOf) \subseteq rental.beds

(* Every unit a community describes is listed once, a plan only where none *)
(* of its units is, and no two listings claim one identifier; a unit that  *)
(* says something of itself is never overruled by its plan, a plan's       *)
(* identifier is never passed on to its units, and no cost wraps around.   *)
ListsAll(rentals, building) ==
    /\ \A i, j \in DOMAIN rentals :
          i # j => rentals[i].from # rentals[j].from
                   /\ (rentals[i].id = {} \/ rentals[i].id # rentals[j].id)
    /\ \A p \in DOMAIN building.plans : Described(building.plans[p]) =>
          \A u \in DOMAIN building.plans[p].units :
              /\ Listed(building.plans[p].units[u], <<p, u>>, rentals)
              /\ ~\E r, s \in ToSet(rentals) : r.from = <<p>> /\ s.from = <<p, u>>
    /\ \A u \in DOMAIN building.ungrouped :
          Listed(building.ungrouped[u], <<0, u>>, rentals)
    /\ \A r \in ToSet(rentals) :
          /\ \A c \in r.cost : c >= 0 /\ c <= MaxInt
          /\ IsOfItsUnit(r, building.plans)

CommunityIsListed(building) == ListsAll(RentalsIn(building), building)
=============================================================================
