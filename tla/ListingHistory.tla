---------------------------- MODULE ListingHistory ----------------------------
(***************************************************************************)
(* zillow/history.go and cli/search_history.go: comparing a search with    *)
(* the output of an earlier one.  A listing is a record whose id, url and  *)
(* address are "" if unknown; all its other fields count as facts.         *)
(***************************************************************************)
EXTENDS Integers, Sequences, FiniteSets, SequencesExt

-----------------------------------------------------------------------------
(* Output.  A file is a JSON document (an array, a search or its areas) or *)
(* a sequence of lines, each of one listing or one area's error.           *)

Bad == [is |-> "bad"]

\* printSingleSearchResult, printMultiLocationResult, printLocationResultJSONL;
\* an area is [listings, error].
LinesOf(area) ==
    [i \in DOMAIN area.listings |-> [is |-> "located", listing |-> area.listings[i]]]
    \o (IF area.error THEN <<[is |-> "error"]>> ELSE <<>>)
Printed(areas, mode) ==
    CASE mode = "jsonl" /\ Len(areas) = 1 ->
            [is |-> "lines", lines |-> [i \in DOMAIN areas[1].listings |->
                [is |-> "listing", listing |-> areas[1].listings[i]]]]
      [] mode = "jsonl" /\ Len(areas) # 1 ->
            [is |-> "lines", lines |-> FlattenSeq([i \in DOMAIN areas |-> LinesOf(areas[i])])]
      [] OTHER -> [is |-> "document", areas |-> [i \in DOMAIN areas |-> areas[i].listings]]

HasHistoryIdentity(l) == l.id # "" \/ l.url # "" \/ l.address # ""

\* decodePreviousRecord: an error stands for no listing.
RecordOf(line) ==
    CASE line.is = "located" -> <<line.listing>>
      [] line.is = "listing" /\ HasHistoryIdentity(line.listing) -> <<line.listing>>
      [] OTHER -> <<>>
Readable(line) ==
    \/ line.is \in {"located", "error"}
    \/ line.is = "listing" /\ HasHistoryIdentity(line.listing)

\* readPreviousListings, decodePreviousDocument: no listings at all is an
\* error, in a document because it is then read as a line.
Read(file) ==
    LET listings == IF file.is = "document" THEN FlattenSeq(file.areas)
                    ELSE FlattenSeq([i \in DOMAIN file.lines |-> RecordOf(file.lines[i])])
        readable == file.is = "document" \/ \A i \in DOMAIN file.lines : Readable(file.lines[i])
    IN  IF ~readable \/ listings = <<>> THEN {} ELSE {listings}

-----------------------------------------------------------------------------
(* Comparison.                                                             *)

\* listingHistoryKeys
Keys(l) ==
    SelectSeq(<<<<"id", l.id>>, <<"url", l.url>>, <<"address", l.address>>>>, LAMBDA k : k[2] # "")

\* The index keeps the first previous listing of each key.
Indexed(previous, key) ==
    LET holders == SelectSeq(previous, LAMBDA l : key \in ToSet(Keys(l)))
    IN  IF holders = <<>> THEN {} ELSE {holders[1]}
PriorOf(listing, previous) ==
    LET known == SelectSeq(Keys(listing), LAMBDA key : Indexed(previous, key) # {})
    IN  IF known = <<>> THEN {} ELSE Indexed(previous, known[1])

Identity == {"id", "url", "address"}
\* meaningfulListingChanges
Changes(prior, listing) == {f \in DOMAIN listing \ Identity : prior[f] # listing[f]}

\* AnnotateListingHistory
Annotated(listings, previous) ==
    [i \in DOMAIN listings |->
        LET prior == PriorOf(listings[i], previous)
            changes == UNION {Changes(p, listings[i]) : p \in prior}
        IN  [listing |-> listings[i], changes |-> changes,
             status |-> IF prior = {} THEN "new"
                        ELSE IF changes = {} THEN "still-active" ELSE "changed"]]

-----------------------------------------------------------------------------
(* What one search prints, in any mode, another compares with listing by   *)
(* listing: a home that has an identifier or a page of its own is compared *)
(* with itself, also where homes share a page or an address, and changed   *)
(* exactly in what is different; a home none of whose keys was printed is  *)
(* new; an area's error is skipped.                                        *)
HistoryIsTrue(areas, mode, now) ==
    LET printed == FlattenSeq([i \in DOMAIN areas |-> areas[i].listings])
        read == Read(Printed(areas, mode))
        same(a, b) == IF a.id # "" THEN a.id = b.id
                      ELSE a.url # "" /\ a.url = b.url
        mates(l) == {p \in ToSet(printed) : same(l, p)}
    IN  /\ read # {} <=> printed # <<>>
        /\ \A previous \in read : \A a \in ToSet(Annotated(now, previous)) :
              /\ Cardinality(mates(a.listing)) = 1 => \A p \in mates(a.listing) :
                    /\ a.status = IF Changes(p, a.listing) = {} THEN "still-active" ELSE "changed"
                    /\ a.changes = Changes(p, a.listing)
              /\ a.status = "new" <=>
                    \A p \in ToSet(printed) : ToSet(Keys(p)) \cap ToSet(Keys(a.listing)) = {}
=============================================================================
