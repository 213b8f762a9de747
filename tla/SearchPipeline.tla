--------------------------- MODULE SearchPipeline ---------------------------
(***************************************************************************)
(* From the cards of one location to its answer: the filters, merges, sort *)
(* and limit of the search command (cli/search.go, search_details.go,      *)
(* search_discovery.go, search_location_filter.go, sort.go), in the order  *)
(* processListings applies them.  An unknown number is None, an unknown    *)
(* text "", a date a day number, and a listing's flags say shared, student *)
(* or income restricted housing.  An address is [full, city, state, zip]:  *)
(* its line as shown, and the parts that are known.                        *)
(***************************************************************************)
EXTENDS Integers, Sequences, SequencesExt

None == -1
AnyValue == "any"

Within(value, low, high) ==
    (low > 0 => value >= low) /\ (high > 0 => value <= high)

-----------------------------------------------------------------------------
(* Basic metadata, bed ranges and boundary.                                *)

Kinds ==
    [apartment |-> {"APARTMENT"}, condo |-> {"CONDO", "COOP"},
     townhouse |-> {"TOWNHOUSE"}, single |-> {"SINGLE_FAMILY", "HOUSE"}]

HomeTypeMatches(type, allowed) == \E a \in allowed : type \in Kinds[a]

\* filterListingsByBasicMetadata: a building stands for units not seen yet.
BasicMatch(l, o) ==
    /\ (o.minPrice > 0 \/ o.maxPrice > 0) =>
          IF l.price = None THEN l.building
          ELSE Within(l.price, o.minPrice, o.maxPrice)
    /\ l.building \/
          /\ (o.minBeds > 0 \/ o.maxBeds > 0) =>
                l.beds # None /\ Within(l.beds, o.minBeds, o.maxBeds)
          /\ o.minBaths > 0 => l.baths # None /\ l.baths >= o.minBaths
    /\ o.types # {} =>
          (l.type = "" /\ o.discovery) \/ HomeTypeMatches(l.type, o.types)

Basic(ls, o) == SelectSeq(ls, LAMBDA l : BasicMatch(l, o))

BedsMatch(l, range) ==
    \/ range.min <= 0 /\ range.max <= 0
    \/ l.beds # None /\ Within(l.beds, range.min, range.max)

\* filterListingsByDiscoveryBedRanges; without discovery there is no route.
InBedRange(l, o, allowUnknown) ==
    \/ ~o.discovery \/ o.ranges = {} \/ l.building
    \/ allowUnknown /\ l.beds = None
    \/ \E range \in o.ranges : BedsMatch(l, range)

BedRanges(ls, o, allowUnknown) ==
    SelectSeq(ls, LAMBDA l : InBedRange(l, o, allowUnknown))

\* A search keeps to a place only when it is told to.
Bounded(q) == q.strict \/ q.allowed # {}

\* filterListingsByLocationBoundary; a query is a postal code, a city with its
\* state, or neither.
InBoundary(l, q, allowUnknown) ==
    LET fits(actual, wanted) == (allowUnknown /\ actual = "") \/ actual \in wanted
        cities == (IF q.city = "" THEN {} ELSE {q.city}) \cup q.aliases
    IN  \/ ~Bounded(q)
        \/ /\ q.allowed # {} => fits(l.address.city, q.allowed)
           /\ q.state # "" => fits(l.address.state, {q.state})
           /\ q.strict =>
                 IF q.zip # "" THEN fits(l.address.zip, {q.zip})
                 ELSE cities # {} => fits(l.address.city, cities)

BoundaryAtOnce(ls, q, allowUnknown) ==
    SelectSeq(ls, LAMBDA l : InBoundary(l, q, FALSE))

Boundary(ls, q, allowUnknown) ==
    SelectSeq(ls, LAMBDA l : InBoundary(l, q, allowUnknown))

\* filterListingsByState: all that is asked of a card without a boundary.
InState(l, q) == q.state \in {"", l.address.state}

\* Before details, a boundary leaves what a card does not tell to its page.
BoundaryOfCards(ls, q) ==
    IF Bounded(q) THEN Boundary(ls, q, TRUE)
    ELSE SelectSeq(ls, LAMBDA l : InState(l, q))

-----------------------------------------------------------------------------
(* Property details.                                                       *)

RequiresDetails(o) ==
    \/ o.maxCost > 0 \/ o.forRent \/ o.exclude # {} \/ o.flex # {}
    \/ o.laundry # AnyValue \/ o.parking # AnyValue \/ o.pets # AnyValue

HasWindow(o) == o.from # None \/ o.by # None
HasAdvanced(o) ==
    RequiresDetails(o) \/ o.minSqft > 0 \/ o.maxDays >= 0 \/ HasWindow(o)
NeedsEnrichment(o) == o.enrich \/ o.verify \/ RequiresDetails(o)

OutOfWindow(l, o) ==
    (o.from # None /\ l.available < o.from) \/ (o.by # None /\ l.available > o.by)

\* What a known value of the card alone can refuse.
KnownMismatch(l, o) ==
    \/ o.minSqft > 0 /\ l.sqft # None /\ l.sqft < o.minSqft
    \/ ~o.verify /\ o.maxDays >= 0 /\ l.days # None /\ l.days > o.maxDays
    \/ HasWindow(o) /\ l.available # None /\ OutOfWindow(l, o)
          /\ o.outside = "exclude"
    \/ o.maxCost > 0 /\ l.cost # None /\ l.cost > o.maxCost
    \/ o.forRent /\ l.status # "" /\ l.status # "FOR_RENT"
    \/ o.exclude \cap l.flags # {}

MayQualifyAsCard(l, o) == ~KnownMismatch(l, o)

\* prefilterKnownListingMetadata: a building summarises several units.
MayQualify(l, o) == l.building \/ ~KnownMismatch(l, o)

Unavailable(l) ==
    [l EXCEPT !.detail = "unavailable", !.laundry = "unknown",
              !.parking = "unknown", !.pets = "unknown"]

Confirmed == {"laundry", "parking", "pets", "allowed", "flex", "cost", "flags"}
RefinedNumbers == {"price", "beds", "baths", "sqft", "days", "available"}
RefinedTexts == {"type", "status"}

\* mergePropertyDetails: the page decides, except where it is silent on
\* something the card told.
MergeProperty(l, p) ==
    [f \in DOMAIN l |->
        CASE f = "detail" -> "enriched"
          [] f \in Confirmed -> p[f]
          [] f \in RefinedNumbers -> IF p[f] = None THEN l[f] ELSE p[f]
          [] f \in RefinedTexts -> IF p[f] = "" THEN l[f] ELSE p[f]
          [] OTHER -> l[f]]

\* What a unit takes of its page.
UnitOf(l, p) ==
    [MergeProperty(l, p) EXCEPT
        !.id = p.id, !.url = IF p.url = "" THEN @ ELSE p.url, !.building = FALSE,
        !.address = IF p.address.full = "" THEN @ ELSE p.address]

\* mergeCommunityPropertyDetails: a unit has neither the identity nor the age
\* of the building it was found in, and the address its own page gives.
MergeUnit(l, p) == UnitOf([l EXCEPT !.days = None], p)

\* The merge at the end of Enrich: every unit of a community is a listing.
Expand(l, pages) ==
    LET found == IF l.url \in DOMAIN pages THEN pages[l.url].properties ELSE <<>>
    IN  IF found = <<>> THEN <<Unavailable(l)>>
        ELSE [i \in DOMAIN found |->
                IF i = 1 /\ ~pages[l.url].community THEN MergeProperty(l, found[i])
                ELSE MergeUnit(l, found[i])]

Enrich(ls, pages) == FlattenSeq([i \in DOMAIN ls |-> Expand(ls[i], pages)])

-----------------------------------------------------------------------------
(* Detail filters.                                                         *)

ParkingMatches(want, has) ==
    CASE want = AnyValue -> TRUE
      [] want = "available" -> has \in {"available", "garage", "private-garage"}
      [] want = "garage" -> has \in {"garage", "private-garage"}
      [] OTHER -> (IF has = "" THEN "unknown" ELSE has) = want

PetsMatch(want, policy, allowed) ==
    CASE want = AnyValue -> TRUE
      [] want = "allowed" -> policy \in {"allowed", "restricted"}
      [] want = "none" -> policy = "not-allowed"
      [] want = "unknown" -> policy \in {"", "unknown"}
      [] want \in {"dogs", "cats"} ->
            policy \in {"allowed", "restricted"} /\ allowed \cap {want, "all"} # {}

Laundry(l) == IF l.laundry = "" THEN "unknown" ELSE l.laundry

\* isTwoBedPrivateGarageOnly
GarageForFlex(l) == l.beds = 2 /\ l.flex = {"private-garage"}

DetailMatch(l, o) ==
    /\ o.exclude \cap l.flags = {}
    /\ o.minSqft > 0 => l.sqft # None /\ l.sqft >= o.minSqft
    /\ HasWindow(o) =>
          IF l.available = None THEN o.unknownAvailable = "watchlist"
          ELSE OutOfWindow(l, o) => o.outside = "watchlist"
    /\ o.maxCost > 0 => l.cost <= o.maxCost          \* None is below any cost
    /\ o.forRent => l.status \in {"", "FOR_RENT"}
    /\ \/ o.laundry \in {AnyValue, Laundry(l)}
       \/ Laundry(l) = "unknown" /\ o.unknownLaundry = "watchlist"
    /\ ParkingMatches(o.parking, l.parking)
    /\ PetsMatch(o.pets, l.pets, l.allowed)
    /\ o.flex # {} => o.flex \cap l.flex # {}

\* What is left to verify makes a match a watchlist entry.
Doubts(l, o) ==
    {r \in {"availability", "cost", "status", "laundry", "garage"} :
        CASE r = "availability" ->
                HasWindow(o) /\ (l.available = None \/ OutOfWindow(l, o))
          [] r = "cost" -> o.maxCost > 0 /\ l.cost = None
          [] r = "status" -> o.forRent /\ l.status = ""
          [] r = "laundry" -> o.laundry \notin {AnyValue, Laundry(l)}
          [] r = "garage" -> GarageForFlex(l)}

Matched(l, o) ==
    [l EXCEPT !.match = IF Doubts(l, o) = {} THEN "match" ELSE "watchlist",
              !.reasons = Doubts(l, o)]

\* filterDetailedListingsBeforeRecency
Details(ls, o) ==
    IF ~HasAdvanced(o) THEN ls
    ELSE LET kept == SelectSeq(ls, LAMBDA l : DetailMatch(l, o))
         IN  [i \in DOMAIN kept |-> Matched(kept[i], o)]

\* rentalPagePropertyForListing: the first property with its ID or its URL,
\* or the only one.
PropertyFor(found, l) ==
    LET same == {i \in DOMAIN found : (l.id # "" /\ found[i].id = l.id)
                                   \/ (l.url # "" /\ found[i].url = l.url)}
    IN  IF same # {} THEN found[CHOOSE i \in same : \A j \in same : i <= j].days
        ELSE IF Len(found) = 1 THEN found[1].days
        ELSE None

\* EnrichRecency: only an age that is missing is filled in.
Recency(l, pages) ==
    IF l.days # None \/ l.url \notin DOMAIN pages THEN l
    ELSE [l EXCEPT !.days = PropertyFor(pages[l.url].properties, l)]

Recent(l, o) == o.maxDays < 0 \/ (l.days # None /\ l.days <= o.maxDays)

\* finalizeEnrichedListings
Finalize(ls, o, q, pages) ==
    LET matched == Details(Boundary(ls, q, FALSE), o)
        aged == IF o.verify THEN [i \in DOMAIN matched |-> Recency(matched[i], pages)]
                ELSE matched
    IN  SelectSeq(aged, LAMBDA l : Recent(l, o))

-----------------------------------------------------------------------------
(* Order, limit and the whole.                                             *)

SortField(by) ==
    CASE by \in {"price-asc", "price-desc"} -> "price"
      [] by = "newest" -> "days"
      [] by = "beds-desc" -> "beds"
      [] by = "sqft-desc" -> "sqft"

Descending(by) == by \in {"price-desc", "beds-desc", "sqft-desc"}

\* lessOptionalInt64: what is unknown comes last either way.
Before(a, b, field, descending) ==
    /\ a[field] # None
    /\ b[field] = None \/ (IF descending THEN a[field] > b[field]
                           ELSE a[field] < b[field])

\* sort.SliceStable
Sorted(ls, by) ==
    IF by = "recommended" THEN ls
    ELSE LET less(i, j) == Before(ls[i], ls[j], SortField(by), Descending(by))
             order == SetToSortSeq(DOMAIN ls,
                          LAMBDA i, j : less(i, j) \/ (i < j /\ ~less(j, i)))
         IN  [i \in DOMAIN ls |-> ls[order[i]]]

SortAndLimit(ls, o) ==
    LET sorted == Sorted(ls, o.sortBy)
    IN  IF o.limit > 0 /\ Len(sorted) > o.limit THEN SubSeq(sorted, 1, o.limit)
        ELSE sorted

\* prepareListingsForDetailEnrichment: the limit may come first only when no
\* filter depends on the page.
Prepare(ls, o) ==
    IF RequiresDetails(o) THEN SelectSeq(ls, LAMBDA l : MayQualify(l, o))
    ELSE IF o.verify THEN ls
    ELSE SortAndLimit(ls, o)

\* processListings, and the boundary of the location before it.
Answer(cards, o, q, pages) ==
    LET basic == BedRanges(Basic(BoundaryOfCards(cards, q), o), o, NeedsEnrichment(o))
        detailed == BedRanges(Basic(Enrich(Prepare(basic, o), pages), o), o, FALSE)
    IN  SortAndLimit(Finalize(IF NeedsEnrichment(o) THEN detailed ELSE basic,
                              o, q, pages), o)

-----------------------------------------------------------------------------
(* The listings that qualify, each on its own and without a prefilter: a   *)
(* place is judged once, and for a unit of a community by its own address. *)
Whereabouts(l, pages) ==
    LET units == UNION {ToSet(pages[u].properties) :
                           u \in {v \in DOMAIN pages : pages[v].community}}
        own == {p \in units : p.id = l.id /\ p.url = l.url /\ p.address.full # ""}
    IN  IF own = {} THEN l.address ELSE (CHOOSE p \in own : TRUE).address

Qualifying(cards, o, q, pages) ==
    LET seen == SelectSeq(cards, LAMBDA l :
                    /\ Bounded(q) \/ InState(l, q)
                    /\ BasicMatch(l, o) /\ InBedRange(l, o, NeedsEnrichment(o)))
        told == IF NeedsEnrichment(o) THEN Enrich(seen, pages) ELSE seen
        aged == IF o.verify THEN [i \in DOMAIN told |-> Recency(told[i], pages)]
                ELSE told
        kept == SelectSeq(aged, LAMBDA l :
                    /\ BasicMatch(l, o) /\ Recent(l, o)
                    /\ InBoundary([l EXCEPT !.address = Whereabouts(l, pages)], q, FALSE)
                    /\ InBedRange(l, o, FALSE) \/ ~NeedsEnrichment(o)
                    /\ HasAdvanced(o) => DetailMatch(l, o))
    IN  [i \in DOMAIN kept |-> IF HasAdvanced(o) THEN Matched(kept[i], o)
                               ELSE kept[i]]

\* Details that are fetched for their own sake may be limited beforehand.
LimitedFirst(o) == o.enrich /\ ~o.verify /\ ~RequiresDetails(o)

\* As long as no page contradicts its card, the answer is the best of all the
\* listings that qualify: no stage, prefilter or early limit loses one, no unit
\* is lost because its building's card does not tell the place, and the limit
\* falls on the sorted, complete list.
AnswerIsComplete(cards, o, q, pages) ==
    ~LimitedFirst(o) =>
        Answer(cards, o, q, pages) =
            SortAndLimit(Qualifying(cards, o, q, pages), o)

\* A listing is never given the age of another: a unit of a building has the
\* age its own page tells or none, also when it shares the building's URL.
RecencyIsItsOwn(cards, o, q, pages) ==
    \A l \in ToSet(Answer(cards, o, q, pages)) :
        l.days # None =>
            \/ \E c \in ToSet(cards) : ~c.building /\ c.id = l.id /\ c.days = l.days
            \/ \E c \in ToSet(cards) : c.building /\ l.building /\ c.days = l.days
            \/ \E u \in DOMAIN pages : \E p \in ToSet(pages[u].properties) :
                  p.id = l.id /\ p.days = l.days
=============================================================================
