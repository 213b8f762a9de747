------------------------------ MODULE RoutePlan ------------------------------
(***************************************************************************)
(* The routes of a discovery: what the flags of the search command become  *)
(* (buildLocationDiscoveryOptions and applyLocationPageOverride in         *)
(* cli/search_discovery.go), what DiscoverLocation accepts, and how many   *)
(* requests the command announces (cli/search_progress.go).  A name is the *)
(* tuple of its parts; the flags' values are already split and trimmed.    *)
(***************************************************************************)
EXTENDS Integers, Sequences, SequencesExt

MaxDiscoveryPages == 20     \* maxLocationDiscoveryPages is the same
MaxRoutes == 16
NoLimit == 0                \* a sort or route without a limit of its own

\* The first of every group of elements with the same key.
FirstOfEach(s, key(_)) ==
    FoldLeft(LAMBDA acc, x : IF \E y \in ToSet(acc) : key(y) = key(x) THEN acc
                             ELSE Append(acc, x), <<>>, s)

SumOver(s, value(_)) == FoldLeft(LAMBDA acc, x : acc + value(x), 0, s)

-----------------------------------------------------------------------------
(* What DiscoverLocation makes of its options: [maxPages, routes].         *)

Pages(p) == IF p.maxPages = 0 THEN 1 ELSE p.maxPages
Routes(p) ==
    IF p.routes = <<>> THEN <<[name |-> <<"default">>, maxPages |-> NoLimit]>>
    ELSE p.routes

\* validateDiscoveryOptions
ValidPlan(p) ==
    /\ Pages(p) \in 1 .. MaxDiscoveryPages
    /\ Len(Routes(p)) <= MaxRoutes
    /\ \A i, j \in DOMAIN Routes(p) :
          Routes(p)[i].name = Routes(p)[j].name => i = j
    /\ \A i \in DOMAIN Routes(p) :
          Routes(p)[i].name # <<>> /\ Routes(p)[i].maxPages \in 0 .. Pages(p)

LimitOf(p, r) == IF r.maxPages > 0 THEN r.maxPages ELSE Pages(p)

-----------------------------------------------------------------------------
(* The flags: [maxPages, supplementalPages, beds, sorts, types, keywords,  *)
(* noLaundry, laundry, rent, base], base being the filters every route     *)
(* starts from.  A bed range is [form, min, max], a sort [value, pages],   *)
(* a keyword [text, lower].                                                *)

\* parseBedRange
ValidBeds(b) ==
    /\ b.min > 0
    /\ b.form = "closed" => b.max > 0 /\ b.min <= b.max

BedRange(b) ==
    [label |-> IF b.form = "closed" THEN <<b.min, "to", b.max>>
               ELSE IF b.form = "open" THEN <<b.min, "plus">> ELSE <<b.min>>,
     min |-> b.min,
     max |-> CASE b.form = "closed" -> b.max
               [] b.form = "open" -> 0
               [] b.form = "exact" -> b.min]

\* bedRangeLabel
BaseRange(min, max) ==
    [label |-> IF min > 0 /\ max = min THEN <<min>>
               ELSE IF min > 0 /\ max > 0 THEN <<min, "to", max>>
               ELSE IF min > 0 THEN <<min, "plus">>
               ELSE IF max > 0 THEN <<"upto", max>> ELSE <<"any">>,
     min |-> min, max |-> max]

\* parseBedRanges
BedRangesOf(c) ==
    IF c.beds = <<>> THEN <<BaseRange(c.base.min, c.base.max)>>
    ELSE FirstOfEach([i \in DOMAIN c.beds |-> BedRange(c.beds[i])],
                     LAMBDA b : b.label)

\* parseServerSorts: a sort with two limits is two sorts.
SortsOf(c) ==
    IF c.sorts = <<>> THEN <<[value |-> c.base.sort, pages |-> NoLimit]>>
    ELSE FirstOfEach(c.sorts, LAMBDA s : s)

SortLabel(s) == IF s.value = "" THEN "default" ELSE s.value

\* parseKeywordRoutes, parseHomeTypes
KeywordsOf(c) == FirstOfEach(c.keywords, LAMBDA k : k.lower)
TypesOf(c) == FirstOfEach(c.types, LAMBDA t : t)
HomeTypes == {"apartment", "condo", "townhouse", "single"}

Limit(c) == IF c.maxPages = 0 THEN 1 ELSE c.maxPages
SupplementalLimit(c) == IF c.supplementalPages = 0 THEN 1 ELSE c.supplementalPages

Filters(c, min, max, sort, laundry, keyword) ==
    [min |-> min, max |-> max, sort |-> sort, types |-> TypesOf(c),
     laundry |-> laundry, rent |-> c.rent, keyword |-> keyword]

SortRoute(c, b, s) ==
    [name |-> <<"beds">> \o b.label \o <<"sort", SortLabel(s)>>,
     filters |-> Filters(c, b.min, b.max, s.value, c.laundry, c.base.keyword),
     maxPages |-> s.pages]

SupplementalRoute(c, b) ==
    [name |-> <<"beds">> \o b.label \o <<"supplemental">>,
     filters |-> Filters(c, b.min, b.max, "days", FALSE, ""),
     maxPages |-> SupplementalLimit(c)]

KeywordRoute(c, i) ==
    [name |-> <<"exact-2-keyword", i>>,
     filters |-> Filters(c, 2, 2, "days", FALSE, KeywordsOf(c)[i].text),
     maxPages |-> SupplementalLimit(c)]

\* The matrix of ranges and sorts, then the supplemental and keyword routes.
Matrix(c) ==
    FlattenSeq([i \in DOMAIN BedRangesOf(c) |->
        [j \in DOMAIN SortsOf(c) |-> SortRoute(c, BedRangesOf(c)[i], SortsOf(c)[j])]])

Supplements(c) ==
    (IF c.noLaundry THEN [i \in DOMAIN BedRangesOf(c) |->
                             SupplementalRoute(c, BedRangesOf(c)[i])]
     ELSE <<>>)
    \o [i \in DOMAIN KeywordsOf(c) |-> KeywordRoute(c, i)]

Plan(c) == [maxPages |-> Limit(c), routes |-> Matrix(c) \o Supplements(c)]

\* The flags are refused before any request otherwise.
Accepts(c) ==
    /\ Limit(c) \in 1 .. MaxDiscoveryPages
    /\ SupplementalLimit(c) \in 1 .. Limit(c)
    /\ \A k \in ToSet(c.keywords) : k.text # ""
    /\ \A b \in ToSet(c.beds) : ValidBeds(b)
    /\ \A s \in ToSet(c.sorts) :
          s.value # "" /\ s.pages \in NoLimit .. MaxDiscoveryPages
    /\ ToSet(c.types) \subseteq HomeTypes
    /\ \A s \in ToSet(SortsOf(c)) : s.pages <= Limit(c)
    /\ Len(Plan(c).routes) <= MaxRoutes

-----------------------------------------------------------------------------
(* --location-max-pages, a sequence of [location, pages] in lower case.    *)

\* parseLocationPageOverrides, and the check for unknown locations.
AcceptsOverrides(overrides, locations, c) ==
    /\ \A o \in ToSet(overrides) :
          o.pages \in 1 .. Limit(c) /\ o.location \in ToSet(locations)
    /\ \A i, j \in DOMAIN overrides :
          overrides[i].location = overrides[j].location => i = j

OverridesFor(location, overrides) ==
    {o \in ToSet(overrides) : o.location = location}

OverriddenMaximum(p, location, overrides) ==
    [p EXCEPT !.maxPages = IF OverridesFor(location, overrides) = {} THEN @
        ELSE (CHOOSE o \in OverridesFor(location, overrides) : TRUE).pages]

\* applyLocationPageOverride: a location's own limit also caps its routes.
Overridden(p, location, overrides) ==
    IF OverridesFor(location, overrides) = {} THEN p
    ELSE LET pages == (CHOOSE o \in OverridesFor(location, overrides) : TRUE).pages
         IN  [maxPages |-> pages,
              routes |-> [i \in DOMAIN p.routes |->
                  [p.routes[i] EXCEPT !.maxPages = IF @ > pages THEN pages ELSE @]]]

\* estimateMultiLocationSearchPlan, for a discovery.
AnnouncedOf(p) ==
    1 + SumOver(p.routes, LAMBDA r : IF r.maxPages > 0 THEN r.maxPages ELSE p.maxPages)

Announced(p, locations, overrides) ==
    SumOver(locations, LAMBDA l : AnnouncedOf(Overridden(p, l, overrides)))

-----------------------------------------------------------------------------
TwoLimits(c) ==
    \E s, t \in ToSet(c.sorts) : s # t /\ SortLabel(s) = SortLabel(t)

\* The discovery of a location is accepted, no route reads more than the
\* location's own limit, and every range is asked for with every sort.
DiscoveryHolds(own, c, limits) ==
    /\ ValidPlan(own)
    /\ \A o \in limits : \A r \in ToSet(Routes(own)) : LimitOf(own, r) <= o.pages
    /\ \A b \in ToSet(BedRangesOf(c)), s \in ToSet(SortsOf(c)) :
          \E r \in ToSet(own.routes) :
             r.filters.min = b.min /\ r.filters.max = b.max
             /\ r.filters.sort = s.value /\ r.filters.laundry = c.laundry

\* The requests of a discovery when nothing is refused.
Requests(p) == 1 + SumOver(Routes(p), LAMBDA r : LimitOf(p, r))

\* Flags that are accepted before the first request lead to discoveries that
\* hold, whatever the overrides, unless one sort has two limits; and the
\* number of requests announced is what they may make.
PlanHolds(c, locations, overrides) ==
    (Accepts(c) /\ AcceptsOverrides(overrides, locations, c) /\ ~TwoLimits(c)) =>
        \A p \in {Plan(c)} :
            /\ \A l \in ToSet(locations) :
                  DiscoveryHolds(Overridden(p, l, overrides), c, OverridesFor(l, overrides))
            /\ Announced(p, locations, overrides) =
                  SumOver(locations, LAMBDA l : Requests(Overridden(p, l, overrides)))
=============================================================================
