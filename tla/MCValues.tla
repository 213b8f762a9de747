------------------------------- MODULE MCValues -------------------------------
(***************************************************************************)
(* The pure parts of gozillo on small inputs: every step picks one case of *)
(* one part, and the invariants state what that part must make of it.      *)
(***************************************************************************)
EXTENDS FiniteSets, MCArchives, MCPages

VARIABLE case

Pipeline == INSTANCE SearchPipeline
Plans == INSTANCE RoutePlan
Http == INSTANCE HttpExchange
Adapter == INSTANCE TlsAdapter
Har == INSTANCE HarTemplate
    WITH SensitiveNames <- {"token", "csrf", "cookie"}, OpaqueNames <- {"code"},
         CredentialNames <- {"csrf", "csrfthing"}
Session == INSTANCE SessionImport WITH MaxCookies <- 3
Results == INSTANCE ListingDecode WITH MaxInt <- MCMaxInt, ZpidOf <- MCZpidOf
Homes == INSTANCE PropertyDecode WITH MaxInt <- MCMaxInt, ZpidOf <- MCZpidOf
Community == INSTANCE CommunityPage WITH MaxInt <- MCMaxInt, ZpidOf <- MCZpidOf
Facts == INSTANCE RentalFacts
History == INSTANCE ListingHistory
Waits == INSTANCE Retry WITH Ceiling <- 12, Second <- 4, Half <- 64

-----------------------------------------------------------------------------
(* Cards of a search and the pages behind them.                            *)

MCAddressIn(city, zip) ==
    [full |-> "1 main st", city |-> city, state |-> "TX", zip |-> zip]
MCAustin == MCAddressIn("austin", "787")
MCBuda == MCAddressIn("buda", "786")
MCNowhere == [full |-> "", city |-> "", state |-> "", zip |-> ""]

MCListing(id, building, price, beds, sqft, days) ==
    [id |-> id, url |-> id, building |-> building, price |-> price,
     beds |-> beds, baths |-> -1, sqft |-> sqft, days |-> days,
     available |-> -1, cost |-> -1, type |-> "", status |-> "",
     laundry |-> "", parking |-> "", pets |-> "", allowed |-> {}, flex |-> {},
     flags |-> {}, address |-> MCNowhere,
     detail |-> "", match |-> "", reasons |-> {}]

\* A plain card; one of which only the page knows the beds and the size; one
\* whose page is lost; a building whose place only its page tells, and that
\* hides a small unit and a big one without an ID, neither of which is nine days
\* old; and a building whose page gives no address.
MCHouse == [MCListing("house", FALSE, 30, 2, 8, 5)
               EXCEPT !.type = "HOUSE", !.address = MCAustin, !.available = 4]
MCVague == [MCListing("vague", FALSE, 20, -1, -1, -1) EXCEPT !.address = MCBuda]
MCLost == [MCListing("lost", FALSE, 25, 3, 9, 2)
              EXCEPT !.available = 2, !.address.full = "TX", !.address.state = "TX"]
MCTower == [MCListing("tower", TRUE, 15, -1, 3, 9) EXCEPT !.available = 9]
MCCourt == [MCListing("court", TRUE, 22, -1, -1, 1) EXCEPT !.address = MCBuda]
MCCards == {MCHouse, MCVague, MCLost, MCTower, MCCourt}

MCDetailed(l) ==
    [l EXCEPT !.laundry = "in-unit", !.parking = "garage", !.pets = "allowed",
              !.allowed = {"dogs"}, !.cost = l.price + 5, !.status = "FOR_RENT"]

MCPages ==
    ("house" :> [community |-> FALSE, properties |->
        <<[MCDetailed(MCHouse) EXCEPT !.flex = {"private-garage"}]>>]) @@
    ("vague" :> [community |-> FALSE, properties |->
        <<[MCDetailed(MCVague) EXCEPT !.beds = 2, !.sqft = 7, !.days = 1,
              !.flags = {"shared"}, !.available = 3]>>]) @@
    ("tower" :> [community |-> TRUE, properties |->
        <<[MCDetailed(MCListing("unit", FALSE, 15, 1, 3, -1)) EXCEPT
              !.laundry = "unknown", !.address = MCAustin],
          [MCDetailed(MCListing("", FALSE, 28, 3, 12, -1)) EXCEPT
              !.url = "tower", !.cost = -1, !.flex = {"den"},
              !.address = MCAustin]>>]) @@
    ("court" :> [community |-> TRUE, properties |->
        <<MCDetailed(MCListing("flat", FALSE, 22, 2, 6, -1))>>]) @@
    ("unit" :> [community |-> FALSE, properties |->
        <<MCDetailed(MCListing("unit", FALSE, 15, 1, 3, 6))>>])

MCOptions(limit, sortBy) ==
    [minPrice |-> 0, maxPrice |-> 0, minBeds |-> 0, maxBeds |-> 0,
     minBaths |-> 0, types |-> {}, discovery |-> FALSE, ranges |-> {},
     enrich |-> FALSE, verify |-> FALSE, minSqft |-> 0, maxDays |-> -1,
     from |-> -1, by |-> -1, unknownAvailable |-> "exclude",
     outside |-> "exclude", maxCost |-> 0, forRent |-> FALSE, exclude |-> {},
     laundry |-> "any", unknownLaundry |-> "exclude", parking |-> "any",
     pets |-> "any", flex |-> {}, limit |-> limit, sortBy |-> sortBy]

MCSearches(o) ==
    { o, [o EXCEPT !.minSqft = 5, !.minPrice = 16],
      [o EXCEPT !.enrich = TRUE, !.minSqft = 5],
      [o EXCEPT !.verify = TRUE, !.maxDays = 6],
      [o EXCEPT !.maxCost = 34, !.minSqft = 5, !.maxDays = 9],
      [o EXCEPT !.laundry = "in-unit", !.unknownLaundry = "watchlist",
                !.verify = TRUE, !.maxDays = 8],
      [o EXCEPT !.exclude = {"shared"}, !.from = 3, !.by = 6,
                !.unknownAvailable = "watchlist", !.types = {"single"},
                !.discovery = TRUE],
      [o EXCEPT !.discovery = TRUE, !.parking = "garage", !.minBeds = 2,
                !.ranges = {[min |-> 2, max |-> 2], [min |-> 3, max |-> 0]}],
      [o EXCEPT !.discovery = TRUE, !.flex = {"den", "private-garage"},
                !.ranges = {[min |-> 2, max |-> 0]}, !.forRent = TRUE],
      [o EXCEPT !.minSqft = 5, !.flex = {"den"}],
      [o EXCEPT !.pets = "cats", !.maxPrice = 26] }

\* Anywhere; a state; a strict city, with and without another to allow; two
\* cities allowed; and a postal code.
MCPlace == [zip |-> "", city |-> "", state |-> "", aliases |-> {},
            allowed |-> {}, strict |-> FALSE]
MCCity == [MCPlace EXCEPT !.city = "austin", !.state = "TX"]
MCPlaces ==
    {MCPlace, MCCity, [MCCity EXCEPT !.strict = TRUE],
     [MCCity EXCEPT !.strict = TRUE, !.aliases = {"buda"}],
     [MCCity EXCEPT !.allowed = {"austin", "buda"}],
     [MCPlace EXCEPT !.zip = "787", !.strict = TRUE]}

MCPipelineCases ==
    {[kind |-> "pipeline", cards |-> cards, options |-> o, query |-> q] :
        cards \in {s \in SeqOf(MCCards, 3) : IsInjective(s)},
        o \in UNION {MCSearches(MCOptions(l, by)) :
                        l \in {0, 1, 2}, by \in {"recommended", "price-asc", "newest", "sqft-desc"}},
        q \in MCPlaces}

\* See SearchPipeline!AnswerIsComplete: no stage or early limit of a search
\* loses a listing that qualifies.
AnswersAreComplete ==
    case.kind = "pipeline" =>
        Pipeline!AnswerIsComplete(case.cards, case.options, case.query, MCPages)

\* See SearchPipeline!RecencyIsItsOwn: no unit inherits a building's age.
RecencyIsItsOwn ==
    case.kind = "pipeline" =>
        Pipeline!RecencyIsItsOwn(case.cards, case.options, case.query, MCPages)

-----------------------------------------------------------------------------
(* Flags of a discovery.                                                   *)

MCBeds == {[form |-> "exact", min |-> 2, max |-> 0],
           [form |-> "closed", min |-> 2, max |-> 2],
           [form |-> "open", min |-> 3, max |-> 0],
           [form |-> "closed", min |-> 3, max |-> 1]}
MCSorts == {[value |-> "days", pages |-> 0], [value |-> "days", pages |-> 2],
            [value |-> "price", pages |-> 3]}

MCFlags ==
    [maxPages : {0, 3, 21}, supplementalPages : {0, 2}, beds : SeqOf(MCBeds, 2),
     sorts : SeqOf(MCSorts, 2), types : {<<"condo", "condo">>},
     keywords : {<<>>, <<[text |-> "Den", lower |-> "den"],
                         [text |-> "den", lower |-> "den"]>>,
                 [i \in 1 .. 13 |-> [text |-> ToString(i), lower |-> ToString(i)]]},
     noLaundry : BOOLEAN, laundry : {TRUE}, rent : {TRUE},
     base : {[min |-> 0, max |-> 4, sort |-> "", keyword |-> ""]}]

MCOverrides ==
    {<<>>, <<[location |-> "here", pages |-> 1]>>,
     <<[location |-> "here", pages |-> 2], [location |-> "there", pages |-> 3]>>,
     <<[location |-> "nowhere", pages |-> 1]>>}

MCPlanCases ==
    {[kind |-> "plan", flags |-> c, overrides |-> o] : c \in MCFlags, o \in MCOverrides}

\* See RoutePlan!PlanHolds: what the flags promise is what discoveries do.
PlansHold ==
    case.kind = "plan" =>
        Plans!PlanHolds(case.flags, <<"here", "there">>, case.overrides)

-----------------------------------------------------------------------------
(* Waits before another attempt: up to ten doublings, and headers whose    *)
(* seconds wrap around.                                                    *)

MCWaitCases ==
    {[kind |-> "wait", base |-> b, attempt |-> a, seconds |-> n] :
        b \in {0, 1, 3, 5, 6, 12, 30}, a \in 0 .. 9, n \in -1 .. 50}

\* See Retry!WaitIsSound: no wait is negative, shrinks or outgrows its cap.
WaitsAreSound ==
    case.kind = "wait" => Waits!WaitIsSound(case.base, case.attempt, case.seconds)

-----------------------------------------------------------------------------
(* Requests of the client and the adapter beneath them.                    *)

MCUrl(scheme, host) ==
    [scheme |-> scheme, host |-> host, user |-> FALSE, port |-> FALSE]
MCHome == MCUrl("https", "www.zillow.com")
MCAway == MCUrl("https", "elsewhere")

MCBodies == [size : {1, 3}, shape : {"html", "json", "text"}, next : BOOLEAN,
             marker : BOOLEAN]
MCFinals ==
    [status : {0, 200, 403, 429, 500}, location : {<<>>},
     blocked : {"", "false", "1"}, type : {"json", "html", ""}, body : MCBodies]
MCRedirect(url) ==
    [status |-> 302, location |-> <<url>>, blocked |-> "", type |-> "",
     body |-> [size |-> 0, shape |-> "text", next |-> FALSE, marker |-> FALSE]]

MCChains ==
    {<<>>, <<MCRedirect(MCHome)>>, <<MCRedirect(MCAway)>>,
     [i \in 1 .. 9 |-> MCRedirect(MCHome)], [i \in 1 .. 10 |-> MCRedirect(MCHome)]}

MCClients ==
    [timeout : {0}, limit : {0, 2}, agent : {""},
     headers : {{}, {[name |-> "cookie", bytes |-> 6, values |-> <<1>>]}}]

MCExchangeCases ==
    [kind : {"exchange"}, options : MCClients, chain : MCChains, final : MCFinals,
     spec : [url : {MCHome}, kind : {"html", "json"}, body : {TRUE}, referer : {FALSE}]
            \cup [url : {MCAway}, kind : {"json"}, body : {TRUE}, referer : {TRUE}]]

MCNames == {[name |-> "Cookie", lower |-> "cookie"],
            [name |-> "cookie", lower |-> "cookie"],
            [name |-> "Accept", lower |-> "accept"],
            [name |-> "X-B", lower |-> "x-b"], [name |-> "X-A", lower |-> "x-a"],
            [name |-> "Header-Order:", lower |-> "header-order:"]}
MCRank == [name \in {n.lower : n \in MCNames} |-> IF name = "x-a" THEN 1 ELSE 2]

MCTripCases ==
    [kind : {"trip"}, names : SUBSET MCNames, cancelled : BOOLEAN,
     backend : [error : BOOLEAN, response : {"none", "empty", "body"}],
     timeout : {0, 1, 999999, 1000000, 1999999}]

\* See HttpExchange!ExchangeIsSound and TlsAdapter!AdapterIsTransparent: what
\* the site declines is retried, what it serves is data, and the adapter in
\* between loses neither headers, nor bodies, nor the reason of a failure.
RequestsAreSound ==
    /\ case.kind = "exchange" =>
          Http!ExchangeIsSound(case.options, case.spec, Append(case.chain, case.final))
    /\ case.kind = "trip" =>
          Adapter!AdapterIsTransparent(case.names, MCRank, case.backend,
                                       case.cancelled, case.timeout)

-----------------------------------------------------------------------------
(* Captures of a browser; see MCArchives.                                  *)

\* See HarTemplate!SanitizedIsCleanAndUsable and SessionImport!JarIsTheBrowsers:
\* what is shared of a capture holds no secret and still gives its template,
\* and a session imported from it sends what the browser sent last.
CapturesAreUsedWell ==
    /\ case.kind = "archive" => Har!SanitizedIsCleanAndUsable(case.archive, case.keep)
    /\ case.kind = "cookies" => Session!JarIsTheBrowsers(case.requests)

-----------------------------------------------------------------------------
(* Pages of the site and earlier output; see MCPages.                      *)

\* See ListingDecode!ResultsAreWhole, PropertyDecode!HomeIsTheOneAsked,
\* CommunityPage!CommunityIsListed, RentalFacts!FactsArePromised and
\* RecencyIsCurrent, and ListingHistory!HistoryIsTrue: what is read from a page
\* is all of it, of the right home, and no more than the page says.
PagesAreUnderstood ==
    /\ case.kind = "results" => Results!ResultsAreWhole(case.page)
    /\ case.kind = "home" => Homes!HomeIsTheOneAsked(case.page)
    /\ case.kind = "community" => Community!CommunityIsListed(case.building)
    /\ case.kind = "facts" => Facts!FactsArePromised(case.reso, case.description)
    /\ case.kind = "recency" => Facts!RecencyIsCurrent(case.history, 3)
    /\ case.kind = "history" => History!HistoryIsTrue(case.areas, case.mode, case.now)

-----------------------------------------------------------------------------
Init == case = [kind |-> "none"]

Pick(cases) == case.kind = "none" /\ case' \in cases

Next ==
    \/ Pick(MCPipelineCases)
    \/ Pick(MCPlanCases)
    \/ Pick(MCWaitCases)
    \/ Pick(MCExchangeCases)
    \/ Pick(MCTripCases)
    \/ Pick(MCArchiveCases)
    \/ Pick(MCCookieCases)
    \/ Pick(MCSearchPageCases)
    \/ Pick(MCPropertyCases)
    \/ Pick(MCCommunityCases)
    \/ Pick(MCFactsCases)
    \/ Pick(MCRecencyCases)
    \/ Pick(MCHistoryCases)
    \/ case.kind # "none" /\ case' = [kind |-> "none"]

Spec == Init /\ [][Next]_case
=============================================================================
