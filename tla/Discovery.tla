----------------------------- MODULE Discovery -----------------------------
(***************************************************************************)
(* Client.DiscoverLocation (zillow/search_discovery.go): one bootstrap     *)
(* page, then the pages of every route in turn, each request retried while *)
(* the site refuses it.  A page that stays lost ends its route; one that   *)
(* was refused ends the discovery.                                         *)
(***************************************************************************)
EXTENDS FiniteSets, RoutePlan

CONSTANTS Plans,      \* the options to try: [maxPages, routes]
          Sites,      \* what the routes hold: [pages, total] per route
          Retries,    \* options.RequestRetries
          Paced,      \* options.PageDelay > 0
          Anonymous   \* a listing with no ID, URL or address

\* listingDiscoveryKey, and the place of a listing that has no identity.
Key(l, r, p, i) == IF l = Anonymous THEN <<r, p, i>> ELSE l
PageKeys(shown, r, p) == [i \in DOMAIN shown |-> Key(shown[i], r, p, i)]

\* What the page loop relies on: a page that exists is not empty, and the
\* site either says how many there are or shows something new on each; a page
\* with nothing new is taken for the end (search_discovery.go:193).
ShowsAll(stored, r) ==
    /\ stored.pages \in Seq(ToSet(stored.pages))
    /\ \A shown \in ToSet(stored.pages) : shown \in Seq(ToSet(shown)) \ {<<>>}
    /\ \/ stored.total = Len(stored.pages)
       \/ /\ stored.total = 0
          /\ \A p \in 2 .. Len(stored.pages) :
                ~(ToSet(PageKeys(stored.pages[p], r, p)) \subseteq
                     UNION {ToSet(PageKeys(stored.pages[q], r, q)) : q \in 1 .. p - 1})

ASSUME DiscoveryAssumption ==
    /\ Retries \in Nat /\ Paced \in BOOLEAN
    /\ \A p \in Plans :
          /\ p.maxPages \in Int /\ p.routes \in Seq(ToSet(p.routes))
          /\ \A r \in ToSet(p.routes) : r.maxPages \in Int
    /\ \A s \in Sites, p \in Plans : ValidPlan(p) => DOMAIN Routes(p) \subseteq DOMAIN s
    /\ \A s \in Sites : \A r \in DOMAIN s : ShowsAll(s[r], r)

VARIABLES plan, site,
          phase,      \* "start", "bootstrap", "pages", "done" or "failed"
          route, page, attempt,
          waiting,    \* a timer is running: before a page or before a retry
          routeSeen,  \* keys met on this route
          current,    \* the coverage of this route so far
          listings,   \* the keys of result.Listings, in order
          coverage, issues,
          requests,   \* HTTP requests made
          refused     \* a request was given up because the site refused it

vars == <<plan, site, phase, route, page, attempt, waiting, routeSeen,
          current, listings, coverage, issues, requests, refused>>

PageLimit(r) == LimitOf(plan, Routes(plan)[r])

Answer(r, p) == IF p <= Len(site[r].pages) THEN site[r].pages[p] ELSE <<>>
KeysOf(r, p) == PageKeys(Answer(r, p), r, p)

AddAll(known, keys) == known \o keys
AddNew(known, keys) ==
    FoldLeft(LAMBDA acc, k : IF k \in ToSet(acc) THEN acc ELSE Append(acc, k),
             known, keys)

Fresh(r) == [route |-> r, fetched |-> 0, total |-> 0, unique |-> 0,
             complete |-> FALSE]

Init ==
    /\ plan \in Plans /\ site \in Sites
    /\ phase = "start" /\ route = 1 /\ page = 1 /\ attempt = 0
    /\ waiting = FALSE /\ routeSeen = {} /\ current = Fresh(1)
    /\ listings = <<>> /\ coverage = <<>> /\ issues = <<>>
    /\ requests = 0 /\ refused = FALSE

Begin ==
    /\ phase = "start"
    /\ phase' = IF ValidPlan(plan) THEN "bootstrap" ELSE "failed"
    /\ UNCHANGED <<plan, site, route, page, attempt, waiting, routeSeen,
                   current, listings, coverage, issues, requests, refused>>

Requesting == phase \in {"bootstrap", "pages"} /\ ~waiting

\* retryDiscoveryRequest: the site refuses and the budget allows another
\* attempt, after a delay unless both backoff and Retry-After are zero.
TryAgain ==
    /\ Requesting /\ attempt < Retries
    /\ requests' = requests + 1
    /\ attempt' = attempt + 1
    /\ waiting' \in BOOLEAN
    /\ UNCHANGED <<plan, site, phase, route, page, routeSeen, current,
                   listings, coverage, issues, refused>>

\* waitDiscoveryDelay
Wake ==
    /\ waiting
    /\ waiting' = FALSE
    /\ UNCHANGED <<plan, site, phase, route, page, attempt, routeSeen,
                   current, listings, coverage, issues, requests, refused>>

\* The context ends while a page is paced or the bootstrap is retried.
Cancel ==
    /\ waiting /\ ~(phase = "pages" /\ attempt > 0)
    /\ phase' = "failed" /\ waiting' = FALSE
    /\ UNCHANGED <<plan, site, route, page, attempt, routeSeen, current,
                   listings, coverage, issues, requests, refused>>

BootstrapRead ==
    /\ Requesting /\ phase = "bootstrap"
    /\ requests' = requests + 1
    /\ phase' = "pages" /\ attempt' = 0
    /\ UNCHANGED <<plan, site, route, page, waiting, routeSeen, current,
                   listings, coverage, issues, refused>>

\* No profile, no discovery: the error is returned whatever it is.
BootstrapLost(challenged) ==
    /\ Requesting /\ phase = "bootstrap"
    /\ challenged => attempt = Retries
    /\ requests' = requests + 1
    /\ phase' = "failed" /\ refused' = challenged
    /\ UNCHANGED <<plan, site, route, page, attempt, waiting, routeSeen,
                   current, listings, coverage, issues>>

EndRouteAlways(c, stop) ==
    /\ coverage' = Append(coverage, c)
    /\ attempt' = 0 /\ page' = 1 /\ routeSeen' = {}
    /\ phase' = IF route = Len(Routes(plan)) THEN "done" ELSE "pages"
    /\ route' = IF route = Len(Routes(plan)) THEN route ELSE route + 1
    /\ waiting' = (Paced /\ route < Len(Routes(plan)))
    /\ current' = Fresh(route')

\* The end of the page loop: the route's coverage is kept, and the next
\* route begins unless this was the last or the site refused a page.
EndRoute(c, stop) ==
    LET last == stop \/ route = Len(Routes(plan)) IN
    /\ coverage' = Append(coverage, c)
    /\ attempt' = 0 /\ page' = 1 /\ routeSeen' = {}
    /\ phase' = IF last THEN "done" ELSE "pages"
    /\ route' = IF last THEN route ELSE route + 1
    /\ waiting' = (Paced /\ ~last)
    /\ current' = Fresh(route')

\* A page is the last one when the reported total says so, when it is empty,
\* or, without a total, when it shows nothing new.
EndsRoute(p, total, keys, new) ==
    \/ total > 0 /\ p >= total
    \/ keys = <<>>
    \/ new = {} /\ total <= 0

PageRead ==
    LET keys  == KeysOf(route, page)
        new   == ToSet(keys) \ routeSeen
        total == site[route].total
        ends  == EndsRoute(page, total, keys, new)
        read  == [current EXCEPT !.fetched = @ + 1, !.total = total,
                                 !.unique = @ + Cardinality(new),
                                 !.complete = ends]
    IN
    /\ Requesting /\ phase = "pages"
    /\ requests' = requests + 1
    /\ listings' = AddNew(listings, keys)
    /\ IF ends \/ page = PageLimit(route)
       THEN EndRoute(read, FALSE)
       ELSE /\ current' = read /\ page' = page + 1 /\ attempt' = 0
            /\ routeSeen' = routeSeen \cup new /\ waiting' = Paced
            /\ UNCHANGED <<phase, route, coverage>>
    /\ UNCHANGED <<plan, site, issues, refused>>

PageLostSilently(challenged) ==
    /\ Requesting /\ phase = "pages"
    /\ challenged => attempt = Retries
    /\ requests' = requests + 1
    /\ refused' = challenged
    /\ EndRoute(current, challenged)
    /\ UNCHANGED <<plan, site, listings, issues>>

PageLost(challenged) ==
    /\ Requesting /\ phase = "pages"
    /\ challenged => attempt = Retries
    /\ requests' = requests + 1
    /\ refused' = challenged
    /\ issues' = Append(issues, [route |-> route, page |-> page])
    /\ EndRoute(current, challenged)
    /\ UNCHANGED <<plan, site, listings>>

\* A context that ends while a page is retried costs that page only: its
\* error is not a refusal, so the next route is tried (and, the context being
\* over, lost or cancelled in its turn: a subset of what Next allows it).
CancelRetry ==
    /\ waiting /\ phase = "pages" /\ attempt > 0
    /\ issues' = Append(issues, [route |-> route, page |-> page])
    /\ EndRoute(current, FALSE)
    /\ UNCHANGED <<plan, site, listings, requests, refused>>

Over == phase \in {"done", "failed"} /\ UNCHANGED vars

Next ==
    \/ Begin \/ TryAgain \/ Wake \/ Cancel \/ CancelRetry
    \/ BootstrapRead \/ PageRead
    \/ \E challenged \in BOOLEAN :
          BootstrapLost(challenged) \/ PageLost(challenged)
    \/ Over

Spec == Init /\ [][Next]_vars

-----------------------------------------------------------------------------
KeysUpTo(r, n) == UNION {ToSet(KeysOf(r, p)) : p \in 1 .. n}
KeysRead(cs) == UNION {KeysUpTo(c.route, c.fetched) : c \in cs}

\* What the result says of itself is true of the site: every route counts
\* exactly the listings on the pages it read, "complete" means none of the
\* route's listings is missing, and the result holds each of them once.
CoverageIsTrue ==
    /\ \A c \in ToSet(coverage) :
          /\ c.unique = Cardinality(KeysUpTo(c.route, c.fetched))
          /\ KeysUpTo(c.route, c.fetched) \subseteq ToSet(listings)
          /\ c.complete => KeysUpTo(c.route, Len(site[c.route].pages))
                               \subseteq ToSet(listings)
    /\ phase = "done" => ToSet(listings) = KeysRead(ToSet(coverage))
    /\ IsInjective(listings)

\* Once the site has refused a request to the end of its retries, nothing
\* more is asked of it: neither the next page nor the next route.
NothingAfterRefusal == [][refused => requests' = requests]_vars

-----------------------------------------------------------------------------
LimitsUpTo[n \in 0 .. Len(Routes(plan))] == IF n = 0 THEN 0 ELSE PageLimit(n) + LimitsUpTo[n - 1]

\* Every page and the bootstrap may cost the whole retry budget, no more.
RequestBudget == (Retries + 1) * (1 + LimitsUpTo[Len(Routes(plan))])

IsRead(c) == c.complete \/ c.fetched = PageLimit(c.route)

Outcome == CASE phase = "failed" -> "failed"
             [] phase = "done" -> IF issues = <<>> THEN "whole" ELSE "partial"
             [] OTHER -> "running"
Covered == {c.route : c \in {d \in ToSet(coverage) : IsRead(d)}}

Fetch == INSTANCE LocationFetch WITH
    status <- Outcome, parts <- DOMAIN Routes(plan), covered <- Covered,
    budget <- RequestBudget, asked <- requests

\* A discovery is a location fetch: it stays within its budget of requests,
\* and only without an issue, which is when search.go:505 caches it and does
\* not call it incomplete, was every route read to its end or page limit.
ImplementsFetch == Fetch!FetchSpec
=============================================================================
