--------------------------- MODULE SearchLocations ---------------------------
(***************************************************************************)
(* The location loop of the search command (cli/search.go:443): every      *)
(* requested location is answered from the search cache or fetched live,   *)
(* checked against its boundary and reported.  Commands follow one another *)
(* and share the cache.  A live fetch is a LocationFetch, which a          *)
(* discovery implements and a single page request is a small case of.      *)
(***************************************************************************)
EXTENDS LocationFetch, Retry, Sequences, SequencesExt

CONSTANTS Commands,     \* [locations, discovery, maxPages, caps, retries, strict]
          Parts,        \* the routes of a plan
          Held(_, _, _), \* listings the site holds: target, route, pages read
          Target(_),    \* locationSearchURL; "none" when the location has no slug
          Inside(_, _), \* location, listing: inside the boundary asked for
          MaxCommands   \* bound on the commands run one after the other

\* search.go:148 enters the loop with a location, and search.go:223 and
\* search_retry.go:29 refuse other numbers.
ASSUME SearchAssumption ==
    /\ IsFiniteSet(Parts)
    /\ \A c \in Commands :
          /\ c.locations \in Seq(ToSet(c.locations)) \ {<<>>}
          /\ c.discovery \in BOOLEAN /\ c.maxPages \in Nat /\ c.retries \in Nat
          /\ \A loc \in DOMAIN c.caps : c.caps[loc] \in Nat

VARIABLES command,      \* the running command
          commands,     \* commands started so far
          at,           \* the location at hand, an index into command.locations
          stage,        \* "next", "fetch", "backoff", "report" or "ended"
          attempt,      \* of fetchWithRetry
          spent,        \* requests made for the location at hand
          answer,       \* areaResult: what this location is reported from
          partial,      \* a partialError is set
          areas,        \* areaResults, or the lines already streamed
          exitStatus,   \* the command's own result: "running" until it ends
          cache         \* searchResultCache: key to listings

loopVars == <<command, commands, at, stage, attempt, spent, answer, partial,
              areas, exitStatus, cache>>
vars == <<loopVars, fetchVars>>

Location == command.locations[at]
Single == Len(command.locations) = 1

\* applyLocationPageOverride: a location may be given fewer pages.
PagesFor(c, loc) == IF loc \in DOMAIN c.caps THEN c.caps[loc] ELSE c.maxPages

KeyOfCommand(c, loc) == <<Target(loc), c.discovery, c.maxPages>>

\* searchResultCacheKey of the location's own, capped options; the routes are
\* the same for every command here.
CacheKey(c, loc) ==
    <<Target(loc), c.discovery, IF c.discovery THEN PagesFor(c, loc) ELSE 0>>

\* Everything the site holds for the location under this command.
WholeAnswer(c, loc) ==
    IF c.discovery
    THEN UNION {Held(Target(loc), r, PagesFor(c, loc)) : r \in Parts}
    ELSE UNION {Held(Target(loc), r, 1) : r \in Parts}

\* What one try may cost: discovery spends the retries on its own requests.
FetchBudget(c, loc) ==
    IF c.discovery
    THEN (c.retries + 1) * (1 + PagesFor(c, loc) * Cardinality(Parts))
    ELSE 1

Start ==
    /\ stage = "ended" /\ commands < MaxCommands
    /\ command' \in Commands
    /\ commands' = commands + 1
    /\ at' = 1 /\ stage' = "next" /\ attempt' = 0 /\ spent' = 0
    /\ answer' = {} /\ partial' = FALSE /\ areas' = <<>>
    /\ exitStatus' = "running"
    /\ UNCHANGED <<cache, fetchVars>>

\* The process that ran the last command is gone; entries pass their TTL.
Expire ==
    /\ stage = "ended"
    /\ \E k \in DOMAIN cache :
          cache' = [j \in DOMAIN cache \ {k} |-> cache[j]]
    /\ UNCHANGED <<command, commands, at, stage, attempt, spent, answer,
                   partial, areas, exitStatus, fetchVars>>

\* Adds an area and moves on to the next location, or ends the command: a
\* single search reports its own error, several locations never do.
Report(error, listings) ==
    /\ areas' = Append(areas, [location |-> Location, error |-> error,
                               listings |-> listings])
    /\ IF at < Len(command.locations)
       THEN at' = at + 1 /\ stage' = "next" /\ exitStatus' = exitStatus
       ELSE /\ at' = at /\ stage' = "ended"
            /\ exitStatus' = IF Single /\ error # "none" THEN "error" ELSE "ok"
    /\ attempt' = 0 /\ spent' = 0 /\ answer' = {} /\ partial' = FALSE

\* An error of the only location ends the command with nothing printed.
Fail(error) ==
    \/ /\ Single
       /\ stage' = "ended" /\ exitStatus' = "error"
       /\ attempt' = 0 /\ spent' = 0 /\ answer' = {} /\ partial' = FALSE
       /\ UNCHANGED <<at, areas>>
    \/ ~Single /\ Report(error, {})

NoSuchPlace ==
    /\ stage = "next" /\ Target(Location) = "none"
    /\ Fail("no slug")
    /\ UNCHANGED <<command, commands, cache, fetchVars>>

CacheHit ==
    LET key == CacheKey(command, Location) IN
    /\ stage = "next" /\ Target(Location) # "none"
    /\ key \in DOMAIN cache
    /\ answer' = cache[key] /\ stage' = "report"
    /\ UNCHANGED <<command, commands, at, attempt, spent, partial, areas,
                   exitStatus, cache, fetchVars>>

BeginFetch ==
    /\ status' = "running" /\ covered' = {} /\ asked' = 0
    /\ parts' = IF command.discovery THEN Parts ELSE {"page"}
    /\ budget' = FetchBudget(command, Location)

\* A miss, or an entry that cannot be read, which only warns; the pause
\* between live locations changes nothing else.
CacheMiss ==
    /\ stage = "next" /\ Target(Location) # "none"
    /\ stage' = "fetch"
    /\ BeginFetch
    /\ UNCHANGED <<command, commands, at, attempt, spent, answer, partial,
                   areas, exitStatus, cache>>

\* The request underway belongs to the discovery or the page fetch.
Fetching ==
    /\ stage = "fetch" /\ status = "running"
    /\ \/ Ask /\ (command.discovery \/ status' \in {"whole", "failed"})
       \/ GiveUp /\ command.discovery
    /\ spent' = spent + (asked' - asked)
    /\ UNCHANGED <<command, commands, at, stage, attempt, answer, partial,
                   areas, exitStatus, cache>>

\* With issues the answer is kept out of the cache, before any filtering.
Save(listings) ==
    cache' = [k \in DOMAIN cache \cup {CacheKey(command, Location)} |->
                 IF k = CacheKey(command, Location) THEN listings ELSE cache[k]]

FetchedWhole ==
    LET listings == WholeAnswer(command, Location) IN
    /\ stage = "fetch" /\ status = "whole"
    /\ answer' = listings /\ stage' = "report"
    /\ Save(listings) \/ cache' = cache        \* a failed write only warns
    /\ UNCHANGED <<command, commands, at, attempt, spent, partial, areas,
                   exitStatus, fetchVars>>

FetchedPartQuietly ==
    /\ stage = "fetch" /\ status = "partial" /\ command.discovery
    /\ answer' = UNION {Held(Target(Location), r, PagesFor(command, Location)) :
                           r \in covered}
    /\ stage' = "report"
    /\ UNCHANGED <<command, commands, at, attempt, spent, partial, areas,
                   exitStatus, cache, fetchVars>>

\* Discovery with issues that still found something; what it read of the
\* routes it lost may be among it.
FetchedPart ==
    /\ stage = "fetch" /\ status = "partial" /\ command.discovery
    /\ \E also \in SUBSET (WholeAnswer(command, Location)) :
          answer' = also \cup UNION
              {Held(Target(Location), r, PagesFor(command, Location)) :
                  r \in covered}
    /\ answer' # {}
    /\ partial' = TRUE /\ stage' = "report"
    /\ UNCHANGED <<command, commands, at, attempt, spent, areas, exitStatus,
                   cache, fetchVars>>

\* fetchWithRetry, when the error is a challenge or a rate limit.
BackOff ==
    /\ stage = "fetch" /\ status = "failed"
    /\ attempt < LocationRetries(command.discovery, command.retries)
    /\ attempt' = attempt + 1
    /\ stage' = "backoff"
    /\ UNCHANGED <<command, commands, at, spent, answer, partial, areas,
                   exitStatus, cache, fetchVars>>

FetchAgain ==
    /\ stage = "backoff"
    /\ stage' = "fetch"
    /\ BeginFetch
    /\ UNCHANGED <<command, commands, at, attempt, spent, answer, partial,
                   areas, exitStatus, cache>>

\* Any other error, no attempt left, or issues and not one listing.
FetchLost ==
    /\ stage = "fetch"
    /\ \/ status = "failed"
       \/ /\ status = "partial"
          /\ \A r \in covered :
                Held(Target(Location), r, PagesFor(command, Location)) = {}
    /\ Fail("fetch failed")
    /\ UNCHANGED <<command, commands, cache, fetchVars>>

\* Only a state qualifier refuses an answer that lies wholly elsewhere; the
\* strict boundary leaves an empty area.
ReportArea ==
    LET kept == {l \in answer : Inside(Location, l)} IN
    /\ stage = "report"
    /\ IF ~command.strict /\ kept = {} /\ answer # {}
       THEN Fail("outside the state")
       ELSE Report(IF partial THEN "incomplete discovery" ELSE "none", kept)
    /\ UNCHANGED <<command, commands, cache, fetchVars>>

Over == stage = "ended" /\ commands = MaxCommands /\ UNCHANGED vars

Init ==
    /\ command \in Commands
    /\ commands = 1 /\ at = 1 /\ stage = "next" /\ attempt = 0 /\ spent = 0
    /\ answer = {} /\ partial = FALSE /\ areas = <<>> /\ exitStatus = "running"
    /\ cache = [k \in {} |-> {}]
    /\ FetchInit /\ parts = {} /\ budget = 0

Next ==
    \/ Start \/ Expire \/ NoSuchPlace \/ CacheHit \/ CacheMiss \/ Fetching
    \/ FetchedWhole \/ FetchedPart \/ BackOff \/ FetchAgain \/ FetchLost
    \/ ReportArea \/ Over

Spec == Init /\ [][Next]_vars

-----------------------------------------------------------------------------
\* Whatever command wrote it and whichever pages it was allowed, an entry is
\* all that the site holds for the options of its key, before any boundary:
\* the next command may use it for a location that spells the place
\* differently or draws the boundary elsewhere.
CacheHoldsWholeAnswers ==
    \A c \in Commands : \A loc \in ToSet(c.locations) :
        CacheKey(c, loc) \in DOMAIN cache =>
            cache[CacheKey(c, loc)] = WholeAnswer(c, loc)

\* What a reader is told is true.  An area without an error lists all that
\* lies inside the boundary, however it was obtained; every location before
\* the one at hand has its area, in order; and a search for one place that
\* lost a page does not succeed.
LossIsReported ==
    /\ \A i \in DOMAIN areas :
          /\ areas[i].location = command.locations[i]
          /\ areas[i].error = "none" =>
                areas[i].listings =
                   {l \in WholeAnswer(command, areas[i].location) :
                       Inside(areas[i].location, l)}
    /\ exitStatus = "running" => Len(areas) = at - 1
    /\ exitStatus = "ok" => Len(areas) = Len(command.locations)
    /\ exitStatus = "ok" /\ Single => areas[1].error = "none"

\* The retry budget is spent once, on pages or on the whole location, never
\* multiplied: search_retry.go:20.
RequestsStayLinear ==
    stage # "ended" =>
        spent <= (command.retries + 1)
                    * (IF command.discovery
                       THEN 1 + PagesFor(command, Location) * Cardinality(Parts)
                       ELSE 1)
=============================================================================
