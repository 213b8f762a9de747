---------------------------- MODULE DetailEnricher ----------------------------
(***************************************************************************)
(* The listing detail enricher of the search command                       *)
(* (internal/cli/search_details.go): a pool of workers fetches the         *)
(* property pages of a location's listings, an in-memory cache and a disk  *)
(* cache avoid repeated requests, a pacing clock spaces the requests, and  *)
(* a circuit breaker ("blocked") skips what is left of a location once a   *)
(* request is challenged or rate limited.                                  *)
(*                                                                         *)
(* A location runs one details pass (Enrich) and at most one recency pass  *)
(* (EnrichRecency, the same steps taken by the calling goroutine alone);   *)
(* the search command resets the breaker before each location.             *)
(*                                                                         *)
(* One action is one critical section, one request or one timer.  Listings *)
(* are abstracted to their URLs, a rental page to the kind of result, and  *)
(* wall-clock time to a counter that may advance between any two steps.    *)
(* The context of the passes is context.Background(), so the cancellation  *)
(* branch of waitForTurn is never taken.                                   *)
(***************************************************************************)
EXTENDS Integers, FiniteSets

CONSTANTS Urls,         \* property URLs
          Workers,      \* the detail workers (--detail-workers)
          NoUrl,        \* "no URL": what an idle worker holds
          Delay,        \* --detail-delay, 0 when requests are not paced
          Cooldowns,    \* the cooldowns a retryable response can ask for
          TTL,          \* --property-cache-ttl, 0 when there is no disk cache
          MaxTime,      \* bound: the clock does not idle past this time
          MaxLocations  \* bound: the locations of one search

ASSUME EnricherAssumption ==
  /\ Workers # {} /\ IsFiniteSet(Workers)
  /\ IsFiniteSet(Urls)
  /\ NoUrl \notin Urls
  /\ Delay \in Nat
  /\ Cooldowns \subseteq Nat \ {0}
  /\ TTL \in Nat
  /\ MaxTime \in Nat
  /\ MaxLocations \in Nat

VARIABLES
  now,            \* the clock, in abstract units, from 1
  location,       \* the locations started so far
  pass,           \* the pass under way, or the last one
  phase,          \* where the orchestrating goroutine is
  batch,          \* the URLs of the pass
  todo,           \* of those, the ones not looked up in the caches yet
  jobs,           \* uniqueURLs not handed to a worker yet
  crew,           \* the workers of the pass
  cache,          \* the in-memory cache
  blocked,        \* the open circuit, Absent when closed
  disk,           \* the property disk cache
  nextStart,      \* the next free request slot
  wpc,            \* per worker: the step it takes next
  wurl,           \* per worker: the URL it works on
  slot,           \* per worker: the start time it reserved, 0 for none
  wres,           \* per worker: the result it is about to store
  total,          \* progress: the requests this pass is to make
  fetched,        \* progress: requests made in this pass
  skipped,        \* progress: requests skipped in this pass
  pauseReported,  \* has this pass reported its pause?
  late,           \* history: starts of each worker while blocked is set
  cleared,        \* history: the workers past their check when it was set
  longest         \* history: the latest retry time asked for in this location

breaker  == <<blocked, late, cleared, longest>>
orchestr == <<location, pass, phase, batch, todo>>
progress == <<total, fetched, skipped, pauseReported>>
worker   == <<wpc, wurl, slot, wres>>
vars     == <<now, orchestr, jobs, crew, cache, breaker, disk, nextStart,
              worker, progress>>
-------------------------------------------------------------------------------
(* Results.  retryAfter 0 is Go's zero time: no expiry.                    *)

Result(k, t) == [kind |-> k, retryAfter |-> t]
Absent       == Result("none", 0)
IsError(r)   == r.kind \in {"retryable", "drift", "fail", "paused"}
Expired(r)   == IsError(r) /\ r.retryAfter # 0 /\ r.retryAfter <= now

\* cached(): an expired error is dropped by whoever looks it up.
KnownNowhere(u) == FALSE
Known(u)        == cache[u].kind # "none" /\ ~Expired(cache[u])
Unexpired(u)    == IF Expired(cache[u]) THEN Absent ELSE cache[u]

NoRecord == [kind |-> "none", retryAfter |-> 0, storedAt |-> 0]

\* loadPersistent over diskCache.Load: within the TTL, a page, or an error
\* whose own retry time lies ahead.
OnDisk(u) ==
  /\ TTL > 0
  /\ disk[u].kind # "none"
  /\ now - disk[u].storedAt <= TTL
  /\ disk[u].kind # "page" => disk[u].retryAfter > now

\* newDetailFetchResult: what a response becomes, by its error class.
Responses ==
  {Result("page", 0), Result("fail", 0)}
    \cup {Result("retryable", now + c) : c \in Cooldowns}
    \cup {Result("drift", IF TTL > 0 THEN now + TTL ELSE 0)}

\* activePause: is the circuit open, and the block it leaves behind, an
\* expired one being cleared by whoever looks.
Paused     == blocked.kind # "none" /\ blocked.retryAfter > now
AfterLook  == IF Paused THEN blocked ELSE Absent
LookAtPause ==
  /\ blocked' = AfterLook
  /\ cleared' = IF Paused THEN cleared ELSE {}
  /\ late' = IF Paused THEN late ELSE [w \in Workers |-> 0]
  /\ UNCHANGED longest

PausedResult == Result("paused", blocked.retryAfter)
-------------------------------------------------------------------------------
Init ==
  /\ now = 1
  /\ location = 0 /\ pass = "details" /\ phase = "idle"
  /\ batch = {} /\ todo = {} /\ jobs = {} /\ crew = {}
  /\ cache = [u \in Urls |-> Absent]
  /\ blocked = Absent /\ cleared = {} /\ late = [w \in Workers |-> 0]
  /\ longest = 0
  /\ disk = [u \in Urls |-> NoRecord]
  /\ nextStart = 0
  /\ wpc = [w \in Workers |-> "idle"]
  /\ wurl = [w \in Workers |-> NoUrl]
  /\ slot = [w \in Workers |-> 0]
  /\ wres = [w \in Workers |-> Absent]
  /\ total = 0 /\ fetched = 0 /\ skipped = 0 /\ pauseReported = FALSE

\* A pass starts over its unique URLs with fresh progress counters.
OpenPass(p, urls) ==
  /\ pass' = p /\ phase' = "prepare"
  /\ batch' = urls /\ todo' = urls
  /\ total' = 0 /\ fetched' = 0 /\ skipped' = 0 /\ pauseReported' = FALSE

\* The search command turns to its next location: resetPause, then Enrich.
BeginDetails(urls) ==
  /\ phase = "idle" /\ location < MaxLocations
  /\ location' = location + 1
  /\ blocked' = Absent /\ cleared' = {}
  /\ late' = [w \in Workers |-> 0] /\ longest' = 0
  /\ OpenPass("details", urls)
  /\ UNCHANGED <<now, jobs, crew, cache, disk, nextStart, worker>>

\* EnrichRecency over the listings that survived the detail filters.
BeginRecency(urls) ==
  /\ phase = "between"
  /\ OpenPass("recency", urls)
  /\ UNCHANGED <<now, location, jobs, crew, cache, breaker, disk, nextStart,
                 worker>>

\* No listing is left to verify, or recency is not verified.
EndLocation ==
  /\ phase = "between"
  /\ phase' = "idle"
  /\ UNCHANGED <<now, location, pass, batch, todo, jobs, crew, cache, breaker,
                 disk, nextStart, worker, progress>>

\* One URL is looked up: cached() drops an expired error, then
\* loadPersistent may fill the cache, else the URL becomes a job.
Examine(u) ==
  /\ phase = "prepare" /\ u \in todo
  /\ todo' = todo \ {u}
  /\ IF Known(u)
     THEN UNCHANGED <<cache, jobs>>
     ELSE IF OnDisk(u)
     THEN /\ cache' = [cache EXCEPT
                         ![u] = Result(disk[u].kind, disk[u].retryAfter)]
          /\ UNCHANGED jobs
     ELSE /\ cache' = [cache EXCEPT ![u] = Unexpired(u)]
          /\ jobs' = jobs \cup {u}
  /\ UNCHANGED <<now, location, pass, phase, batch, crew, breaker, disk,
                 nextStart, worker, progress>>

\* Enrich starts as many workers as it has jobs for; EnrichRecency works
\* through its URLs itself.  Enrich's opening look at the circuit finds it
\* closed: resetPause precedes every details pass.
Launch ==
  /\ phase = "prepare" /\ todo = {}
  /\ phase' = "run"
  /\ total' = Cardinality(jobs)
  /\ crew' \in SUBSET Workers
  /\ Cardinality(crew') = IF pass = "recency" THEN 1
                          ELSE IF total' < Cardinality(Workers) THEN total'
                          ELSE Cardinality(Workers)
  /\ UNCHANGED <<now, location, pass, batch, todo, jobs, cache, breaker, disk,
                 nextStart, worker, fetched, skipped, pauseReported>>
-------------------------------------------------------------------------------
(* The steps of a worker, or of EnrichRecency's loop.                      *)

Goto(w, step) == wpc' = [wpc EXCEPT ![w] = step]

Take(w, u) ==
  /\ phase = "run" /\ w \in crew /\ wpc[w] = "idle" /\ u \in jobs
  /\ jobs' = jobs \ {u}
  /\ wurl' = [wurl EXCEPT ![w] = u]
  /\ Goto(w, "check")
  /\ UNCHANGED <<now, orchestr, crew, cache, breaker, disk, nextStart, slot,
                 wres, progress>>

\* activePause, before the turn is waited for ("check") and after it
\* ("recheck").  EnrichRecency reports the pause before it skips.
CheckPause(w) ==
  /\ wpc[w] \in {"check", "recheck"}
  /\ LookAtPause
  /\ IF Paused
     THEN /\ wres' = [wres EXCEPT ![w] = PausedResult]
          /\ pauseReported' = (pauseReported \/ pass = "recency")
          /\ Goto(w, "store")
     ELSE /\ Goto(w, IF wpc[w] = "check" THEN "pace" ELSE "start")
          /\ UNCHANGED <<wres, pauseReported>>
  /\ UNCHANGED <<now, orchestr, jobs, crew, cache, disk, nextStart, wurl,
                 slot, total, fetched, skipped>>

\* The circuit is looked at again after the turn.
AfterTurnUnchecked == "start"
AfterTurn          == "recheck"

NextSlotUnqueued == now
NextSlot         == IF nextStart > now THEN nextStart ELSE now

\* waitForTurn: the next slot, never in the past, is reserved under paceMu.
ReserveTurn(w) ==
  /\ wpc[w] = "pace"
  /\ IF Delay = 0
     THEN Goto(w, AfterTurn) /\ UNCHANGED <<slot, nextStart>>
     ELSE /\ slot' = [slot EXCEPT ![w] = NextSlot]
          /\ nextStart' = NextSlot + Delay
          /\ Goto(w, "sleep")
  /\ UNCHANGED <<now, orchestr, jobs, crew, cache, breaker, disk, wurl, wres,
                 progress>>

Wake(w) ==
  /\ wpc[w] = "sleep" /\ slot[w] <= now
  /\ Goto(w, AfterTurn)
  /\ UNCHANGED <<now, orchestr, jobs, crew, cache, breaker, disk, nextStart,
                 wurl, slot, wres, progress>>

\* The request leaves; nothing is locked between the check and this.
StartFetch(w) ==
  /\ wpc[w] = "start"
  /\ late' = [late EXCEPT ![w] = IF blocked.kind = "none" THEN @ ELSE @ + 1]
  /\ Goto(w, "inflight")
  /\ UNCHANGED <<now, orchestr, jobs, crew, cache, blocked, cleared,
                 longest, disk, nextStart, wurl, slot, wres, progress>>

FetchReturns(w) ==
  /\ wpc[w] = "inflight"
  /\ \E r \in Responses : wres' = [wres EXCEPT ![w] = r]
  /\ Goto(w, "save")
  /\ UNCHANGED <<now, orchestr, jobs, crew, cache, breaker, disk, nextStart,
                 wurl, slot, progress>>

\* savePersistent: other errors are not kept, and a failed write is ignored.
SavePersistent(w) ==
  /\ wpc[w] = "save"
  /\ Goto(w, "store")
  /\ \/ /\ TTL > 0 /\ wres[w].kind \in {"page", "retryable", "drift"}
        /\ disk' = [disk EXCEPT ![wurl[w]] =
                      [kind |-> wres[w].kind, retryAfter |-> wres[w].retryAfter,
                       storedAt |-> now]]
     \/ UNCHANGED disk
  /\ UNCHANGED <<now, orchestr, jobs, crew, cache, breaker, nextStart, wurl,
                 slot, wres, progress>>

Store(w) ==
  /\ wpc[w] = "store"
  /\ cache' = [cache EXCEPT ![wurl[w]] = wres[w]]
  /\ Goto(w, IF wres[w].kind = "paused" THEN "record" ELSE "trip")
  /\ UNCHANGED <<now, orchestr, jobs, crew, breaker, disk, nextStart, wurl,
                 slot, wres, progress>>

\* pauseAfterRetryable: the circuit opens, or stays open longer.
TripsOnAny(r) == r.kind = "retryable"
Trips(r) ==
  /\ r.kind = "retryable"
  /\ blocked.kind = "none" \/ r.retryAfter > blocked.retryAfter

\* A change is announced, once the breaker's lock is released.
AfterTripUnannounced(r) ==
  IF Trips(r) /\ blocked.kind # "none" THEN "announce" ELSE "record"
AfterTrip(r) == IF Trips(r) THEN "announce" ELSE "record"

Trip(w) ==
  /\ wpc[w] = "trip"
  /\ IF Trips(wres[w])
     THEN /\ blocked' = wres[w]
          /\ cleared' = IF blocked.kind = "none"
                        THEN {v \in Workers : wpc[v] = "start"} ELSE cleared
     ELSE UNCHANGED <<blocked, cleared>>
  /\ Goto(w, AfterTrip(wres[w]))
  /\ longest' = IF wres[w].kind = "retryable" /\ wres[w].retryAfter > longest
                THEN wres[w].retryAfter ELSE longest
  /\ UNCHANGED <<now, orchestr, jobs, crew, cache, late, disk, nextStart, wurl,
                 slot, wres, progress>>

\* reportPause, after the breaker's lock is released; once per pass.
Announce(w) ==
  /\ wpc[w] = "announce"
  /\ pauseReported' = TRUE
  /\ Goto(w, "record")
  /\ UNCHANGED <<now, orchestr, jobs, crew, cache, breaker, disk, nextStart,
                 wurl, slot, wres, total, fetched, skipped>>

Release(w) ==
  /\ wurl' = [wurl EXCEPT ![w] = NoUrl]
  /\ wres' = [wres EXCEPT ![w] = Absent]
  /\ slot' = [slot EXCEPT ![w] = 0]

\* record: the progress counters, then the next job.
Record(w) ==
  /\ wpc[w] = "record"
  /\ IF wres[w].kind = "paused"
     THEN skipped' = skipped + 1 /\ UNCHANGED fetched
     ELSE fetched' = fetched + 1 /\ UNCHANGED skipped
  /\ Goto(w, "idle") /\ Release(w)
  /\ UNCHANGED <<now, orchestr, jobs, crew, cache, breaker, disk, nextStart,
                 total, pauseReported>>

Step(w) ==
  \/ \E u \in Urls : Take(w, u)
  \/ CheckPause(w) \/ ReserveTurn(w) \/ Wake(w)
  \/ StartFetch(w) \/ FetchReturns(w)
  \/ SavePersistent(w) \/ Store(w) \/ Trip(w) \/ Announce(w) \/ Record(w)
-------------------------------------------------------------------------------
AnyWorkersDone == TRUE
AllWorkersDone == \A w \in Workers : wpc[w] = "idle"

\* workers.Wait(): every job is handed out and every worker is done.
JobsDone ==
  /\ phase = "run" /\ jobs = {}
  /\ AllWorkersDone
  /\ phase' = "merge"
  /\ UNCHANGED <<now, location, pass, batch, todo, jobs, crew, cache, breaker,
                 disk, nextStart, worker, progress>>

\* The results are read back into the listings, through cached(), which
\* drops an error that has expired meanwhile.
Merge ==
  /\ phase = "merge"
  /\ cache' = [u \in Urls |-> IF u \in batch THEN Unexpired(u) ELSE cache[u]]
  /\ phase' = IF pass = "details" THEN "between" ELSE "idle"
  /\ crew' = {} /\ batch' = {}
  /\ UNCHANGED <<now, location, pass, todo, jobs, breaker, disk, nextStart,
                 worker, progress>>

\* Time passes; past MaxTime only as far as a sleeping worker needs it.
Tick ==
  /\ \/ now < MaxTime
     \/ \E w \in Workers : wpc[w] = "sleep" /\ slot[w] > now
  /\ now' = now + 1
  /\ UNCHANGED <<orchestr, jobs, crew, cache, breaker, disk, nextStart, worker,
                 progress>>

\* The last location is done.
Done ==
  /\ phase = "idle" /\ location = MaxLocations
  /\ UNCHANGED vars

Orchestrate ==
  \/ \E u \in Urls : Examine(u)
  \/ Launch \/ JobsDone \/ Merge \/ EndLocation

Next ==
  \/ \E urls \in SUBSET Urls : BeginDetails(urls) \/ BeginRecency(urls)
  \/ Orchestrate
  \/ \E w \in Workers : Step(w)
  \/ Tick
  \/ Done

Spec == Init /\ [][Next]_vars

\* Goroutines are scheduled, a request ends by its timeout, time passes.
Fairness ==
  /\ WF_vars(Orchestrate)
  /\ \A w \in Workers : WF_vars(Step(w))
  /\ WF_vars(Tick)

FairSpec == Spec /\ Fairness
-------------------------------------------------------------------------------
(* Properties.                                                             *)

Results == [kind : {"none", "page", "retryable", "drift", "fail", "paused"},
            retryAfter : Nat]
Steps   == {"idle", "check", "pace", "sleep", "recheck", "start", "inflight",
            "save", "store", "trip", "announce", "record"}

\* The state's types; a worker holds a URL exactly while it is not idle.
TypeOK ==
  /\ now \in Nat \ {0} /\ location \in 0..MaxLocations
  /\ pass \in {"details", "recency"}
  /\ phase \in {"idle", "prepare", "run", "merge", "between"}
  /\ batch \subseteq Urls /\ todo \subseteq Urls /\ jobs \subseteq Urls
  /\ crew \subseteq Workers
  /\ cache \in [Urls -> Results] /\ blocked \in Results
  /\ disk \in [Urls -> [kind : {"none", "page", "retryable", "drift"},
                        retryAfter : Nat, storedAt : Nat]]
  /\ nextStart \in Nat
  /\ wpc \in [Workers -> Steps] /\ wurl \in [Workers -> Urls \cup {NoUrl}]
  /\ slot \in [Workers -> Nat] /\ wres \in [Workers -> Results]
  /\ total \in Nat /\ fetched \in Nat /\ skipped \in Nat
  /\ pauseReported \in BOOLEAN
  /\ late \in [Workers -> Nat] /\ cleared \subseteq Workers
  /\ longest \in Nat
  /\ \A w \in Workers : wpc[w] = "idle" <=> wurl[w] = NoUrl

Asking(w) == wpc[w] \in {"start", "inflight"}

\* A request is made for a URL by one worker only, and only while neither
\* cache has an answer for it: workers, passes and locations that share a
\* URL share its answer.
NoRepeatedRequest ==
  \A w \in Workers : Asking(w) =>
    /\ cache[wurl[w]].kind = "none"
    /\ ~OnDisk(wurl[w])
    /\ \A v \in Workers \ {w} : wurl[v] # wurl[w]

\* When the workers have been waited for, every URL of the pass has a
\* result to merge and the progress counters add up.
EveryUrlAccountedFor ==
  phase = "merge" =>
    /\ fetched + skipped = total
    /\ \A u \in batch : cache[u].kind # "none"

\* A pass that skipped a request has told the user about the pause, though
\* the pause is announced after the breaker's lock is released.
SkipsAreReported == phase = "merge" /\ skipped > 0 => pauseReported

\* While the circuit is open, a worker starts at most the one request it
\* had been cleared for when the circuit opened; one that was waiting for
\* its turn then, or that opened the circuit, starts none.
BreakerHolds ==
  blocked.kind # "none" =>
    \A w \in Workers : late[w] <= IF w \in cleared THEN 1 ELSE 0

\* As long as any retryable response of this location asks to stay away,
\* the circuit is open: a shorter cooldown arriving later, or a look at the
\* clock, never closes it early.
PauseCoversCooldowns ==
  longest > now => Paused /\ blocked.retryAfter >= longest

\* Requests in progress hold slots at least Delay apart, and none leaves
\* before its slot.
SlotsSpaced ==
  \A w \in Workers :
    /\ Asking(w) => slot[w] <= now
    /\ \A v \in Workers \ {w} :
         slot[w] # 0 /\ slot[v] # 0 /\ slot[w] <= slot[v]
           => slot[v] >= slot[w] + Delay

\* A page once fetched is never lost to a later skip or failure.
PagesAreKept ==
  [][\A u \in Urls : cache[u].kind = "page" => cache'[u] = cache[u]]_vars

(* The inductive invariant.                                                *)

Busy(w)     == wpc[w] # "idle"
Holds(w)    == wpc[w] \in {"check", "pace", "sleep", "recheck", "start",
                           "inflight", "save", "store"}
HasTurn(w)  == wpc[w] \in {"recheck", "start", "inflight"}
Skipping(w) == wres[w].kind = "paused"

\* A URL of the pass is in one place at a time, and the orchestrator's
\* phase says which places are empty.
OnePlace ==
  /\ todo \subseteq batch /\ jobs \subseteq batch /\ todo \cap jobs = {}
  /\ phase # "prepare" => todo = {}
  /\ phase \notin {"prepare", "run"} => jobs = {}
  /\ phase # "run" => \A w \in Workers : ~Busy(w)
  /\ \A w \in Workers : ~Busy(w) => wres[w].kind = "none"
  /\ \A w \in Workers : Busy(w) =>
       /\ wurl[w] \in batch /\ wurl[w] \notin jobs
       /\ \A v \in Workers \ {w} : wurl[v] # wurl[w]

\* What is still to be asked is answered by neither cache.
Unanswered ==
  /\ \A u \in jobs : cache[u].kind = "none" /\ ~OnDisk(u)
  /\ \A w \in Workers : Holds(w) => cache[wurl[w]].kind = "none"
  /\ \A w \in Workers :
       Holds(w) /\ wpc[w] # "store" => ~OnDisk(wurl[w])

\* A worker about to start under an open circuit was cleared before, and
\* has not started since.
ClearedBefore ==
  \A w \in Workers :
    /\ blocked.kind = "none" => late[w] = 0
    /\ blocked.kind # "none" /\ wpc[w] = "start" => w \in cleared /\ late[w] = 0

\* Every reserved slot has been paid for in nextStart, and is waited for.
SlotsReserved ==
  \A w \in Workers :
    /\ slot[w] # 0 => slot[w] + Delay <= nextStart
    /\ HasTurn(w) => slot[w] <= now
    /\ wpc[w] \in {"idle", "check", "pace"} => slot[w] = 0

\* A details pass opens with the circuit closed, so whoever skips in it
\* does so after a worker of this pass opened it; a recency pass reports
\* before it skips.
SkipsFollowReports ==
  /\ phase = "prepare" =>
       skipped = 0 /\ (pass = "details" => blocked.kind = "none")
  /\ phase # "run" => \A w \in Workers : wpc[w] # "announce"
  /\ phase \in {"run", "merge"}
     /\ \/ pass = "details" /\ blocked.kind # "none"
        \/ skipped > 0
        \/ \E w \in Workers : Skipping(w)
     => pauseReported \/ \E w \in Workers : wpc[w] = "announce"

\* A URL of the pass is waiting, or in hand, or has its result.
Accounted ==
  /\ phase \notin {"idle", "between"} =>
       \A u \in batch : \/ u \in todo \cup jobs
                        \/ \E w \in Workers : Holds(w) /\ wurl[w] = u
                        \/ cache[u].kind # "none"
  /\ \A w \in Workers : wpc[w] \in {"save", "store"} => wres[w].kind # "none"

\* Requests done, under way and still to be made add up to the total.
AtWork  == {w \in Workers : Busy(w)}
Counted ==
  /\ phase = "prepare" => fetched = 0 /\ skipped = 0
  /\ phase = "run" =>
       fetched + skipped + Cardinality(jobs) + Cardinality(AtWork) = total
  /\ phase = "merge" => fetched + skipped = total

IInv ==
  /\ TypeOK
  /\ OnePlace
  /\ Unanswered
  /\ Accounted /\ Counted
  /\ ClearedBefore /\ BreakerHolds
  /\ PauseCoversCooldowns
  /\ SlotsReserved /\ SlotsSpaced
  /\ SkipsFollowReports

\* The pass seen from outside: where each URL stands.
StandingOf(u) ==
  LET holders == {w \in Workers : wurl[w] = u}
      At(steps) == \E w \in holders : wpc[w] \in steps
      skipping == \E w \in holders : wres[w].kind = "paused"
  IN IF u \notin batch THEN "outside"
     ELSE IF u \in todo \cup jobs \/ At({"check", "pace", "sleep", "recheck",
                                         "start"})
     THEN "pending"
     ELSE IF At({"inflight", "save", "store"})
     THEN IF skipping THEN "pending" ELSE "asked"
     ELSE "resolved"

Abstract == INSTANCE DetailPass
  WITH open <- phase \notin {"idle", "between"},
       status <- [u \in Urls |-> StandingOf(u)],
       MaxAsked <- Cardinality(Workers)

\* Each pass resolves each URL exactly once, asks at most once, and ends.
ImplementsPass == Abstract!Spec

\* "Later locations start with a fresh detail circuit": a URL that the
\* circuit of an earlier location skipped is requested by the next location
\* that lists it.
LaterLocationAsks ==
  [][\A u \in todo \ todo' :
       pass = "details" /\ cache[u].kind = "paused" => u \in jobs']_vars
===============================================================================
