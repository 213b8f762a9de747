---------------------------- MODULE EnricherProofs ----------------------------
(***************************************************************************)
(* Proofs about DetailEnricher, for every pool of workers, every set of    *)
(* URLs, every delay, cooldown and lifetime, and without the time bound.   *)
(***************************************************************************)
EXTENDS DetailEnricher, FiniteSetTheorems, TLAPS

USE EnricherAssumption DEF EnricherAssumption

\* The state keeps its types: the bookkeeping of workers and URLs never
\* leaves a worker idle with a URL in hand, or at work without one.
LEMMA TypeInit == Init => TypeOK
<1> SUFFICES ASSUME Init PROVE TypeOK
  OBVIOUS
<1> USE DEF Init, Absent, Result, NoRecord, Results, Steps
<1>1. now \in Nat \ {0} /\ location \in 0..MaxLocations
  OBVIOUS
<1>2. cache \in [Urls -> Results] /\ blocked \in Results
  OBVIOUS
<1>3. disk \in [Urls -> [kind : {"none", "page", "retryable", "drift"},
                         retryAfter : Nat, storedAt : Nat]]
  OBVIOUS
<1>4. wpc \in [Workers -> Steps] /\ wurl \in [Workers -> Urls \cup {NoUrl}]
  OBVIOUS
<1>5. slot \in [Workers -> Nat] /\ wres \in [Workers -> Results]
  OBVIOUS
<1>6. late \in [Workers -> Nat] /\ cleared \subseteq Workers
  OBVIOUS
<1>7. \A w \in Workers : wpc[w] = "idle" <=> wurl[w] = NoUrl
  OBVIOUS
<1> QED
  BY <1>1, <1>2, <1>3, <1>4, <1>5, <1>6, <1>7 DEF TypeOK

LEMMA TypeStep == TypeOK /\ [Next]_vars => TypeOK'
<1> SUFFICES ASSUME TypeOK, [Next]_vars PROVE TypeOK'
  OBVIOUS
<1> USE DEF TypeOK, Results, Absent, Result, Steps, Goto
<1>1. ASSUME NEW urls \in SUBSET Urls, BeginDetails(urls) PROVE TypeOK'
  <2> USE <1>1 DEF BeginDetails, OpenPass, worker
  <2>1. location' \in 0..MaxLocations /\ blocked' \in Results
    OBVIOUS
  <2>2. late' \in [Workers -> Nat] /\ cleared' \subseteq Workers
    OBVIOUS
  <2>3. \A w \in Workers : wpc'[w] = "idle" <=> wurl'[w] = NoUrl
    OBVIOUS
  <2> QED
    BY <2>1, <2>2, <2>3
<1>2. ASSUME NEW urls \in SUBSET Urls, BeginRecency(urls) PROVE TypeOK'
  BY <1>2 DEF BeginRecency, OpenPass, worker, breaker
<1>3. ASSUME NEW u \in Urls, Examine(u) PROVE TypeOK'
  BY <1>3 DEF Examine, OnDisk, Unexpired, worker, breaker, progress
<1>4. CASE Launch
  <2>1. Cardinality(jobs) \in Nat
    BY FS_Subset, FS_CardinalityType
  <2> QED
    BY <1>4, <2>1 DEF Launch, worker, breaker
<1>5. CASE JobsDone \/ Merge \/ EndLocation
  BY <1>5 DEF JobsDone, Merge, EndLocation, Unexpired, worker, breaker,
              progress
<1>6. CASE Tick
  BY <1>6 DEF Tick, orchestr, worker, breaker, progress
<1>7. ASSUME NEW w \in Workers, Step(w) PROVE TypeOK'
  <2>1. ASSUME NEW u \in Urls, Take(w, u) PROVE TypeOK'
    BY <2>1 DEF Take, orchestr, breaker, progress
  <2>2. CASE CheckPause(w)
    <3> USE <2>2 DEF CheckPause
    <3>1. blocked' \in Results /\ late' \in [Workers -> Nat]
          /\ cleared' \subseteq Workers /\ longest' \in Nat
      BY DEF LookAtPause, AfterLook
    <3>2. wres' \in [Workers -> Results]
      <4>1. PausedResult \in Results
        BY DEF PausedResult
      <4>2. wres' = wres \/ wres' = [wres EXCEPT ![w] = PausedResult]
        BY Zenon
      <4> QED
        BY <4>1, <4>2
    <3>3. pauseReported' \in BOOLEAN
      BY Zenon
    <3>4. wpc' \in [Workers -> Steps]
      OBVIOUS
    <3>5. wpc[w] # "idle" /\ wpc'[w] # "idle" /\ wurl' = wurl
          /\ \A v \in Workers \ {w} : wpc'[v] = wpc[v]
      OBVIOUS
    <3>6. \A v \in Workers : wpc'[v] = "idle" <=> wurl'[v] = NoUrl
      BY ONLY <3>5, TypeOK DEF TypeOK
    <3> QED
      BY <3>1, <3>2, <3>3, <3>4, <3>6 DEF orchestr
  <2>3. CASE ReserveTurn(w)
    <3> USE <2>3 DEF ReserveTurn, AfterTurn
    <3>1. slot' \in [Workers -> Nat] /\ nextStart' \in Nat
      BY DEF NextSlot
    <3>2. wpc' \in [Workers -> Steps]
          /\ \A v \in Workers : wpc'[v] = "idle" <=> wurl'[v] = NoUrl
      OBVIOUS
    <3> QED
      BY <3>1, <3>2 DEF orchestr, breaker, progress
  <2>4. CASE Wake(w)
    <3> USE <2>4 DEF Wake, AfterTurn
    <3>1. wpc' \in [Workers -> Steps]
          /\ \A v \in Workers : wpc'[v] = "idle" <=> wurl'[v] = NoUrl
      OBVIOUS
    <3> QED
      BY <3>1 DEF orchestr, breaker, progress
  <2>5. CASE StartFetch(w)
    BY <2>5 DEF StartFetch, orchestr, progress
  <2>6. CASE FetchReturns(w)
    BY <2>6 DEF FetchReturns, Responses, orchestr, breaker, progress
  <2>7. CASE SavePersistent(w)
    <3> USE <2>7 DEF SavePersistent
    <3>1. wurl[w] \in Urls
      OBVIOUS
    <3>2. disk' \in [Urls -> [kind : {"none", "page", "retryable", "drift"},
                              retryAfter : Nat, storedAt : Nat]]
      BY <3>1
    <3>3. wpc' \in [Workers -> Steps]
          /\ \A v \in Workers : wpc'[v] = "idle" <=> wurl'[v] = NoUrl
      OBVIOUS
    <3> QED
      BY <3>2, <3>3 DEF orchestr, breaker, progress
  <2>8. CASE Store(w)
    BY <2>8 DEF Store, orchestr, breaker, progress
  <2>9. CASE Trip(w)
    BY <2>9 DEF Trip, AfterTrip, orchestr, progress
  <2>10. CASE Announce(w)
    BY <2>10 DEF Announce, orchestr, breaker
  <2>11. CASE Record(w)
    BY <2>11 DEF Record, Release, orchestr, breaker
  <2> QED
    BY <1>7, <2>1, <2>2, <2>3, <2>4, <2>5, <2>6, <2>7, <2>8, <2>9, <2>10,
       <2>11 DEF Step
<1>8. CASE Done \/ UNCHANGED vars
  BY <1>8 DEF Done, vars, orchestr, worker, breaker, progress
<1> QED
  BY <1>1, <1>2, <1>3, <1>4, <1>5, <1>6, <1>7, <1>8 DEF Next, Orchestrate

THEOREM TypeCorrect == Spec => []TypeOK
  BY TypeInit, TypeStep, PTL DEF Spec
-------------------------------------------------------------------------------
\* The handoff of URLs: looked up, queued, held by one worker, then done.
LEMMA OnePlaceStep ==
  ASSUME TypeOK, OnePlace, [Next]_vars PROVE OnePlace'
<1> USE DEF OnePlace, Busy, TypeOK, Goto
<1>1. ASSUME NEW urls \in SUBSET Urls,
             BeginDetails(urls) \/ BeginRecency(urls)
      PROVE OnePlace'
  BY <1>1 DEF BeginDetails, BeginRecency, OpenPass, worker
<1>2. ASSUME NEW u \in Urls, Examine(u) PROVE OnePlace'
  BY <1>2 DEF Examine, worker
<1>3. CASE Launch \/ JobsDone \/ Merge \/ EndLocation
  BY <1>3 DEF Launch, JobsDone, Merge, EndLocation, AllWorkersDone, worker
<1>4. CASE Tick \/ Done \/ UNCHANGED vars
  BY <1>4 DEF Tick, Done, vars, orchestr, worker
<1>5. ASSUME NEW w \in Workers, Step(w) PROVE OnePlace'
  <2>1. ASSUME NEW u \in Urls, Take(w, u) PROVE OnePlace'
    BY <2>1 DEF Take, orchestr
  <2>2. CASE Record(w)
    BY <2>2 DEF Record, Release, orchestr, Result, Absent
  <2>3. CASE ~(\E u \in Urls : Take(w, u)) /\ ~Record(w)
    <3>1. phase = "run" /\ Busy(w) /\ wpc' \in [Workers -> Steps]
          /\ UNCHANGED <<orchestr, jobs, wurl>>
      BY <1>5, <2>3, TypeStep
         DEF Step, CheckPause, ReserveTurn, Wake, StartFetch, FetchReturns,
             SavePersistent, Store, Trip, Announce
    <3>2. \A v \in Workers : Busy(v)' = Busy(v)
      BY <1>5, <2>3
         DEF Step, CheckPause, ReserveTurn, Wake, StartFetch, FetchReturns,
             SavePersistent, Store, Trip, Announce, AfterTurn, AfterTrip
    <3>3. \A v \in Workers : ~Busy(v) => wres'[v] = wres[v]
      BY <1>5, <2>3
         DEF Step, CheckPause, ReserveTurn, Wake, StartFetch, FetchReturns,
             SavePersistent, Store, Trip, Announce
    <3> QED
      BY <3>1, <3>2, <3>3 DEF orchestr
  <2> QED
    BY <1>5, <2>1, <2>2, <2>3 DEF Step
<1> QED
  BY <1>1, <1>2, <1>3, <1>4, <1>5 DEF Next, Orchestrate

\* A URL in hand stays unanswered until its own worker stores: nobody else
\* writes its entries, and the passing of time never revives a disk record.
LEMMA UnansweredStep ==
  ASSUME TypeOK, OnePlace, Unanswered, [Next]_vars PROVE Unanswered'
<1> USE DEF Unanswered, OnePlace, Busy, Holds, TypeOK, Goto, OnDisk
<1>1. ASSUME NEW urls \in SUBSET Urls,
             BeginDetails(urls) \/ BeginRecency(urls)
      PROVE Unanswered'
  BY <1>1 DEF BeginDetails, BeginRecency, OpenPass, worker
<1>2. ASSUME NEW u \in Urls, Examine(u) PROVE Unanswered'
  <2>1. CASE Known(u)
    BY <1>2, <2>1 DEF Examine, worker
  <2>2. CASE ~Known(u) /\ OnDisk(u)
    BY <1>2, <2>2 DEF Examine, worker
  <2>3. CASE ~Known(u) /\ ~OnDisk(u)
    <3>1. Unexpired(u).kind = "none"
      BY <2>3 DEF Known, Unexpired, Absent, Result
    <3> QED
      BY <1>2, <2>3, <3>1 DEF Examine, worker
  <2> QED
    BY <2>1, <2>2, <2>3
<1>3. CASE Launch \/ JobsDone \/ EndLocation
  BY <1>3 DEF Launch, JobsDone, EndLocation, worker
<1>4. CASE Merge
  BY <1>4 DEF Merge, worker
<1>5. CASE Tick
  BY <1>5 DEF Tick, orchestr, worker
<1>6. CASE Done \/ UNCHANGED vars
  BY <1>6 DEF Done, vars, orchestr, worker
<1>7. ASSUME NEW w \in Workers, Step(w) PROVE Unanswered'
  <2>1. ASSUME NEW u \in Urls, Take(w, u) PROVE Unanswered'
    BY <2>1 DEF Take, orchestr
  <2>2. CASE SavePersistent(w)
    BY <2>2 DEF SavePersistent, orchestr
  <2>3. CASE Store(w)
    BY <2>3 DEF Store, orchestr
  <2>4. CASE Record(w)
    BY <2>4 DEF Record, Release, orchestr
  <2>5. CASE CheckPause(w) \/ ReserveTurn(w) \/ Wake(w) \/ StartFetch(w)
             \/ FetchReturns(w)
    <3>1. UNCHANGED <<jobs, wurl, cache, disk, now>>
      BY <2>5 DEF CheckPause, ReserveTurn, Wake, StartFetch, FetchReturns
    <3>2. \A v \in Workers \ {w} : wpc'[v] = wpc[v]
      BY <2>5 DEF CheckPause, ReserveTurn, Wake, StartFetch, FetchReturns
    <3>3. Holds(w) /\ wpc[w] # "store"
      BY <2>5 DEF CheckPause, ReserveTurn, Wake, StartFetch, FetchReturns
    <3> QED
      BY <3>1, <3>2, <3>3
  <2>6. CASE Trip(w) \/ Announce(w)
    BY <2>6 DEF Trip, Announce, AfterTrip, orchestr
  <2> QED
    BY <1>7, <2>1, <2>2, <2>3, <2>4, <2>5, <2>6 DEF Step
<1> QED
  BY <1>1, <1>2, <1>3, <1>4, <1>5, <1>6, <1>7 DEF Next, Orchestrate

\* Once the circuit is open nobody is cleared to start, so each start under
\* it uses up a clearance given before.
LEMMA BreakerStep ==
  ASSUME TypeOK, ClearedBefore, BreakerHolds, [Next]_vars
  PROVE  (ClearedBefore /\ BreakerHolds)'
<1> USE DEF ClearedBefore, BreakerHolds, TypeOK, Goto
<1>1. ASSUME NEW urls \in SUBSET Urls, BeginDetails(urls)
      PROVE (ClearedBefore /\ BreakerHolds)'
  BY <1>1 DEF BeginDetails, Absent, Result
<1>2. ASSUME NEW w \in Workers, CheckPause(w)
      PROVE (ClearedBefore /\ BreakerHolds)'
  BY <1>2 DEF CheckPause, LookAtPause, AfterLook, Paused, Absent, Result
<1>3. ASSUME NEW w \in Workers, StartFetch(w)
      PROVE (ClearedBefore /\ BreakerHolds)'
  BY <1>3 DEF StartFetch
<1>4. ASSUME NEW w \in Workers, Trip(w)
      PROVE (ClearedBefore /\ BreakerHolds)'
  <2>0. ASSUME NEW v \in Workers
        PROVE (wpc'[v] = "start" <=> wpc[v] = "start") /\ late'[v] = late[v]
    BY <1>4 DEF Trip, AfterTrip
  <2>1. CASE Trips(wres[w]) /\ blocked.kind = "none"
    BY <1>4, <2>0, <2>1 DEF Trip, Trips
  <2>2. CASE Trips(wres[w]) /\ blocked.kind # "none"
    BY <1>4, <2>0, <2>2 DEF Trip, Trips
  <2>3. CASE ~Trips(wres[w])
    BY <1>4, <2>0, <2>3 DEF Trip
  <2> QED
    BY <2>1, <2>2, <2>3
<1>5. ASSUME UNCHANGED breaker,
             \A v \in Workers : wpc'[v] = "start" => wpc[v] = "start"
      PROVE (ClearedBefore /\ BreakerHolds)'
  BY <1>5 DEF breaker
<1>6. ASSUME NEW w \in Workers,
             (\E u \in Urls : Take(w, u)) \/ ReserveTurn(w) \/ Wake(w)
             \/ FetchReturns(w) \/ SavePersistent(w) \/ Store(w)
             \/ Announce(w) \/ Record(w)
      PROVE (ClearedBefore /\ BreakerHolds)'
  BY <1>5, <1>6 DEF Take, ReserveTurn, Wake, FetchReturns, SavePersistent,
                    Store, Announce, Record, AfterTurn
<1>7. CASE UNCHANGED <<breaker, wpc>>
  BY <1>5, <1>7
<1>8. ASSUME \/ \E urls \in SUBSET Urls : BeginRecency(urls)
             \/ \E u \in Urls : Examine(u)
             \/ Launch \/ JobsDone \/ Merge \/ EndLocation
             \/ Tick \/ Done \/ UNCHANGED vars
      PROVE UNCHANGED <<breaker, wpc>>
  BY <1>8 DEF BeginRecency, Examine, Launch, JobsDone, Merge, EndLocation,
              Tick, Done, vars, worker
<1> QED
  BY <1>1, <1>2, <1>3, <1>4, <1>6, <1>7, <1>8 DEF Next, Orchestrate, Step

\* A later answer can only lengthen the pause; a look clears it once it is
\* over, and then no cooldown of the location is still running.
LEMMA CooldownStep ==
  ASSUME TypeOK, PauseCoversCooldowns, [Next]_vars
  PROVE  PauseCoversCooldowns'
<1> USE DEF PauseCoversCooldowns, Paused, TypeOK, Results
<1>1. ASSUME NEW urls \in SUBSET Urls, BeginDetails(urls)
      PROVE PauseCoversCooldowns'
  BY <1>1 DEF BeginDetails
<1>2. ASSUME NEW w \in Workers, CheckPause(w)
      PROVE PauseCoversCooldowns'
  BY <1>2 DEF CheckPause, LookAtPause, AfterLook, Absent, Result
<1>3. ASSUME NEW w \in Workers, Trip(w)
      PROVE PauseCoversCooldowns'
  <2>1. wres[w] \in Results
    OBVIOUS
  <2>2. longest' \in Nat /\ now' = now
    BY <1>3, <2>1 DEF Trip
  <2> QED
    BY <1>3, <2>1, <2>2 DEF Trip, Trips
<1>4. CASE Tick
  BY <1>4 DEF Tick, breaker
<1>5. ASSUME UNCHANGED <<now, blocked, longest>>
      PROVE PauseCoversCooldowns'
  BY <1>5
<1>6. ASSUME NEW w \in Workers,
             (\E u \in Urls : Take(w, u)) \/ ReserveTurn(w) \/ Wake(w)
             \/ StartFetch(w) \/ FetchReturns(w) \/ SavePersistent(w)
             \/ Store(w) \/ Announce(w) \/ Record(w)
      PROVE UNCHANGED <<now, blocked, longest>>
  BY <1>6 DEF Take, ReserveTurn, Wake, StartFetch, FetchReturns,
              SavePersistent, Store, Announce, Record, breaker
<1>7. ASSUME \/ \E urls \in SUBSET Urls : BeginRecency(urls)
             \/ \E u \in Urls : Examine(u)
             \/ Launch \/ JobsDone \/ Merge \/ EndLocation
             \/ Done \/ UNCHANGED vars
      PROVE UNCHANGED <<now, blocked, longest>>
  BY <1>7 DEF BeginRecency, Examine, Launch, JobsDone, Merge, EndLocation,
              Done, vars, breaker
<1> QED
  BY <1>1, <1>2, <1>3, <1>4, <1>5, <1>6, <1>7 DEF Next, Orchestrate, Step

\* Slots are handed out Delay apart, and never in the past.
LEMMA SlotStep ==
  ASSUME TypeOK, OnePlace, SlotsReserved, SlotsSpaced, [Next]_vars
  PROVE  (SlotsReserved /\ SlotsSpaced)'
<1> USE DEF SlotsReserved, SlotsSpaced, HasTurn, Asking, TypeOK, Goto
<1>1. ASSUME NEW w \in Workers, ReserveTurn(w)
      PROVE (SlotsReserved /\ SlotsSpaced)'
  <2>1. CASE Delay = 0
    BY <1>1, <2>1 DEF ReserveTurn, AfterTurn
  <2>2. CASE Delay # 0
    <3>1. NextSlot \in Nat /\ NextSlot >= now /\ NextSlot >= nextStart
      BY DEF NextSlot
    <3>2. /\ slot' = [slot EXCEPT ![w] = NextSlot]
          /\ nextStart' = NextSlot + Delay /\ now' = now
          /\ wpc' = [wpc EXCEPT ![w] = "sleep"]
      BY <1>1, <2>2 DEF ReserveTurn
    <3> QED
      BY <3>1, <3>2, <2>2
  <2> QED
    BY <2>1, <2>2
<1>2. ASSUME NEW w \in Workers, Wake(w)
      PROVE (SlotsReserved /\ SlotsSpaced)'
  BY <1>2 DEF Wake, AfterTurn
<1>3. ASSUME NEW w \in Workers, Record(w)
      PROVE (SlotsReserved /\ SlotsSpaced)'
  BY <1>3 DEF Record, Release
<1>4. CASE Tick
  BY <1>4 DEF Tick, worker
<1>5. ASSUME UNCHANGED <<now, nextStart, slot>>,
             \A v \in Workers : HasTurn(v)' => HasTurn(v),
             \A v \in Workers : wpc'[v] \in {"idle", "check", "pace"} =>
                                  wpc[v] \in {"idle", "check", "pace"}
      PROVE (SlotsReserved /\ SlotsSpaced)'
  BY <1>5
<1>6. ASSUME NEW w \in Workers,
             (\E u \in Urls : Take(w, u)) \/ CheckPause(w) \/ StartFetch(w)
             \/ FetchReturns(w) \/ SavePersistent(w) \/ Store(w)
             \/ Trip(w) \/ Announce(w)
      PROVE (SlotsReserved /\ SlotsSpaced)'
  <2>1. UNCHANGED <<now, nextStart, slot>>
    BY <1>6 DEF Take, CheckPause, StartFetch, FetchReturns, SavePersistent,
                Store, Trip, Announce
  <2>2. \A v \in Workers : HasTurn(v)' => HasTurn(v)
    BY <1>6 DEF Take, CheckPause, StartFetch, FetchReturns, SavePersistent,
                Store, Trip, AfterTrip, Announce
  <2>3. \A v \in Workers : wpc'[v] \in {"idle", "check", "pace"} =>
                             wpc[v] \in {"idle", "check", "pace"}
    BY <1>6 DEF Take, CheckPause, StartFetch, FetchReturns, SavePersistent,
                Store, Trip, AfterTrip, Announce
  <2> QED
    BY <1>5, <2>1, <2>2, <2>3
<1>7. ASSUME \/ \E urls \in SUBSET Urls : BeginDetails(urls)
             \/ \E urls \in SUBSET Urls : BeginRecency(urls)
             \/ \E u \in Urls : Examine(u)
             \/ Launch \/ JobsDone \/ Merge \/ EndLocation
             \/ Done \/ UNCHANGED vars
      PROVE UNCHANGED <<now, nextStart, worker>>
  BY <1>7 DEF BeginDetails, BeginRecency, Examine, Launch, JobsDone, Merge,
              EndLocation, Done, vars, worker
<1> QED
  BY <1>1, <1>2, <1>3, <1>4, <1>5, <1>6, <1>7
     DEF Next, Orchestrate, Step, worker

\* In a details pass the circuit is opened by a worker that goes on to
\* announce it; in a recency pass the skip itself announces it.
LEMMA SkipStep ==
  ASSUME TypeOK, OnePlace, SkipsFollowReports, [Next]_vars
  PROVE  SkipsFollowReports'
<1> USE DEF SkipsFollowReports, OnePlace, Skipping, Busy, TypeOK, Goto
<1>1. ASSUME NEW urls \in SUBSET Urls,
             BeginDetails(urls) \/ BeginRecency(urls)
      PROVE SkipsFollowReports'
  BY <1>1 DEF BeginDetails, BeginRecency, OpenPass, worker, Absent, Result
<1>2. ASSUME NEW u \in Urls, Examine(u) PROVE SkipsFollowReports'
  BY <1>2 DEF Examine, worker, breaker, progress
<1>3. CASE Launch \/ JobsDone \/ Merge \/ EndLocation
  BY <1>3 DEF Launch, JobsDone, Merge, EndLocation, worker, breaker,
              progress, AllWorkersDone
<1>4. CASE Tick \/ Done \/ UNCHANGED vars
  BY <1>4 DEF Tick, Done, vars, orchestr, worker, breaker, progress
<1>5. ASSUME NEW w \in Workers, CheckPause(w) PROVE SkipsFollowReports'
  <2>1. CASE Paused
    BY <1>5, <2>1
       DEF CheckPause, LookAtPause, AfterLook, Paused, PausedResult, Result,
           orchestr
  <2>2. CASE ~Paused
    BY <1>5, <2>2
       DEF CheckPause, LookAtPause, AfterLook, Absent, Result, orchestr
  <2> QED
    BY <2>1, <2>2
<1>6. ASSUME NEW w \in Workers, Trip(w) PROVE SkipsFollowReports'
  <2>1. CASE Trips(wres[w])
    BY <1>6, <2>1 DEF Trip, AfterTrip, orchestr, progress
  <2>2. CASE ~Trips(wres[w])
    BY <1>6, <2>2 DEF Trip, AfterTrip, orchestr, progress
  <2> QED
    BY <2>1, <2>2
<1>7. ASSUME NEW w \in Workers, Announce(w) PROVE SkipsFollowReports'
  BY <1>7 DEF Announce, orchestr
<1>8. ASSUME NEW w \in Workers, Record(w) PROVE SkipsFollowReports'
  BY <1>8 DEF Record, Release, orchestr, breaker, Absent, Result
<1>9. ASSUME NEW w \in Workers, FetchReturns(w) PROVE SkipsFollowReports'
  BY <1>9 DEF FetchReturns, Responses, Result, orchestr, breaker, progress
<1>10. ASSUME NEW w \in Workers,
              (\E u \in Urls : Take(w, u)) \/ ReserveTurn(w) \/ Wake(w)
              \/ StartFetch(w) \/ SavePersistent(w) \/ Store(w)
       PROVE SkipsFollowReports'
  BY <1>10 DEF Take, ReserveTurn, Wake, StartFetch, SavePersistent, Store,
               AfterTurn, orchestr, breaker, progress
<1> QED
  BY <1>1, <1>2, <1>3, <1>4, <1>5, <1>6, <1>7, <1>8, <1>9, <1>10
     DEF Next, Orchestrate, Step

\* Each URL of a pass keeps a place until it has a result.
LEMMA AccountedStep ==
  ASSUME TypeOK, OnePlace, Accounted, [Next]_vars PROVE Accounted'
<1> USE DEF Accounted, OnePlace, Busy, Holds, TypeOK, Goto
<1>1. ASSUME NEW urls \in SUBSET Urls,
             BeginDetails(urls) \/ BeginRecency(urls)
      PROVE Accounted'
  BY <1>1 DEF BeginDetails, BeginRecency, OpenPass, worker
<1>2. ASSUME NEW u \in Urls, Examine(u) PROVE Accounted'
  <2>1. CASE Known(u)
    BY <1>2, <2>1 DEF Examine, Known, worker
  <2>2. CASE ~Known(u) /\ OnDisk(u)
    BY <1>2, <2>2 DEF Examine, OnDisk, Result, worker
  <2>3. CASE ~Known(u) /\ ~OnDisk(u)
    BY <1>2, <2>3 DEF Examine, worker
  <2> QED
    BY <2>1, <2>2, <2>3
<1>3. CASE Launch \/ JobsDone \/ EndLocation
  BY <1>3 DEF Launch, JobsDone, EndLocation, worker
<1>4. CASE Merge
  BY <1>4 DEF Merge, worker
<1>5. CASE Tick \/ Done \/ UNCHANGED vars
  BY <1>5 DEF Tick, Done, vars, orchestr, worker
<1>6. ASSUME NEW w \in Workers, Step(w) PROVE Accounted'
  <2>1. ASSUME NEW u \in Urls, Take(w, u) PROVE Accounted'
    BY <2>1 DEF Take, orchestr
  <2>2. CASE Record(w)
    BY <2>2 DEF Record, Release, orchestr
  <2>3. CASE Store(w)
    <3>1. phase' = phase /\ batch' = batch /\ todo' = todo /\ jobs' = jobs
          /\ wurl' = wurl /\ wres' = wres /\ wurl[w] \in Urls
      BY <2>3 DEF Store, orchestr
    <3>2. cache' = [cache EXCEPT ![wurl[w]] = wres[w]]
          /\ wres[w].kind # "none"
      BY <2>3 DEF Store
    <3>3. ASSUME NEW v \in Workers, v # w PROVE wpc'[v] = wpc[v]
      BY <2>3, <3>3 DEF Store
    <3>4. wpc'[w] \notin {"save", "store"}
      BY <2>3 DEF Store
    <3>5. ASSUME NEW u \in batch
          PROVE \/ u \in todo \cup jobs
                \/ \E v \in Workers : Holds(v)' /\ wurl[v] = u
                \/ cache'[u].kind # "none"
                \/ phase \in {"idle", "between"}
      BY <3>1, <3>2, <3>3
    <3> QED
      BY <3>1, <3>3, <3>4, <3>5
  <2>4. CASE ~(\E u \in Urls : Take(w, u)) /\ ~Record(w) /\ ~Store(w)
    <3>1. UNCHANGED <<phase, batch, todo, jobs, wurl, cache>>
      BY <1>6, <2>4
         DEF Step, CheckPause, ReserveTurn, Wake, StartFetch, FetchReturns,
             SavePersistent, Trip, Announce, orchestr
    <3>2. \A v \in Workers : Holds(v) => Holds(v)'
      BY <1>6, <2>4
         DEF Step, CheckPause, ReserveTurn, Wake, StartFetch, FetchReturns,
             SavePersistent, Trip, Announce, AfterTurn
    <3>3. \A v \in Workers : wpc'[v] \in {"save", "store"} =>
                               wres'[v].kind # "none"
      BY <1>6, <2>4
         DEF Step, CheckPause, ReserveTurn, Wake, StartFetch, FetchReturns,
             SavePersistent, Trip, Announce, AfterTurn, AfterTrip,
             PausedResult, Responses, Result
    <3> QED
      BY <3>1, <3>2, <3>3
  <2> QED
    BY <1>6, <2>1, <2>2, <2>3, <2>4
<1> QED
  BY <1>1, <1>2, <1>3, <1>4, <1>5, <1>6 DEF Next, Orchestrate

\* A job moves from the queue to a worker to a counter, one at a time.
LEMMA CountedStep ==
  ASSUME TypeOK, OnePlace, Counted, [Next]_vars PROVE Counted'
<1>0. /\ IsFiniteSet(jobs) /\ IsFiniteSet(AtWork)
      /\ Cardinality(jobs) \in Nat /\ Cardinality(AtWork) \in Nat
      /\ total \in Nat /\ fetched \in Nat /\ skipped \in Nat
  BY FS_Subset, FS_CardinalityType DEF TypeOK, AtWork
<1>1. ASSUME NEW urls \in SUBSET Urls,
             BeginDetails(urls) \/ BeginRecency(urls)
      PROVE Counted'
  BY <1>1 DEF BeginDetails, BeginRecency, OpenPass, Counted
<1>2. CASE Launch
  <2>1. AtWork = {} /\ wpc' = wpc
    BY <1>2 DEF Launch, OnePlace, AtWork, worker
  <2>2. AtWork' = {}
    BY <2>1 DEF AtWork, Busy
  <2>3. total' = Cardinality(jobs) /\ fetched' = fetched /\ jobs' = jobs
        /\ skipped' = skipped /\ phase' = "run" /\ phase = "prepare"
    BY <1>2 DEF Launch
  <2>4. fetched = 0 /\ skipped = 0 /\ Cardinality({}) = 0
    BY <2>3, FS_EmptySet DEF Counted
  <2> QED
    BY <1>0, <2>2, <2>3, <2>4 DEF Counted
<1>3. CASE JobsDone
  <2>1. AtWork = {} /\ jobs = {} /\ Cardinality({}) = 0
    BY <1>3, FS_EmptySet DEF JobsDone, AllWorkersDone, AtWork, Busy
  <2>2. fetched + skipped + Cardinality(jobs) + Cardinality(AtWork) = total
        /\ phase' = "merge" /\ UNCHANGED progress
    BY <1>3 DEF JobsDone, Counted
  <2> QED
    BY <1>0, <2>1, <2>2 DEF Counted, progress
<1>4. CASE Merge \/ EndLocation
  BY <1>4 DEF Merge, EndLocation, Counted
<1>5. ASSUME phase' = phase, jobs' = jobs, AtWork' = AtWork,
             fetched' = fetched, skipped' = skipped, total' = total
      PROVE Counted'
  BY <1>5 DEF Counted
<1>6. ASSUME NEW u \in Urls, Examine(u) PROVE Counted'
  BY <1>6 DEF Examine, progress, Counted
<1>7. CASE Tick \/ Done \/ UNCHANGED vars
  BY <1>5, <1>7 DEF Tick, Done, vars, orchestr, worker, progress, AtWork, Busy
<1>8. ASSUME NEW w \in Workers, Step(w) PROVE Counted'
  <2>1. ASSUME NEW u \in Urls, Take(w, u) PROVE Counted'
    <3>1. /\ w \notin AtWork /\ AtWork' = AtWork \cup {w}
          /\ u \in jobs /\ jobs' = jobs \ {u}
      BY <2>1 DEF Take, Goto, AtWork, Busy, TypeOK
    <3>2. Cardinality(jobs') = Cardinality(jobs) - 1
      BY <1>0, <3>1, FS_RemoveElement
    <3>3. Cardinality(AtWork') = Cardinality(AtWork) + 1
      BY <1>0, <3>1, FS_AddElement
    <3>4. fetched + skipped + Cardinality(jobs) + Cardinality(AtWork) = total
          /\ phase' = "run" /\ UNCHANGED progress
      BY <2>1 DEF Take, Counted, orchestr
    <3> QED
      BY <1>0, <3>2, <3>3, <3>4 DEF Counted, progress
  <2>2. CASE Record(w)
    <3>1. w \in AtWork /\ AtWork' = AtWork \ {w}
      BY <2>2 DEF Record, Goto, AtWork, Busy, TypeOK
    <3>2. Cardinality(AtWork') = Cardinality(AtWork) - 1
      BY <1>0, <3>1, FS_RemoveElement
    <3>3. phase = "run" /\ phase' = "run" /\ jobs' = jobs /\ total' = total
      BY <2>2 DEF Record, orchestr, OnePlace, Busy
    <3>4. \/ skipped' = skipped + 1 /\ fetched' = fetched
          \/ fetched' = fetched + 1 /\ skipped' = skipped
      BY <2>2 DEF Record
    <3> QED
      BY <1>0, <3>2, <3>3, <3>4 DEF Counted
  <2>3. CASE ~(\E u \in Urls : Take(w, u)) /\ ~Record(w)
    <3>1. UNCHANGED <<phase, jobs, total, fetched, skipped>>
      BY <1>8, <2>3
         DEF Step, CheckPause, ReserveTurn, Wake, StartFetch, FetchReturns,
             SavePersistent, Store, Trip, Announce, orchestr, progress
    <3>2. \A v \in Workers : Busy(v)' = Busy(v)
      BY <1>8, <2>3
         DEF Step, CheckPause, ReserveTurn, Wake, StartFetch, FetchReturns,
             SavePersistent, Store, Trip, Announce, AfterTurn, AfterTrip,
             Busy, Goto, TypeOK
    <3>3. AtWork' = AtWork
      BY <3>2 DEF AtWork
    <3> QED
      BY <1>5, <3>1, <3>3
  <2> QED
    BY <2>1, <2>2, <2>3
<1> QED
  BY <1>1, <1>2, <1>3, <1>4, <1>6, <1>7, <1>8 DEF Next, Orchestrate
-------------------------------------------------------------------------------
LEMMA IInvInit == Init => IInv
<1> SUFFICES ASSUME Init PROVE IInv
  OBVIOUS
<1>1. TypeOK
  BY TypeInit
<1>2. OnePlace /\ Unanswered /\ Accounted /\ Counted
  BY DEF Init, OnePlace, Unanswered, Accounted, Counted, Busy, Holds, Absent,
         Result
<1>3. ClearedBefore /\ BreakerHolds /\ PauseCoversCooldowns
  BY DEF Init, ClearedBefore, BreakerHolds, PauseCoversCooldowns, Absent,
         Result
<1>4. SlotsReserved /\ SlotsSpaced /\ SkipsFollowReports
  BY DEF Init, SlotsReserved, SlotsSpaced, SkipsFollowReports, HasTurn,
         Asking, Absent, Result
<1> QED
  BY <1>1, <1>2, <1>3, <1>4 DEF IInv

LEMMA IInvStep == IInv /\ [Next]_vars => IInv'
  BY TypeStep, OnePlaceStep, UnansweredStep, AccountedStep, CountedStep,
     BreakerStep, CooldownStep, SlotStep, SkipStep DEF IInv

\* The enricher's bookkeeping is consistent in every reachable state.
THEOREM Inductive == Spec => []IInv
  BY IInvInit, IInvStep, PTL DEF Spec

\* No URL is requested by two workers, or while a cache answers it.
THEOREM NeverAskedTwice == Spec => []NoRepeatedRequest
<1>1. IInv => NoRepeatedRequest
  BY DEF IInv, OnePlace, Unanswered, NoRepeatedRequest, Busy, Holds, Asking
<1> QED
  BY <1>1, Inductive, PTL

\* When a pass ends, no URL of it was forgotten and the counters add up.
THEOREM NothingForgotten == Spec => []EveryUrlAccountedFor
<1>1. IInv => EveryUrlAccountedFor
  BY DEF IInv, TypeOK, OnePlace, Accounted, Counted, EveryUrlAccountedFor,
         Busy, Holds
<1> QED
  BY <1>1, Inductive, PTL

\* A pass that skipped requests has announced its pause.
THEOREM NoSilentSkip == Spec => []SkipsAreReported
<1>1. IInv => SkipsAreReported
  BY DEF IInv, SkipsFollowReports, SkipsAreReported
<1> QED
  BY <1>1, Inductive, PTL

\* An open circuit lets through only the requests cleared before it opened.
THEOREM CircuitHolds == Spec => []BreakerHolds
  BY Inductive, PTL DEF IInv

\* The circuit stays open for the longest cooldown of the location.
THEOREM CooldownsHonoured == Spec => []PauseCoversCooldowns
  BY Inductive, PTL DEF IInv

\* Requests in progress hold slots Delay apart and none leaves early.
THEOREM RequestsPaced == Spec => []SlotsSpaced
  BY Inductive, PTL DEF IInv

\* No step of any worker replaces or drops a fetched page.
THEOREM PagesSurvive == Spec => PagesAreKept
<1>1. ASSUME IInv, [Next]_vars
      PROVE \A u \in Urls : cache[u].kind = "page" => cache'[u] = cache[u]
  <2> SUFFICES ASSUME NEW u \in Urls, cache[u].kind = "page"
               PROVE  cache'[u] = cache[u]
    OBVIOUS
  <2> USE <1>1 DEF IInv, TypeOK
  <2>1. ~Expired(cache[u]) /\ Known(u)
    BY DEF Expired, IsError, Known
  <2>2. ASSUME NEW v \in Urls, Examine(v) PROVE cache'[u] = cache[u]
    BY <2>1, <2>2 DEF Examine
  <2>3. CASE Merge
    BY <2>1, <2>3 DEF Merge, Unexpired
  <2>4. ASSUME NEW w \in Workers, Store(w) PROVE cache'[u] = cache[u]
    BY <2>4 DEF Store, Unanswered, Holds
  <2>5. ASSUME NEW w \in Workers, Step(w), ~Store(w) PROVE cache' = cache
    BY <2>5 DEF Step, Take, CheckPause, ReserveTurn, Wake, StartFetch,
                FetchReturns, SavePersistent, Trip, Announce, Record
  <2>6. ASSUME \/ \E urls \in SUBSET Urls : BeginDetails(urls)
               \/ \E urls \in SUBSET Urls : BeginRecency(urls)
               \/ Launch \/ JobsDone \/ EndLocation
               \/ Tick \/ Done \/ UNCHANGED vars
        PROVE cache' = cache
    BY <2>6 DEF BeginDetails, BeginRecency, Launch, JobsDone, EndLocation,
                Tick, Done, vars
  <2> QED
    BY <2>2, <2>3, <2>4, <2>5, <2>6 DEF Next, Orchestrate
<1> QED
  BY <1>1, Inductive, PTL DEF Spec, PagesAreKept
-------------------------------------------------------------------------------
(* A details or recency pass is a pass of DetailPass.                      *)

\* Only a pause found before the request makes a worker skip: until it has
\* found one it has no result, and a request's own result is no skip.
SkipsAreEarly ==
  \A w \in Workers :
    /\ wpc[w] \in {"check", "pace", "sleep", "recheck", "start", "inflight"}
         => ~Skipping(w)
    /\ wpc[w] = "save" => ~Skipping(w)

LEMMA EarlyStep ==
  ASSUME TypeOK, OnePlace, SkipsAreEarly, [Next]_vars
  PROVE  SkipsAreEarly'
<1> USE DEF TypeOK, OnePlace, SkipsAreEarly, Skipping, Busy
<1>1. ASSUME UNCHANGED <<wpc, wres>> PROVE SkipsAreEarly'
  BY <1>1
<1>2. ASSUME NEW w \in Workers, Step(w) PROVE SkipsAreEarly'
  <2> USE DEF Goto
  <2>1. ASSUME NEW u \in Urls, Take(w, u) PROVE SkipsAreEarly'
    BY <2>1 DEF Take
  <2>2. CASE CheckPause(w)
    <3>1. \A v \in Workers \ {w} : wpc'[v] = wpc[v] /\ wres'[v] = wres[v]
      BY <2>2 DEF CheckPause
    <3>2. CASE Paused
      <4>1. wpc'[w] = "store"
        BY <2>2, <3>2 DEF CheckPause
      <4> QED
        BY <3>1, <4>1
    <3>3. CASE ~Paused
      <4>1. ~Skipping(w) /\ wres' = wres
        BY <2>2, <3>3 DEF CheckPause
      <4> QED
        BY <3>1, <4>1
    <3> QED
      BY <3>2, <3>3
  <2>3. CASE ReserveTurn(w) \/ Wake(w) \/ StartFetch(w)
    BY <2>3 DEF ReserveTurn, Wake, StartFetch, AfterTurn
  <2>4. CASE FetchReturns(w)
    BY <2>4 DEF FetchReturns, Responses, Result
  <2>5. CASE SavePersistent(w) \/ Store(w) \/ Trip(w) \/ Announce(w) \/ Record(w)
    BY <2>5 DEF SavePersistent, Store, Trip, AfterTrip, Announce, Record, Release, Absent, Result
  <2> QED
    BY <1>2, <2>1, <2>2, <2>3, <2>4, <2>5 DEF Step
<1>3. ASSUME \/ \E urls \in SUBSET Urls : BeginDetails(urls) \/ BeginRecency(urls)
             \/ Orchestrate \/ Tick \/ Done \/ UNCHANGED vars
      PROVE  UNCHANGED <<wpc, wres>>
  BY <1>3 DEF BeginDetails, BeginRecency, Orchestrate, Examine, Launch, JobsDone, Merge,
              EndLocation, Tick, Done, vars, worker
<1> QED
  BY <1>1, <1>2, <1>3 DEF Next

\* Where a URL stands that no worker holds.
LEMMA StandingFree ==
  \A u \in Urls : (\A w \in Workers : wurl[w] # u) =>
    StandingOf(u) = IF u \notin batch THEN "outside"
                    ELSE IF u \in todo \cup jobs THEN "pending" ELSE "resolved"
  BY DEF StandingOf

\* Where a URL stands while a worker that skips, or one that does not, is at
\* the given step with it.
StandingAt(step, skips) ==
  IF step \in {"check", "pace", "sleep", "recheck", "start"} THEN "pending"
  ELSE IF step \in {"inflight", "save", "store"}
  THEN IF skips THEN "pending" ELSE "asked"
  ELSE "resolved"

HeldByStep ==
  \A w \in Workers :
    Busy(w) => StandingOf(wurl[w]) = StandingAt(wpc[w], Skipping(w))

LEMMA StandingHeld == TypeOK /\ OnePlace => HeldByStep
<1> SUFFICES ASSUME TypeOK, OnePlace, NEW w \in Workers, Busy(w)
             PROVE  StandingOf(wurl[w]) = StandingAt(wpc[w], Skipping(w))
  BY DEF HeldByStep
<1> DEFINE u == wurl[w]
<1>1. {v \in Workers : wurl[v] = u} = {w}
  BY DEF OnePlace
<1>2. u \in batch /\ u \notin todo \cup jobs
  BY DEF OnePlace, Busy
<1> QED
  BY <1>1, <1>2 DEF StandingOf, StandingAt, Skipping

\* A worker's step moves no URL but the one it holds.
LEMMA StandingElsewhere ==
  ASSUME NEW w \in Workers, UNCHANGED <<batch, todo>>,
         \A v \in Workers \ {w} : /\ wpc'[v] = wpc[v] /\ wurl'[v] = wurl[v]
                                  /\ wres'[v] = wres[v],
         NEW u \in Urls, u # wurl[w], u # wurl'[w], u \in jobs' <=> u \in jobs
  PROVE  StandingOf(u)' = StandingOf(u)
<1>1. {v \in Workers : wurl'[v] = u} = {v \in Workers : wurl[v] = u}
  OBVIOUS
<1>2. \A v \in Workers : wurl[v] = u => v # w
  OBVIOUS
<1> DEFINE H == {v \in Workers : wurl[v] = u}
<1>3. \A v \in H : wpc'[v] = wpc[v] /\ wres'[v] = wres[v]
  BY <1>2
<1>4. H' = H
  BY <1>1
<1> QED
  BY <1>3, <1>4 DEF StandingOf

LEMMA StandingStays ==
  ASSUME UNCHANGED <<batch, todo, jobs, wpc, wurl, wres>>
  PROVE  \A u \in Urls : StandingOf(u)' = StandingOf(u)
  BY DEF StandingOf

\* After a step of a worker that holds a URL, only that URL can have moved.
LEMMA StandingMoved ==
  ASSUME TypeOK', OnePlace', NEW w \in Workers, Busy(w)', wurl' = wurl,
         UNCHANGED <<batch, todo, jobs>>,
         \A v \in Workers \ {w} : wpc'[v] = wpc[v] /\ wres'[v] = wres[v]
  PROVE  /\ StandingOf(wurl[w])' = StandingAt(wpc[w], Skipping(w))'
         /\ \A u \in Urls \ {wurl[w]} : StandingOf(u)' = StandingOf(u)
<1>1. StandingOf(wurl[w])' = StandingAt(wpc[w], Skipping(w))'
  <2>1. TypeOK' /\ OnePlace' => HeldByStep'
    BY StandingHeld, PTL
  <2> QED
    BY <2>1 DEF HeldByStep
<1>2. ASSUME NEW u \in Urls \ {wurl[w]} PROVE StandingOf(u)' = StandingOf(u)
  BY <1>2, StandingElsewhere
<1> QED
  BY <1>1, <1>2

\* No more URLs are asked for than there are workers to hold them.
LEMMA AskedAreHeld ==
  ASSUME TypeOK, NEW w \in Workers, ~(wpc[w] \in {"inflight", "save", "store"})
  PROVE  Cardinality({u \in Urls : StandingOf(u) = "asked"}) < Cardinality(Workers)
<1> DEFINE Rest == Workers \ {w}
           holding == [v \in Rest |-> wurl[v]]
           Held == {wurl[v] : v \in Rest}
           Asked == {u \in Urls : StandingOf(u) = "asked"}
<1>1. Asked \subseteq Held
  <2>1. ASSUME NEW u \in Urls, StandingOf(u) = "asked"
        PROVE  \E v \in Workers : wurl[v] = u /\ wpc[v] \in {"inflight", "save", "store"}
    BY <2>1 DEF StandingOf
  <2> QED
    BY <2>1
<1>2. IsFiniteSet(Rest) /\ Cardinality(Rest) = Cardinality(Workers) - 1
  BY FS_RemoveElement
<1>3. IsFiniteSet(Held) /\ Cardinality(Held) <= Cardinality(Rest)
  <2>1. holding \in Surjection(Rest, Held)
    BY DEF Surjection
  <2> QED
    BY <1>2, <2>1, FS_Surjection
<1>4. Cardinality(Asked) <= Cardinality(Held)
  BY <1>1, <1>3, FS_Subset
<1>5. Cardinality(Workers) \in Nat /\ Cardinality(Held) \in Nat /\ Cardinality(Asked) \in Nat
  BY <1>1, <1>3, FS_Subset, FS_CardinalityType
<1> QED
  BY <1>2, <1>3, <1>4, <1>5

Underway == phase \notin {"idle", "between"}

\* A step that moves no URL is no step of the pass.
LEMMA PassStutters ==
  ASSUME Underway' = Underway, \A u \in Urls : StandingOf(u)' = StandingOf(u)
  PROVE  UNCHANGED Abstract!vars
  BY DEF Abstract!vars, Underway

\* Nor is one that only moves the orchestrator on, or the time.
LEMMA PassIdles ==
  ASSUME Underway' = Underway, UNCHANGED <<batch, todo, jobs, wpc, wurl, wres>>
  PROVE  UNCHANGED Abstract!vars
  BY StandingStays, PassStutters

\* A pass opens with all its URLs pending and none in hand.
LEMMA PassOpens ==
  ASSUME TypeOK, OnePlace, NEW urls \in SUBSET Urls,
         BeginDetails(urls) \/ BeginRecency(urls)
  PROVE  Abstract!Open(urls)
<1>1. ~Underway /\ Underway'
  BY DEF BeginDetails, BeginRecency, OpenPass, Underway
<1>2. \A w \in Workers : wurl'[w] = NoUrl
  BY DEF BeginDetails, BeginRecency, worker, TypeOK, OnePlace, Busy
<1>3. batch' = urls /\ todo' = urls
  BY DEF BeginDetails, BeginRecency, OpenPass
<1>4. \A u \in Urls : StandingOf(u)' = IF u \in urls THEN "pending" ELSE "outside"
  BY <1>2, <1>3 DEF StandingOf
<1> QED
  BY <1>1, <1>4 DEF Abstract!Open, Underway

\* A URL that a cache answers is resolved; any other one stays pending.
LEMMA PassExamines ==
  ASSUME TypeOK, OnePlace, NEW u \in Urls, Examine(u)
  PROVE  Abstract!Resolve(u) \/ UNCHANGED Abstract!vars
<1>1. Underway' = Underway /\ todo' = todo \ {u} /\ u \in todo
  BY DEF Examine, Underway
<1>2. UNCHANGED <<batch, wpc, wurl, wres>> /\ u \in batch /\ u \notin jobs
  BY DEF Examine, worker, OnePlace
<1>3. \A w \in Workers : wurl[w] = NoUrl /\ wurl'[w] = NoUrl
  BY DEF Examine, worker, TypeOK, OnePlace, Busy
<1>4. \A v \in Urls \ {u} : StandingOf(v)' = StandingOf(v)
  <2>1. \A v \in Urls \ {u} : v \in todo' \cup jobs' <=> v \in todo \cup jobs
    BY DEF Examine
  <2> QED
    BY <1>2, <1>3, <2>1 DEF StandingOf
<1>5. StandingOf(u) = "pending"
  BY <1>1, <1>2 DEF StandingOf
<1>6. CASE jobs' = jobs \cup {u}
  <2>1. StandingOf(u)' = "pending"
    BY <1>2, <1>6 DEF StandingOf
  <2> QED
    BY <1>1, <1>4, <1>5, <2>1, PassStutters
<1>7. CASE jobs' = jobs
  <2>1. StandingOf(u)' = "resolved"
    BY <1>1, <1>2, <1>3, <1>7 DEF StandingOf
  <2> QED
    BY <1>1, <1>4, <1>5, <2>1 DEF Abstract!Resolve, Underway
<1> QED
  BY <1>6, <1>7 DEF Examine

\* When the workers are done, every URL of the pass is resolved.
LEMMA PassCloses ==
  ASSUME TypeOK, OnePlace, Merge
  PROVE  Abstract!Close
<1>1. Underway /\ ~Underway'
  BY DEF Merge, Underway
<1>2. \A u \in Urls : StandingOf(u) \in {"outside", "resolved"}
  <2>1. \A w \in Workers : wurl[w] = NoUrl
    BY DEF Merge, TypeOK, OnePlace, Busy
  <2>2. todo = {} /\ jobs = {}
    BY DEF Merge, OnePlace
  <2> QED
    BY <2>1, <2>2 DEF StandingOf
<1>3. \A u \in Urls : StandingOf(u)' = "outside"
  BY DEF Merge, StandingOf
<1> QED
  BY <1>1, <1>2, <1>3 DEF Abstract!Close, Abstract!In, Underway

\* The steps of a worker: taking a URL leaves it pending, a request asks for
\* it, its result (or a skip) resolves it, and what follows moves nothing.
LEMMA PassWorks ==
  ASSUME IInv, IInv', SkipsAreEarly, SkipsAreEarly', NEW w \in Workers, Step(w)
  PROVE  [Abstract!Next]_(Abstract!vars)
<1> USE DEF IInv, Goto
<1>1. Underway' = Underway
  BY DEF Underway, Step, orchestr, Take, CheckPause, ReserveTurn, Wake, StartFetch,
         FetchReturns, SavePersistent, Store, Trip, Announce, Record
<1>2. UNCHANGED <<batch, todo>>
  BY DEF Step, orchestr, Take, CheckPause, ReserveTurn, Wake, StartFetch,
         FetchReturns, SavePersistent, Store, Trip, Announce, Record
<1>3. HeldByStep
  BY StandingHeld
<1>4. \A v \in Workers \ {w} :
        wpc'[v] = wpc[v] /\ wurl'[v] = wurl[v] /\ wres'[v] = wres[v]
  BY DEF Step, Take, CheckPause, ReserveTurn, Wake, StartFetch, FetchReturns,
         SavePersistent, Store, Trip, Announce, Record, Release, TypeOK
<1>5. ASSUME NEW u \in Urls, Take(w, u) PROVE UNCHANGED Abstract!vars
  <2>1. u \in batch /\ u \in jobs /\ wurl[w] = NoUrl /\ wurl'[w] = u /\ wpc'[w] = "check"
    BY <1>5 DEF Take, OnePlace, TypeOK
  <2>2. StandingOf(u) = "pending"
    BY <2>1 DEF StandingOf
  <2>3. StandingOf(u)' = "pending"
    BY <1>2, <2>1 DEF StandingOf
  <2>4. \A v \in Urls \ {u} : StandingOf(v)' = StandingOf(v)
    <3>1. \A v \in Urls \ {u} : v # wurl[w] /\ v # wurl'[w] /\ (v \in jobs' <=> v \in jobs)
      BY <1>5, <2>1 DEF Take
    <3> QED
      BY <1>2, <1>4, <3>1, StandingElsewhere
  <2> QED
    BY <1>1, <2>2, <2>3, <2>4, PassStutters
<1>6. CASE Record(w)
  <2> DEFINE u == wurl[w]
  <2>1. Busy(w) /\ wpc[w] = "record" /\ u \in batch /\ u \in Urls
        /\ u \notin todo \cup jobs /\ wurl'[w] = NoUrl /\ jobs' = jobs
    BY <1>6 DEF Record, Release, Busy, OnePlace, TypeOK
  <2>2. StandingOf(u) = "resolved"
    BY <1>3, <2>1 DEF HeldByStep, StandingAt
  <2>3. \A v \in Workers : wurl'[v] # u
    BY <1>4, <2>1 DEF OnePlace
  <2>4. \A v \in Urls : StandingOf(v)' = StandingOf(v)
    <3> SUFFICES ASSUME NEW v \in Urls PROVE StandingOf(v)' = StandingOf(v)
      OBVIOUS
    <3>1. CASE v = u
      <4>1. StandingOf(v)' = "resolved"
        BY <1>2, <2>1, <2>3, <3>1 DEF StandingOf
      <4> QED
        BY <2>2, <3>1, <4>1
    <3>2. CASE v # u
      <4>1. v # wurl[w] /\ v # wurl'[w] /\ (v \in jobs' <=> v \in jobs)
        BY <2>1, <3>2
      <4> QED
        BY <1>2, <1>4, <4>1, StandingElsewhere
    <3> QED
      BY <3>1, <3>2
  <2> QED
    BY <1>1, <2>4, PassStutters
<1>7. CASE ~Record(w) /\ ~\E u \in Urls : Take(w, u)
  <2>1. Busy(w) /\ Busy(w)' /\ wurl' = wurl /\ jobs' = jobs /\ wurl[w] \in Urls
    <3>1. wpc[w] # "idle" /\ wpc'[w] # "idle"
      BY <1>7 DEF Step, CheckPause, ReserveTurn, Wake, StartFetch, FetchReturns, AfterTurn,
             SavePersistent, Store, Trip, AfterTrip, Announce, TypeOK
    <3>2. wurl' = wurl /\ jobs' = jobs
      BY <1>7 DEF Step, CheckPause, ReserveTurn, Wake, StartFetch, FetchReturns,
             SavePersistent, Store, Trip, Announce
    <3> QED
      BY <3>1, <3>2 DEF Busy, TypeOK
  <2>2. /\ StandingOf(wurl[w])' = StandingAt(wpc[w], Skipping(w))'
        /\ \A u \in Urls \ {wurl[w]} : StandingOf(u)' = StandingOf(u)
    BY <1>2, <1>4, <2>1, StandingMoved
  <2>3. StandingOf(wurl[w]) = StandingAt(wpc[w], Skipping(w))
    BY <1>3, <2>1 DEF HeldByStep
  <2>4. CASE StartFetch(w)
    <3>1. StandingOf(wurl[w]) = "pending" /\ StandingOf(wurl[w])' = "asked"
      BY <2>2, <2>3, <2>4 DEF StartFetch, StandingAt, SkipsAreEarly, Skipping, TypeOK
    <3>2. Cardinality({u \in Urls : StandingOf(u) = "asked"}) < Cardinality(Workers)
      BY <2>4, AskedAreHeld DEF StartFetch
    <3>3. \A S : Abstract!Cardinality(S) = Cardinality(S)
      BY DEF Abstract!Cardinality, Cardinality
    <3>4. Abstract!In("asked") = {u \in Urls : StandingOf(u) = "asked"}
      BY DEF Abstract!In
    <3>5. Abstract!Ask(wurl[w])
      BY <1>1, <2>1, <2>2, <3>1, <3>2, <3>3, <3>4 DEF Abstract!Ask, Underway
    <3> QED
      BY <2>1, <3>5 DEF Abstract!Next
  <2>5. CASE Store(w)
    <3>1. StandingOf(wurl[w]) \in {"pending", "asked"} /\ StandingOf(wurl[w])' = "resolved"
      BY <2>2, <2>3, <2>5 DEF Store, StandingAt, TypeOK
    <3>2. Abstract!Resolve(wurl[w]) \/ Abstract!Answer(wurl[w])
      BY <1>1, <2>1, <2>2, <3>1 DEF Abstract!Resolve, Abstract!Answer, Underway
    <3> QED
      BY <2>1, <3>2 DEF Abstract!Next
  <2>6. CASE CheckPause(w) \/ ReserveTurn(w) \/ Wake(w) \/ FetchReturns(w)
             \/ SavePersistent(w) \/ Trip(w) \/ Announce(w)
    <3>1. StandingOf(wurl[w])' = StandingOf(wurl[w])
      <4>1. CASE CheckPause(w)
        <5>1. CASE Paused
          <6>1. wpc'[w] = "store" /\ Skipping(w)'
            BY <4>1, <5>1 DEF CheckPause, Skipping, PausedResult, Result, TypeOK
          <6> QED
            BY <2>2, <2>3, <4>1, <6>1 DEF CheckPause, StandingAt
        <5>2. CASE ~Paused
          <6>1. wpc'[w] \in {"pace", "start"}
            BY <4>1, <5>2 DEF CheckPause, TypeOK
          <6> QED
            BY <2>2, <2>3, <4>1, <6>1 DEF CheckPause, StandingAt
        <5> QED
          BY <5>1, <5>2
      <4>2. CASE ReserveTurn(w) \/ Wake(w)
        BY <2>2, <2>3, <4>2 DEF ReserveTurn, Wake, AfterTurn, StandingAt, TypeOK
      <4>3. CASE FetchReturns(w) \/ SavePersistent(w)
        <5>1. wpc[w] \in {"inflight", "save"} /\ wpc'[w] \in {"save", "store"}
              /\ ~Skipping(w) /\ ~Skipping(w)'
          BY <4>3 DEF FetchReturns, SavePersistent, SkipsAreEarly, Skipping, TypeOK
        <5> QED
          BY <2>2, <2>3, <5>1 DEF StandingAt
      <4>4. CASE Trip(w) \/ Announce(w)
        <5>1. wpc[w] \in {"trip", "announce"} /\ wpc'[w] \in {"announce", "record"}
          BY <4>4 DEF Trip, AfterTrip, Announce, TypeOK
        <5> QED
          BY <2>2, <2>3, <5>1 DEF StandingAt
      <4> QED
        BY <2>6, <4>1, <4>2, <4>3, <4>4
    <3> QED
      BY <1>1, <2>1, <2>2, <3>1, PassStutters
  <2> QED
    BY <1>7, <2>4, <2>5, <2>6 DEF Step
<1> QED
  BY <1>5, <1>6, <1>7

LEMMA PassStep ==
  ASSUME IInv, IInv', SkipsAreEarly, SkipsAreEarly', [Next]_vars
  PROVE  [Abstract!Next]_(Abstract!vars)
<1>1. ASSUME NEW urls \in SUBSET Urls, BeginDetails(urls) \/ BeginRecency(urls)
      PROVE  Abstract!Next
  BY <1>1, PassOpens DEF IInv, Abstract!Next
<1>2. ASSUME NEW u \in Urls, Examine(u) PROVE [Abstract!Next]_(Abstract!vars)
  BY <1>2, PassExamines DEF IInv, Abstract!Next
<1>3. CASE Merge
  BY <1>3, PassCloses DEF IInv, Abstract!Next
<1>4. CASE Launch \/ JobsDone \/ EndLocation \/ Tick \/ Done \/ UNCHANGED vars
  <2>1. Underway' = Underway
    BY <1>4 DEF Underway, Launch, JobsDone, EndLocation, Tick, Done, vars, orchestr
  <2>2. UNCHANGED <<batch, todo, jobs, wpc, wurl, wres>>
    BY <1>4 DEF Launch, JobsDone, EndLocation, Tick, Done, vars, orchestr, worker
  <2> QED
    BY <2>1, <2>2, PassIdles
<1>5. ASSUME NEW w \in Workers, Step(w) PROVE [Abstract!Next]_(Abstract!vars)
  BY <1>5, PassWorks
<1> QED
  BY <1>1, <1>2, <1>3, <1>4, <1>5 DEF Next, Orchestrate

\* Before the first pass every URL is outside.
LEMMA PassInit == Init => Abstract!Init
  BY DEF Init, Abstract!Init, StandingOf

\* A details or recency pass, with its pool of workers, its caches, its pacing
\* and its circuit breaker, resolves each URL of its batch exactly once, asks
\* for it at most once, has no more requests out than workers, and ends only
\* when every URL is resolved.
THEOREM PassesAreHonest == Spec => Abstract!Safety
<1>1. Init => SkipsAreEarly
  BY DEF Init, SkipsAreEarly
<1>2. IInv /\ SkipsAreEarly /\ [Next]_vars => SkipsAreEarly'
  BY EarlyStep DEF IInv
<1>3. Spec => [](IInv /\ SkipsAreEarly)
  BY <1>1, <1>2, Inductive, PTL DEF Spec
<1>4. IInv /\ IInv' /\ SkipsAreEarly /\ SkipsAreEarly' /\ [Next]_vars
        => [Abstract!Next]_(Abstract!vars)
  BY PassStep
<1> QED
  BY <1>3, <1>4, PassInit, PTL DEF Spec, Abstract!Safety
===============================================================================
