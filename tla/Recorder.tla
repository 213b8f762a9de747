-------------------------------- MODULE Recorder --------------------------------
(***************************************************************************)
(* The HAR recorder (internal/cdphar/recorder.go): base events build the   *)
(* redirect chains, extra-info events are paired with their hops, and a    *)
(* freeze stops the intake at a cutoff while late-arriving events from     *)
(* before it are still applied.                                            *)
(*                                                                         *)
(* HandleEvent is handleEvent and handleBufferedEvent, one critical        *)
(* section each.  Sizes are abstracted: whatever retains data may find     *)
(* that a limit is exceeded; what is half-recorded then is never archived. *)
(* Headers, timings, sizes and the bodies of requests are left out.        *)
(*                                                                         *)
(* Spec runs the recorder on its own, fed by the browser directly, after   *)
(* the freeze by handleEvent or handleBufferedEvent; module Capture adds   *)
(* the listener, the freeze buffer and the body fetches.                   *)
(***************************************************************************)
EXTENDS Browser

CONSTANTS MaxOrphans,    \* maxFrozenOrphanExtras
          IncludeBodies, \* Options.IncludeResponseBodies
          MayExceed      \* may a retention limit be exceeded?

ASSUME RecorderAssumption ==
  /\ MaxOrphans \in Nat
  /\ IncludeBodies \in BOOLEAN /\ MayExceed \in BOOLEAN

VARIABLES
  chains,        \* per ID: its chain
  frozen,        \* is the intake frozen?
  limitErr,      \* has the capture failed?
  frozenExtras,  \* per ID and kind: extras after the freeze without a request
  orphanCount,   \* frozenOrphanCount
  postCutoff,    \* postCutoffRequestIDs
  dropped        \* history: IDs that lost an orphan to the limit

recorderVars == <<chains, frozen, limitErr, frozenExtras, orphanCount,
                  postCutoff, dropped>>

RecorderInit ==
  /\ chains = [r \in Ids |-> EmptyChain]
  /\ frozen = FALSE /\ limitErr = FALSE
  /\ frozenExtras = [r \in Ids |-> [k \in ExtraKinds |-> <<>>]]
  /\ orphanCount = 0 /\ postCutoff = {} /\ dropped = {}

HasCapturedRequest(r) == LastHop(chains[r]) > 0

\* reserve and the validations: the capture fails.
Exceed ==
  /\ MayExceed
  /\ limitErr' = TRUE
  /\ UNCHANGED <<chains, frozen, frozenExtras, orphanCount, postCutoff,
                 dropped>>

Ignore == UNCHANGED recorderVars

\* One chain changes.
Update(r, c) ==
  /\ chains' = [chains EXCEPT ![r] = c]
  /\ UNCHANGED <<frozen, limitErr, frozenExtras, orphanCount, postCutoff,
                 dropped>>
UpdateReady(r, c) == Update(r, IF IncludeBodies THEN ScheduleReady(c) ELSE c)

\* One field of the current entry changes, if there is an entry.
Current(r, f) ==
  IF LastHop(chains[r]) = 0 THEN chains[r]
  ELSE [chains[r] EXCEPT !.entries[LastHop(chains[r])][f] = TRUE]
-------------------------------------------------------------------------------
(* The handlers.                                                           *)

\* A hop that redirects is answered by the event of the next one.  Its body
\* is out of reach: the request ID means the next hop now.
RedirectAskable(c, e) ==
  LET i == LastHop(c)
      answered == [c.entries[i] EXCEPT
        !.noBody = IF c.entries[i].response THEN @ ELSE e.noBody,
        !.response = TRUE, !.finished = TRUE]
  IN Expect([c EXCEPT !.entries[i] = answered], i, e.hasExtra)
Redirect(c, e) ==
  LET i == LastHop(c)
      answered == [c.entries[i] EXCEPT
        !.noBody = IF c.entries[i].response THEN @ ELSE e.noBody,
        !.response = TRUE, !.finished = TRUE]
      unfetchable == [answered EXCEPT
        !.scheduled = TRUE, !.bodyError = ~HasNoBody(answered)]
  IN Expect([c EXCEPT !.entries[i] =
               IF IncludeBodies THEN unfetchable ELSE answered],
            i, e.hasExtra)

\* The first hop of a chain takes over the extras queued for it.
AdoptNothing(c, r) == c
Adopt(c, r) ==
  [c EXCEPT !.pending =
     [k \in ExtraKinds |-> c.pending[k] \o frozenExtras[r][k]]]
AdoptedRequests(r) == Len(frozenExtras[r]["request"])
Adopted(r) == Len(frozenExtras[r]["request"]) + Len(frozenExtras[r]["response"])

RequestWillBeSent(e) ==
  LET r == e.id
      first == LastHop(chains[r]) = 0
      c == IF first THEN Adopt(chains[r], r)
           ELSE Redirect(chains[r], e)
  IN \/ Exceed
     \/ /\ postCutoff' = postCutoff \ {r}
        /\ UNCHANGED <<frozen, limitErr, dropped>>
        /\ IF ~first /\ ~e.redirect
           THEN UNCHANGED <<chains, frozenExtras, orphanCount>>
           ELSE /\ chains' = [chains EXCEPT ![r] =
                     [c EXCEPT !.entries = Append(@, Entry(e.hop))]]
                /\ IF first
                   THEN /\ orphanCount' = IF orphanCount < Adopted(r) THEN 0
                                          ELSE orphanCount - Adopted(r)
                        /\ frozenExtras' = [frozenExtras EXCEPT
                             ![r] = [k \in ExtraKinds |-> <<>>]]
                   ELSE UNCHANGED <<frozenExtras, orphanCount>>

RequestExtraInfo(e) ==
  \/ Exceed
  \/ Update(e.id, AddExtra(chains[e.id], "request", Extra(e.hop, e.noBody)))

ResponseExtraInfoAlone(e) ==
  \/ Exceed
  \/ Update(e.id, AddExtra(chains[e.id], "response", Extra(e.hop, e.noBody)))
ResponseExtraInfo(e) ==
  \/ Exceed
  \/ UpdateReady(e.id,
       AddExtra(chains[e.id], "response", Extra(e.hop, e.noBody)))

ResponseReceived(e) ==
  LET i == LastHop(chains[e.id])
      c == [chains[e.id] EXCEPT !.entries[i].response = TRUE,
                                !.entries[i].noBody = e.noBody]
  IN IF i = 0 THEN Ignore
     ELSE Exceed \/ UpdateReady(e.id, Expect(c, i, e.hasExtra))

LoadingFinished(e) == UpdateReady(e.id, Current(e.id, "finished"))

\* A failure before anything is known of the entry settles that the extras
\* waiting in the chain are its own.
LoadingFailed(e) ==
  LET c == Current(e.id, "failed")
      i == LastHop(c)
  IN \/ i > 0 /\ Exceed
     \/ Update(e.id,
          IF i > 0 /\ ~c.entries[i].known
             /\ \E k \in ExtraKinds : c.pending[k] # <<>>
          THEN Expect(c, i, TRUE) ELSE c)

ServedFromCache(e) == Update(e.id, Current(e.id, "cached"))

\* An extra of a request that has no base event yet, after the freeze.
LimitReached == orphanCount >= MaxOrphans
QueueFrozenExtra(e, k) ==
  IF LimitReached
  THEN /\ dropped' = dropped \cup {e.id}
       /\ UNCHANGED <<chains, frozen, limitErr, frozenExtras, orphanCount,
                      postCutoff>>
  ELSE \/ Exceed
       \/ /\ orphanCount' = orphanCount + 1
          /\ frozenExtras' = [frozenExtras EXCEPT ![e.id][k] =
                                Append(@, Extra(e.hop, e.noBody))]
          /\ UNCHANGED <<chains, frozen, limitErr, postCutoff, dropped>>

\* A base event stamped after the cutoff only leaves its request ID behind.
PastCutoff(e) ==
  /\ postCutoff' = IF e.kind = "sent" THEN postCutoff \cup {e.id}
                   ELSE postCutoff
  /\ UNCHANGED <<chains, frozen, limitErr, frozenExtras, orphanCount, dropped>>

Apply(e) ==
  CASE e.kind = "sent"          -> RequestWillBeSent(e)
    [] e.kind = "requestExtra"  -> RequestExtraInfo(e)
    [] e.kind = "responseExtra" -> ResponseExtraInfo(e)
    [] e.kind = "received"      -> ResponseReceived(e)
    [] e.kind = "finished"      -> LoadingFinished(e)
    [] e.kind = "failed"        -> LoadingFailed(e)
    [] e.kind = "cached"        -> ServedFromCache(e)

\* A cache event has no timestamp: after the freeze it counts only if it was
\* buffered, and its request is not known to be past the cutoff.
CacheCounts(e, buffered) ==
  IF buffered THEN e.id \notin postCutoff ELSE ~frozen

\* After the freeze an event counts if it is stamped up to the cutoff.
CountsUntilFrozen(e) == ~frozen
Counts(e) == ~frozen \/ ~e.late

HandleEvent(e, buffered) ==
  LET orphan == frozen /\ ~HasCapturedRequest(e.id)
  IN CASE limitErr -> Ignore
       [] ~limitErr /\ e.kind = "cached" ->
            IF CacheCounts(e, buffered) THEN Apply(e) ELSE Ignore
       [] ~limitErr /\ e.kind = "requestExtra" ->
            IF orphan THEN QueueFrozenExtra(e, "request") ELSE Apply(e)
       [] ~limitErr /\ e.kind = "responseExtra" ->
            IF orphan THEN QueueFrozenExtra(e, "response") ELSE Apply(e)
       [] OTHER -> IF Counts(e) THEN Apply(e) ELSE PastCutoff(e)

\* freezeAtMonotonic.
FreezeAtMonotonic ==
  /\ frozen' = TRUE
  /\ chains' = [r \in Ids |-> Reconcile(chains[r])]
  /\ UNCHANGED <<limitErr, frozenExtras, orphanCount, postCutoff, dropped>>

\* markMissingExtraInfo.
MarkMissingExtraInfo ==
  /\ chains' = [r \in Ids |->
       LET c == Reconcile(chains[r])
       IN [c EXCEPT !.entries = [i \in DOMAIN c.entries |->
             [c.entries[i] EXCEPT !.incomplete = Missing(c.entries[i])]]]]
  /\ UNCHANGED <<frozen, limitErr, frozenExtras, orphanCount, postCutoff,
                 dropped>>
-------------------------------------------------------------------------------
(* The recorder on its own.                                                *)

Init == BrowserInit /\ RecorderInit
vars == <<browserVars, recorderVars>>

BaseArrives(r) ==
  \E isLate, buffered \in BOOLEAN :
    /\ SendBase(r, isLate)
    /\ buffered => frozen
    /\ HandleEvent(BaseEvent(r, NextBase(r), isLate), buffered)

ExtraArrives(r) ==
  \E k \in ExtraKinds, buffered \in BOOLEAN :
    /\ SendExtra(r, k)
    /\ buffered => frozen
    /\ HandleEvent(NextExtra(r, k), buffered)

Freeze == ~frozen /\ ReadClock /\ FreezeAtMonotonic

Next ==
  \/ \E r \in Ids : BaseArrives(r) \/ ExtraArrives(r)
  \/ Freeze

Spec == Init /\ [][Next]_vars
-------------------------------------------------------------------------------
(* Properties.  A capture that exceeded a limit archives nothing, so they    *)
(* speak of the others.                                                      *)

\* The recorder's state has the shape its structs give it.
TypeOK ==
  LET Extras == [hop : Nat, noBody : BOOLEAN]
  IN /\ \A r \in Ids :
          /\ \A i \in DOMAIN chains[r].entries :
               LET e == chains[r].entries[i]
               IN /\ e.hop \in Nat /\ e.extra \in [ExtraKinds -> Extras]
                  /\ \A f \in DOMAIN e \ {"hop", "extra", "asks"} :
                       e[f] \in BOOLEAN
                  /\ e.asks \in Nat
          /\ chains[r].pending \in [ExtraKinds -> Seq(Extras)]
          /\ frozenExtras[r] \in [ExtraKinds -> Seq(Extras)]
     /\ frozen \in BOOLEAN /\ limitErr \in BOOLEAN
     /\ orphanCount \in 0..MaxOrphans
     /\ postCutoff \subseteq Ids /\ dropped \subseteq Ids

Entries(r) == DOMAIN chains[r].entries
IsOwn(e)   == \A k \in ExtraKinds : e.extra[k].hop \in {0, e.hop}

\* However extras and base events interleave, no hop of a redirect chain gets
\* the extra info of another one (what
\* TestRecorderDoesNotShiftExtraInfoAcrossRedirects tests in one order);
\* requests that lost an orphan to the limit are set apart.
ExtrasBelongToHop ==
  \A r \in Ids \ dropped : \A i \in Entries(r) : IsOwn(chains[r].entries[i])

\* The same without setting them apart.
ExtrasNeverShift == \A r \in Ids : \A i \in Entries(r) : IsOwn(chains[r].entries[i])

\* Every extra delivered is with a hop, waiting in its chain, or waiting for
\* its request: none is lost or used twice on the way through the three.
NoExtraLost ==
  ~limitErr =>
    \A r \in Ids \ dropped : \A k \in ExtraKinds :
      extraAt[r][k] = Cardinality({i \in Entries(r) :
                                     chains[r].entries[i].extra[k] # NoExtra})
                      + Len(chains[r].pending[k]) + Len(frozenExtras[r][k])

\* Pairing never lags behind: at any time another pass over the chain would
\* change nothing, so the passes of freezeAtMonotonic and of the drain find
\* every extra where the events left it.
Reconciled == \A r \in Ids : Reconcile(chains[r]) = chains[r]

\* In a state of the right shape, frozenOrphanCount is the number of queued
\* orphans, which wait only for requests that have no entry.
Queued(r, k) == {<<r, k>>} \X DOMAIN frozenExtras[r][k]
Orphans == UNION {Queued(r, k) : r \in Ids, k \in ExtraKinds}
OrphansAccounted ==
  /\ TypeOK
  /\ orphanCount = Cardinality(Orphans)
  /\ \A r \in Ids, k \in ExtraKinds :
        Queued(r, k) # {} => ~HasCapturedRequest(r)

\* Has the early part of r's life got past step n (0 sent, 3 received, 4
\* ended) of hop h?
EarlyPast(r, h, n) == Occurs(script[r], 5 * (h - 1) + n)
                      /\ earlyAt[r] > 5 * (h - 1) + n
Ended(r, h, how)   == EarlyPast(r, h, 4) /\ script[r].end \in how

\* What the base events up to the cutoff say of each entry.
EntriesUpToCutoff ==
  ~limitErr =>
    \A r \in Ids :
      /\ Entries(r) = {h \in DOMAIN script[r].hops : EarlyPast(r, h, 0)}
      /\ \A i \in Entries(r) :
           LET e == chains[r].entries[i]
               redirected == i < LastHop(chains[r])
           IN /\ e.hop = i
              /\ e.response = (redirected \/ EarlyPast(r, i, 3))
              /\ e.finished = (redirected \/ Ended(r, i, {"finished"}))
              /\ e.failed = Ended(r, i, {"failed", "blocked"})

CacheMarksOwnHop ==
  \A r \in Ids : \A i \in Entries(r) :
    chains[r].entries[i].cached => script[r].hops[i].cached

\* The chains hold exactly what the base events up to the cutoff say, and
\* nothing of what came after it, wherever among the deliveries the freeze
\* fell; and although cache events have no timestamp, only a hop served from
\* the cache is marked as such, whatever redirect was dropped just before.
IntakeIsTheCutoff == EntriesUpToCutoff /\ CacheMarksOwnHop

\* A body is asked for at most once, only for a last hop, and never when the
\* browser has none: a status that says so may come in the extra info alone.
NoNeedlessFetch ==
  \A r \in Ids \ dropped : \A i \in Entries(r) :
    chains[r].entries[i].asks > 0 =>
      /\ chains[r].entries[i].asks = 1
      /\ i = Len(script[r].hops) /\ ~script[r].hops[i].noBody

\* Once all events of a request have come, up to the cutoff, its body has been
\* asked for if it has one, in whichever order they came.
NoBodyForgotten ==
  IncludeBodies /\ ~limitErr =>
    \A r \in Ids \ dropped :
      LET n == Len(script[r].hops)
      IN /\ EarlyPast(r, n, 4) /\ script[r].end = "finished"
         /\ \A k \in ExtraKinds : extraAt[r][k] = Cardinality(ExtraHops(r, k))
         => chains[r].entries[n].asks = IF script[r].hops[n].noBody THEN 0 ELSE 1

\* An entry that markMissingExtraInfo would let pass as complete has all the
\* extra info that the browser has of its hop.
CompleteIsComplete ==
  \A r \in Ids \ dropped : \A i \in Entries(r) : \A k \in ExtraKinds :
    ~Missing(chains[r].entries[i]) /\ HasExtra(script[r], i, k)
      => chains[r].entries[i].extra[k].hop = i
===============================================================================
