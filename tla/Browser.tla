-------------------------------- MODULE Browser --------------------------------
(***************************************************************************)
(* The browser as internal/cdphar sees it through the DevTools protocol    *)
(* (external: modelled from how recorder.go and capture.go use it).        *)
(*                                                                         *)
(* Every request ID is a chain of redirect hops.  Its base events arrive   *)
(* in the order of the chain and carry a timestamp; its extra-info events  *)
(* carry neither timestamp nor hop and arrive, in the order of the hops,   *)
(* before, between or long after the base events they belong to.  Requests *)
(* may stay in flight for ever.                                            *)
(*                                                                         *)
(* Timestamps are abstracted to the one thing the recorder compares them   *)
(* with, the capture's cutoff: an event is late when it is stamped after   *)
(* the browser's clock was read.                                           *)
(***************************************************************************)
EXTENDS Naturals, Sequences, FiniteSets, RequestChain

CONSTANTS Ids,     \* the request IDs
          Scripts  \* the lives a request may have

\* A hop: which extra-info events the browser sends for it, whether its
\* response has no body (a 304, say), whether it is served from the cache,
\* and whether its base event is sent twice.
Hops == [extra : {"none", "request", "both"}, noBody : BOOLEAN,
         cached : BOOLEAN, again : BOOLEAN]

\* Only a last hop that fails without a response has a request extra alone.
IsScript(s) ==
  /\ s.hops \in Seq(Hops) /\ s.hops # <<>>
  /\ s.end \in {"finished", "failed", "blocked"}
  /\ \A i \in DOMAIN s.hops :
       s.hops[i].extra = "request" => i = Len(s.hops) /\ s.end = "blocked"

ASSUME BrowserAssumption == IsFiniteSet(Ids) /\ \A s \in Scripts : IsScript(s)

VARIABLES
  script,     \* per ID: the life it has
  baseAt,     \* per ID: the base events behind it
  extraAt,    \* per ID and kind: the extra-info events sent
  earlyAt,    \* per ID: the base events behind it stamped up to the cutoff
  clockRead   \* has the capture read the browser's clock?

browserVars == <<script, baseAt, extraAt, earlyAt, clockRead>>

\* The base events of a hop, by position: sent, sent again, served from
\* cache, response received, ended.  An intermediate hop's response is part
\* of the next hop's sent event.
Events == <<"sent", "again", "cached", "received", "end">>
HopOf(b)  == (b \div 5) + 1
StepOf(b) == Events[(b % 5) + 1]
Occurs(s, b) ==
  LET last == HopOf(b) = Len(s.hops)
  IN CASE StepOf(b) = "sent"     -> TRUE
       [] StepOf(b) = "again"    -> s.hops[HopOf(b)].again
       [] StepOf(b) = "cached"   -> s.hops[HopOf(b)].cached
       [] StepOf(b) = "received" -> last /\ s.end # "blocked"
       [] StepOf(b) = "end"      -> last

\* The base events of a script that are still to come, and the first one.
Coming(r) ==
  {b \in baseAt[r] .. 5 * Len(script[r].hops) - 1 : Occurs(script[r], b)}
NextBase(r) == CHOOSE b \in Coming(r) : \A c \in Coming(r) : b <= c

\* The hops with an extra-info event of a kind.
HasExtra(s, h, k) ==
  \/ s.hops[h].extra = "both"
  \/ s.hops[h].extra = "request" /\ k = "request"
ExtraHops(r, k) ==
  {h \in DOMAIN script[r].hops : HasExtra(script[r], h, k)}

\* What a base event says of hop h: whether it has extra info, and whether
\* it has no body, which only the extra info knows when there is one.
Says(r, h) ==
  [hasExtra |-> script[r].hops[h].extra = "both",
   noBody   |-> script[r].hops[h].noBody /\ script[r].hops[h].extra # "both"]

Event(r, kind, h, isLate, about) ==
  [id |-> r, kind |-> kind, hop |-> h, late |-> isLate, redirect |-> FALSE,
   hasExtra |-> about.hasExtra, noBody |-> about.noBody]

BaseEvent(r, b, isLate) ==
  LET h == HopOf(b)
      redirect == StepOf(b) = "sent" /\ h > 1
      kind == CASE StepOf(b) = "again" -> "sent"
                [] StepOf(b) = "end" -> IF script[r].end = "finished"
                                        THEN "finished" ELSE "failed"
                [] OTHER -> StepOf(b)
  IN [Event(r, kind, h, isLate, Says(r, IF redirect THEN h - 1 ELSE h))
      EXCEPT !.redirect = redirect]

ExtraEvent(r, k, h) ==
  Event(r, IF k = "request" THEN "requestExtra" ELSE "responseExtra", h, FALSE,
        [hasExtra |-> FALSE, noBody |-> script[r].hops[h].noBody])

BrowserInit ==
  /\ script \in [Ids -> Scripts]
  /\ baseAt = [r \in Ids |-> 0]
  /\ extraAt = [r \in Ids |-> [k \in ExtraKinds |-> 0]]
  /\ earlyAt = [r \in Ids |-> 0]
  /\ clockRead = FALSE

\* The next base event of r leaves; once stamped after the cutoff, every
\* later one of r is too.
SendBase(r, isLate) ==
  /\ Coming(r) # {}
  /\ isLate => clockRead
  /\ earlyAt[r] < baseAt[r] => isLate
  /\ baseAt' = [baseAt EXCEPT ![r] = NextBase(r) + 1]
  /\ earlyAt' = IF isLate THEN earlyAt
                ELSE [earlyAt EXCEPT ![r] = NextBase(r) + 1]
  /\ UNCHANGED <<script, extraAt, clockRead>>

\* The next extra-info event of a kind, in the order of the hops; a response
\* follows its request.
SendExtra(r, k) ==
  /\ extraAt[r][k] < Cardinality(ExtraHops(r, k))
  /\ k = "response" => extraAt[r]["response"] < extraAt[r]["request"]
  /\ extraAt' = [extraAt EXCEPT ![r][k] = @ + 1]
  /\ UNCHANGED <<script, baseAt, earlyAt, clockRead>>
NextExtra(r, k) ==
  ExtraEvent(r, k, CHOOSE h \in ExtraHops(r, k) :
                     Rank(ExtraHops(r, k), h) = extraAt[r][k] + 1)

ReadClock ==
  /\ clockRead' = TRUE
  /\ UNCHANGED <<script, baseAt, extraAt, earlyAt>>

\* The hops whose body GetResponseBody may return for r: that of the last
\* hop the browser has got to, which may be ahead of the events delivered.
ReachedHop(r) == IF baseAt[r] = 0 THEN 1 ELSE HopOf(baseAt[r] - 1)
BodyHops(r)   == ReachedHop(r) .. Len(script[r].hops)
===============================================================================
