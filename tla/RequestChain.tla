----------------------------- MODULE RequestChain -----------------------------
(***************************************************************************)
(* The redirect chain of one request ID in the HAR recorder                *)
(* (requestChain and capturedEntry of internal/cdphar/recorder.go), as     *)
(* operators on values: how the extra-info events that carry no hop are    *)
(* handed to the hops, and which response bodies are ready to be fetched.  *)
(***************************************************************************)
EXTENDS Naturals, Sequences, FiniteSets

ExtraKinds == {"request", "response"}

\* An extra-info event: the hop it is about, which the recorder cannot see,
\* and whether its status says that there is no body.
Extra(h, b) == [hop |-> h, noBody |-> b]
NoExtra     == Extra(0, FALSE)

\* capturedEntry; asks counts the fetch tasks made for it.
Entry(h) ==
  [hop |-> h, extra |-> [k \in ExtraKinds |-> NoExtra],
   known |-> FALSE, expected |-> FALSE, response |-> FALSE, noBody |-> FALSE,
   finished |-> FALSE, failed |-> FALSE, cached |-> FALSE,
   scheduled |-> FALSE, asks |-> 0, bodyError |-> FALSE, incomplete |-> FALSE]

EmptyChain == [entries |-> <<>>, pending |-> [k \in ExtraKinds |-> <<>>]]

LastHop(c) == Len(c.entries)

\* The entries waiting for an extra of kind k, up to the first one of which
\* it is not known whether it has extra info.
Settled(c)  == {i \in DOMAIN c.entries : \A j \in 1..i : c.entries[j].known}
NeedyWhatever(c, k) == {i \in Settled(c) : c.entries[i].extra[k] = NoExtra}
Needy(c, k) == {i \in Settled(c) : /\ c.entries[i].expected
                                   /\ c.entries[i].extra[k] = NoExtra}
Rank(S, i)  == Cardinality({j \in S : j <= i})

\* reconcileExtraInfo: pending extras are handed out in order of arrival.
Reconcile(c) ==
  LET Serves(i, k) == i \in Needy(c, k) /\ Rank(Needy(c, k), i) <= Len(c.pending[k])
      Used(k) == Cardinality({i \in Needy(c, k) : Serves(i, k)})
  IN [entries |-> [i \in DOMAIN c.entries |->
        [c.entries[i] EXCEPT !.extra = [k \in ExtraKinds |->
           IF Serves(i, k) THEN c.pending[k][Rank(Needy(c, k), i)]
           ELSE c.entries[i].extra[k]]]],
      pending |-> [k \in ExtraKinds |->
        SubSeq(c.pending[k], Used(k) + 1, Len(c.pending[k]))]]

\* setExtraInfoExpectation.
ExpectOnly(c, i, expected) ==
  [c EXCEPT !.entries[i].known = TRUE, !.entries[i].expected = expected]
Expect(c, i, expected) ==
  Reconcile([c EXCEPT !.entries[i].known = TRUE,
                      !.entries[i].expected = expected])

\* requestExtraInfo, responseExtraInfo: the event is queued; an entry that
\* failed before anything was known of it now expects its extra info.
AddExtra(c, k, extra) ==
  LET queued == [c EXCEPT !.pending[k] = Append(@, extra)]
      i == LastHop(c)
  IN IF i > 0 /\ c.entries[i].failed /\ ~c.entries[i].known
     THEN Expect(queued, i, TRUE)
     ELSE Reconcile(queued)

\* hasNoResponseBody: the extra info's status overrides the response's.
HasNoBody(e) ==
  IF e.extra["response"] # NoExtra THEN e.extra["response"].noBody
  ELSE e.noBody

\* readyBodyFetchTasks: finished responses, complete as far as expected.
ReadyEarly(e) == ~e.scheduled /\ e.finished /\ e.response
Ready(e) ==
  /\ ~e.scheduled /\ e.finished /\ e.response
  /\ ~(e.expected /\ e.extra["response"] = NoExtra)
ScheduleReady(c) ==
  [c EXCEPT !.entries = [i \in DOMAIN c.entries |->
     IF ~Ready(c.entries[i]) THEN c.entries[i]
     ELSE [c.entries[i] EXCEPT
             !.scheduled = TRUE,
             !.asks = IF HasNoBody(c.entries[i]) THEN @ ELSE @ + 1]]]

\* What is still missing of an entry: extraInfoDrainNeeded and
\* markMissingExtraInfo ask this.
Missing(e) ==
  \/ ~e.known
  \/ e.expected /\ \E k \in ExtraKinds : e.extra[k] = NoExtra
===============================================================================
