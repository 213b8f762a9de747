------------------------------ MODULE DetailPass ------------------------------
(***************************************************************************)
(* What a detail pass of the search command promises, with the workers,    *)
(* the pacing, the caches and the circuit breaker left out.                *)
(*                                                                         *)
(* A pass opens with a batch of property URLs.  Each URL is resolved       *)
(* exactly once, and either it is known already, or it is skipped, or it   *)
(* is asked once; at most MaxAsked requests are outstanding.  The pass     *)
(* closes when every URL of its batch is resolved, and it does close.      *)
(***************************************************************************)
EXTENDS Naturals, FiniteSets

CONSTANTS Urls,     \* the property URLs
          MaxAsked  \* the bound on outstanding requests

VARIABLES open,   \* is a pass under way?
          status  \* the standing of each URL in the pass

vars == <<open, status>>

Statuses == {"outside", "pending", "asked", "resolved"}

In(s) == {u \in Urls : status[u] = s}

Init ==
  /\ open = FALSE
  /\ status = [u \in Urls |-> "outside"]

Open(batch) ==
  /\ ~open
  /\ open' = TRUE
  /\ status' = [u \in Urls |-> IF u \in batch THEN "pending" ELSE "outside"]

\* The URL's details are known, or its request is skipped.
Resolve(u) ==
  /\ status[u] = "pending"
  /\ status' = [status EXCEPT ![u] = "resolved"]
  /\ UNCHANGED open

Ask(u) ==
  /\ status[u] = "pending"
  /\ Cardinality(In("asked")) < MaxAsked
  /\ status' = [status EXCEPT ![u] = "asked"]
  /\ UNCHANGED open

Answer(u) ==
  /\ status[u] = "asked"
  /\ status' = [status EXCEPT ![u] = "resolved"]
  /\ UNCHANGED open

Close ==
  /\ open
  /\ In("pending") = {}
  /\ In("asked") = {}
  /\ open' = FALSE
  /\ status' = [u \in Urls |-> "outside"]

Next ==
  \/ \E batch \in SUBSET Urls : Open(batch)
  \/ \E u \in Urls : Resolve(u) \/ Ask(u) \/ Answer(u)
  \/ Close

Safety == Init /\ [][Next]_vars

\* Every pass that opens closes.
Closes == open ~> ~open

Spec == Safety /\ WF_vars(Next /\ open)
===============================================================================
