------------------------------ MODULE MCRecorder ------------------------------
(* Instances of Recorder for TLC.                                            *)
EXTENDS Recorder, TLC

Hop(x, n, c, a) == [extra |-> x, noBody |-> n, cached |-> c, again |-> a]
Life(hops, end) == [hops |-> hops, end |-> end]

\* All lives of one or two hops.
UpToTwoHops ==
  {s \in {Life(h, e) : h \in UNION {[1..n -> Hops] : n \in 1..2},
                       e \in {"finished", "failed", "blocked"}} :
     IsScript(s)}

\* Lives of three plain hops.
Plain == {Hop(x, FALSE, FALSE, FALSE) : x \in {"none", "request", "both"}}
ThreeHops ==
  {s \in {Life(h, e) : h \in [1..3 -> Plain], e \in {"finished", "blocked"}} :
     IsScript(s)}
Lives == UpToTwoHops \cup ThreeHops

\* A redirect with extra info on both hops, and a request that is blocked.
Redirected ==
  Life(<<Hop("both", FALSE, FALSE, FALSE), Hop("both", FALSE, TRUE, FALSE)>>,
       "finished")
Blocked == Life(<<Hop("request", FALSE, FALSE, FALSE)>>, "blocked")
TwoLives == {Redirected, Blocked}
Alike == Permutations(Ids)
===============================================================================
