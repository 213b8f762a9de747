------------------------------- MODULE MCCapture -------------------------------
(* Instances of Capture for TLC.                                             *)
EXTENDS Capture, TLC

Hop(x, n, c) == [extra |-> x, noBody |-> n, cached |-> c, again |-> FALSE]
Life(hops, end) == [hops |-> hops, end |-> end]

\* Redirects whose last hop alone is served from the cache; a response that
\* only its extra info shows to be without a body; a request that is blocked
\* after a redirect; a plain response.
Lives ==
  {Life(<<Hop(x, FALSE, FALSE), Hop("both", FALSE, TRUE)>>, "finished") :
     x \in {"none", "both"}}
  \cup {Life(<<Hop("both", TRUE, FALSE)>>, "finished"),
        Life(<<Hop("both", FALSE, FALSE), Hop("request", FALSE, FALSE)>>,
             "blocked")}
SimpleLives == {Life(<<Hop("none", FALSE, FALSE)>>, "finished")}
Alike == Permutations(Ids)
===============================================================================
