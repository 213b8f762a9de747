--------------------------- MODULE MCDetailEnricher ---------------------------
(* Small instances of DetailEnricher.                                       *)
EXTENDS DetailEnricher, TLC

CONSTANTS u1, u2, u3, w1, w2

TwoUrls    == {u1, u2}
ThreeUrls  == {u1, u2, u3}
TwoWorkers == {w1, w2}
OneWorker  == {w1}

\* Workers and URLs are interchangeable in every action and invariant.
Symmetric == Permutations(Urls) \cup Permutations(Workers)
===============================================================================
