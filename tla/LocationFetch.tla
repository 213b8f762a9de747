--------------------------- MODULE LocationFetch ---------------------------
(***************************************************************************)
(* What the search command may rely on when it asks for one location: a    *)
(* bounded number of requests, and an answer that is called whole only     *)
(* when every part of the plan was read.  Discovery implements it and      *)
(* SearchLocations is written against it.                                  *)
(***************************************************************************)
EXTENDS Integers

VARIABLES status,   \* "running", then "whole", "partial" or "failed"
          parts,    \* the routes of the plan
          covered,  \* the routes read to their end or their page limit
          budget,   \* the most requests this plan may cost
          asked     \* the requests made

fetchVars == <<status, parts, covered, budget, asked>>

Outcomes == {"whole", "partial", "failed"}

FetchInit ==
    /\ status = "running"
    /\ covered = {}
    /\ asked = 0

\* One request, which may complete a route and the fetch.
Ask ==
    /\ status = "running"
    /\ asked < budget
    /\ asked' = asked + 1
    /\ \/ covered' = covered
       \/ \E part \in parts \ covered : covered' = covered \cup {part}
    /\ status' \in {"running"} \cup Outcomes
    /\ status' = "whole" => covered' = parts
    /\ status' = "partial" => covered' # parts
    /\ UNCHANGED <<parts, budget>>

\* The options are refused, or the caller's context ends: between requests the
\* fetch fails, before another try of one it only loses what it was reading.
GiveUp ==
    /\ status = "running"
    /\ status' \in {"failed", "partial"}
    /\ status' = "partial" => covered # parts
    /\ UNCHANGED <<parts, covered, budget, asked>>

FetchNext == Ask \/ GiveUp

FetchSpec == FetchInit /\ [][FetchNext]_fetchVars
=============================================================================
