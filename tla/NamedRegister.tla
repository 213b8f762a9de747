---------------------------- MODULE NamedRegister ----------------------------
(***************************************************************************)
(* What the search cache, the property cache and the session store promise *)
(* their callers: a name holds nothing or one whole value that was saved   *)
(* under it, and it changes in one step.                                   *)
(***************************************************************************)
CONSTANTS Names, Values, Nothing

VARIABLES held,   \* what a reader of each name finds
          kept    \* what a name may fall back to when the machine stops

registerVars == <<held, kept>>

RegisterInit == held = [n \in Names |-> Nothing] /\ kept = held

Put(n) ==
    /\ \E v \in Values : held' = [held EXCEPT ![n] = v]
    /\ UNCHANGED kept

Drop(n) == held' = [held EXCEPT ![n] = Nothing] /\ UNCHANGED kept

Keep(n) == kept' = [kept EXCEPT ![n] = held[n]] /\ UNCHANGED held

\* Without a sync of the directory a stop may undo the latest change of a
\* name; it never leaves anything but a value the name has held.
FallBack ==
    /\ \A n \in Names : held'[n] \in {held[n], kept[n]}
    /\ kept' = held'

RegisterNext == (\E n \in Names : Put(n) \/ Drop(n) \/ Keep(n)) \/ FallBack

RegisterSpec == RegisterInit /\ [][RegisterNext]_registerVars
=============================================================================
