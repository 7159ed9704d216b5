----------------------------- MODULE ActiveBase -----------------------------
(***************************************************************************)
(* What the administration of SQL bases promises to the rest of the        *)
(* program: one register that names the base questions are sent to.  It    *)
(* moves only to a base somebody asked for, in two steps: the old base is  *)
(* dropped, then the new one is selected.                                  *)
(***************************************************************************)
CONSTANTS Bases, NoBase

VARIABLES
    base,       \* the base that questions are sent to, or NoBase
    wanted      \* the base a switch in progress is moving to, or NoBase

vars == <<base, wanted>>

Init == base = NoBase /\ wanted = NoBase

\* A switch to b starts; an import makes b the base before the old one is off.
Want(b) ==
    /\ wanted = NoBase
    /\ wanted' = b
    /\ base' \in {base, b}

Drop ==
    /\ wanted # NoBase
    /\ base' = IF base = wanted THEN base ELSE NoBase
    /\ UNCHANGED wanted

Select ==
    /\ wanted # NoBase
    /\ base \in {NoBase, wanted}
    /\ base' = wanted
    /\ wanted' = NoBase

\* The base is paused or deleted: no other base takes its place.
TurnOff ==
    /\ wanted = NoBase
    /\ base' = NoBase
    /\ UNCHANGED wanted

Next == (\E b \in Bases : Want(b)) \/ Drop \/ Select \/ TurnOff

Spec == Init /\ [][Next]_vars
=============================================================================
