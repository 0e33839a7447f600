----------------------------- MODULE AtomicFile -----------------------------
(***************************************************************************)
(* What the rest of the collector relies on when it saves a small state    *)
(* document ("atomically replaces path after syncing file data and the     *)
(* containing directory", collector/checkpoint.go): the path holds one     *)
(* whole value, a save replaces it by a newer one in one step, and what is *)
(* found after a power failure is that value or one it has just replaced,  *)
(* until the save is settled.                                              *)
(***************************************************************************)
EXTENDS Integers

CONSTANT Value   \* numbered in the order of the positions they stand for

VARIABLES
    value,       \* what a reader finds
    possible     \* what a reader may find after a power failure

vars == <<value, possible>>

Init == value \in Value /\ possible = {value}

Replace(v) ==
    /\ v > value
    /\ value' = v
    /\ possible' = possible \cup {v}

Settle == possible' = {value} /\ UNCHANGED value

PowerFailure ==
    /\ value' \in possible
    /\ possible' = {value'}

Next == (\E v \in Value : Replace(v)) \/ Settle \/ PowerFailure
Spec == Init /\ [][Next]_vars
=============================================================================
