---------------------------- MODULE AtLeastOnce ----------------------------
(***************************************************************************)
(* What the collector promises (docs/reliability.md, "Delivery semantics"  *)
(* and "Checkpoint invariants"): lines are appended to a source, evidence  *)
(* becomes durable in any order and possibly more than once, and a durable *)
(* cursor never passes a line whose evidence is not durable and never      *)
(* moves back.  Crashes are invisible at this level.                       *)
(***************************************************************************)
EXTENDS Naturals, Sequences

CONSTANTS
    Line,       \* the lines a source can hold
    Evidence    \* those of them that must be delivered

VARIABLES
    source,     \* the lines written so far
    delivered,  \* numbers of the lines with durable evidence
    cursor      \* a restart continues from this line

vars == <<source, delivered, cursor>>

Init == source = << >> /\ delivered = {} /\ cursor = 1

Append1 ==
    /\ \E line \in Line : source' = Append(source, line)
    /\ UNCHANGED <<delivered, cursor>>

Deliver ==
    /\ delivered \subseteq delivered'
    /\ delivered' \subseteq 1..Len(source)
    /\ UNCHANGED <<source, cursor>>

Passable(c) == \A l \in 1..(c - 1) : source[l] \in Evidence => l \in delivered

Advance ==
    /\ \E c \in cursor..(Len(source) + 1) : Passable(c) /\ cursor' = c
    /\ UNCHANGED <<source, delivered>>

Next == Append1 \/ Deliver \/ Advance

Spec == Init /\ [][Next]_vars
=============================================================================
