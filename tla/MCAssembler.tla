---------------------------- MODULE MCAssembler ----------------------------
(***************************************************************************)
(* Small instances of Assembler.  "Isolation": tight limits and no event   *)
(* time, so that every line contends for the same few slots.  "Watermark": *)
(* two producers with event times a reorder window apart, ample limits.    *)
(***************************************************************************)
EXTENDS Assembler, TLC

CONSTANTS i1, i2, i3, i4, n1

Record(i, n, type, bytes) ==
    [kind |-> "record", key |-> [id |-> i, node |-> n], type |-> type, bytes |-> bytes]

Ones(S0) == [x \in S0 |-> 1]
NoAuditTime == [x \in Id |-> None]
AuditTimes == (i1 :> 0) @@ (i2 :> 1) @@ (i3 :> 3) @@ (i4 :> 8)

IsolationLines ==
    {Record(i, None, type, 1) : i \in {i1, i2}, type \in {"data", "eoe"}}
        \cup {Record(i1, None, "proctitle", 2), Record(i3, None, "data", 1)}
        \cup {[kind |-> "oversize", key |-> [id |-> i, node |-> None]] : i \in {i1, i2}}
        \cup {[kind |-> "uncorrelated"]}

WatermarkLines ==
    {Record(i, None, "data", 1) : i \in {i1, i2, i3, i4}}
        \cup {Record(i, n1, "data", 1) : i \in {i1, i3}}
        \cup {Record(i2, None, "single", 1), Record(i1, None, "eoe", 1), [kind |-> "malformed"]}

IdOnes == Ones(Id)
NodeOnes == Ones(Node)
=============================================================================
