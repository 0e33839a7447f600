----------------------------- MODULE MCDelivery ----------------------------
(***************************************************************************)
(* Small instances of Delivery: two keys, two unresolved groups at most,   *)
(* and enough restarts for a checkpoint to be taken, used and taken again. *)
(***************************************************************************)
EXTENDS Delivery

CONSTANTS i1, i2

Record(i, type, bytes) ==
    [kind |-> "record", key |-> [id |-> i, node |-> None], type |-> type, bytes |-> bytes]

Ones == [x \in Id |-> 1]
NoAuditTime == [x \in Id |-> None]
NoNodes == [x \in Node |-> 1]

CrashLines ==
    {Record(i, "data", 1) : i \in {i1, i2}}
        \cup {Record(i1, "eoe", 1), [kind |-> "uncorrelated"],
              [kind |-> "oversize", key |-> [id |-> i1, node |-> None]]}
=============================================================================
