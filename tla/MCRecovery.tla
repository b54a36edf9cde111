----------------------------- MODULE MCRecovery -----------------------------
(* A small instance of Recovery for TLC: two writes, a deletion and a read of *)
(* one key, a write of another and a request of a type nobody knows, in every *)
(* order and repeated at will.                                                *)
EXTENDS Recovery, TLC

CONSTANTS r1, r2, r3, r4, r5, r6, k1, k2, v1, v2

MCCmd ==
    (r1 :> [type |-> "kPut", key |-> k1, val |-> v1]) @@
    (r2 :> [type |-> "kPut", key |-> k1, val |-> v2]) @@
    (r3 :> [type |-> "kDel", key |-> k1, val |-> v1]) @@
    (r4 :> [type |-> "kGet", key |-> k1, val |-> v1]) @@
    (r5 :> [type |-> "kPut", key |-> k2, val |-> v1]) @@
    (r6 :> [type |-> "unknown", key |-> k1, val |-> v1])
=============================================================================
