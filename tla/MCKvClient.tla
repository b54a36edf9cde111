----------------------------- MODULE MCKvClient -----------------------------
(* A small instance of KvClient for TLC: a put, a get and a deletion of one  *)
(* key.                                                                      *)
EXTENDS KvClient, TLC

CONSTANTS r1, r2, r3, k1, v1

MCCmd ==
    (r1 :> [type |-> "kPut", key |-> k1, val |-> v1]) @@
    (r2 :> [type |-> "kGet", key |-> k1, val |-> v1]) @@
    (r3 :> [type |-> "kDel", key |-> k1, val |-> v1])
=============================================================================
