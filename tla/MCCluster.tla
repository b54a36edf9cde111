----------------------------- MODULE MCCluster -----------------------------
(* Small instances of Cluster for TLC. *)
EXTENDS Cluster, TLC

CONSTANTS r1, r2, h1, h2, h3, k1, v1

\* A write through one host and a read through another.
MCCmd == (r1 :> [type |-> "kPut", key |-> k1, val |-> v1]) @@
         (r2 :> [type |-> "kGet", key |-> k1, val |-> v1])
MCLeader == <<h1, h2>>
MCHome == (r1 :> h1) @@ (r2 :> h2)
=============================================================================
