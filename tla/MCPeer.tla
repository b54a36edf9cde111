------------------------------- MODULE MCPeer -------------------------------
(* Small instances of Peer for TLC. *)
EXTENDS Peer, TLC

CONSTANTS r1, r2, r3, f1, k1, v1, v2

MCEntry == [term : 1..MaxTerm, data : Request \cup {NoOp}]

\* Logs as a group of Raft peers builds them: terms grow, and the first entry
\* of a term is the empty one its leader starts with; a request is sent once.
WellFormed(l) ==
    /\ \A i \in DOMAIN l :
          LET before == IF i = 1 THEN 0 ELSE l[i - 1].term
          IN  IF l[i].data = NoOp THEN l[i].term > before ELSE l[i].term = before
    /\ \A i, j \in DOMAIN l : l[i].data = l[j].data => i = j \/ l[i].data = NoOp

MCLogs ==
    LET all == UNION {[1..n -> MCEntry] : n \in 1..MaxLog}
    IN  {SubSeq(l, 1, Len(l)) : l \in {l \in all : WellFormed(l)}}

Put(k, v) == [type |-> "kPut", key |-> k, val |-> v]
Get(k) == [type |-> "kGet", key |-> k, val |-> v1]
Del(k) == [type |-> "kDel", key |-> k, val |-> v1]
Invalid == [type |-> "kInvalid", key |-> k1, val |-> v1]

\* A write, a read and a deletion of one key.
CmdPutGetDel == (r1 :> Put(k1, v1)) @@ (r2 :> Get(k1)) @@ (r3 :> Del(k1))

\* A write, a read and a request whose type is not set.
CmdPutGetInvalid == (r1 :> Put(k1, v1)) @@ (r2 :> Get(k1)) @@ (r3 :> Invalid)

\* The same and, proposed through another peer, an overwrite.
CmdOverwrite == CmdPutGetInvalid @@ (f1 :> Put(k1, v2))
=============================================================================
