------------------------------- MODULE KvOps -------------------------------
(***************************************************************************)
(* The commands of pb/kv_op.proto and what they do to a peer's DiskStorage *)
(* (a leveldb database).  A request is a model value; Cmd gives the KvReq  *)
(* it carries.  The database is a function from keys to values, NoVal      *)
(* standing for a key leveldb does not hold.                               *)
(***************************************************************************)
EXTENDS Naturals

CONSTANTS Key, Val,
          NoVal,     \* "leveldb has no such key"
          Request,   \* every KvReq sent to the group: nobody checks its type
          Cmd,       \* Cmd[r]: the command request r carries
          NoOp       \* data of the empty entry a new leader appends

\* kInvalid is the type of a KvReq that sets none; "unknown" stands for the
\* numbers that proto3 lets through besides these (an enum of it is open).
CmdType == {"kInvalid", "kGet", "kPut", "kDel", "unknown"}

Command == [type : CmdType, key : Key, val : Val]

ASSUME NoValAssumption == NoVal \notin Val
ASSUME CmdAssumption == Cmd \in [Request -> Command]

Db == [Key -> Val \cup {NoVal}]

\* A data directory leveldb has just created.
EmptyDb == [k \in Key |-> NoVal]

\* DiskStorage::Get: leveldb's NotFound is a status that is not ok, and the
\* process dies in JLOG_FATAL.
GetAborts(db, c) == c.type = "kGet" /\ db[c.key] = NoVal

\* req.cmd_type() of entry data d, and the data that ProcessNormal passes over:
\* the empty entry parses as a KvReq of the default type, which a client's
\* request may have too.
TypeOf(d) == IF d = NoOp THEN "kInvalid" ELSE Cmd[d].type
Skips(d) == TypeOf(d) = "kInvalid"

\* Executing c kills the process, in DiskStorage::Get or at "should not come
\* here.".
Aborts(db, c) == c.type = "unknown" \/ GetAborts(db, c)

\* DiskStorage::Put and DiskStorage::Del (deleting an absent key succeeds);
\* a Get leaves the database alone.
Apply(db, c) ==
    CASE c.type = "kPut" -> [db EXCEPT ![c.key] = c.val]
      [] c.type = "kDel" -> [db EXCEPT ![c.key] = NoVal]
      [] OTHER -> db

\* The KvResp a request is answered with: rejected, or done, carrying for a
\* Get the value read (a Put or Del response carries no value).
Rejected == [rejected |-> TRUE, value |-> NoVal]
Done(db, c) == [rejected |-> FALSE,
                value |-> IF c.type = "kGet" THEN db[c.key] ELSE NoVal]
Response == [rejected : BOOLEAN, value : Val \cup {NoVal}]

\* Data d is a write to key k.
Sets(d, k) == d # NoOp /\ Cmd[d].type \in {"kPut", "kDel"} /\ Cmd[d].key = k

\* v is what the last write to k among the first n of the sequence h left.
ValueAfter(h, n, k, v) ==
    \/ v = NoVal /\ \A i \in 1..n : ~Sets(h[i], k)
    \/ \E i \in 1..n :
          /\ Sets(h[i], k)
          /\ \A j \in (i + 1)..n : ~Sets(h[j], k)
          /\ v = IF Cmd[h[i]].type = "kPut" THEN Cmd[h[i]].val ELSE NoVal
=============================================================================
