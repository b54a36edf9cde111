------------------------------ MODULE Recovery ------------------------------
(***************************************************************************)
(* A host that stops and is started again.  leveldb keeps what the host    *)
(* executed, Raft's log does not (MemoryStorage) and applied starts at 0   *)
(* (peer.cc:35): the peer executes the group's log from its first entry    *)
(* once more, over a database that already holds later writes.  leveldb    *)
(* writes without sync (disk_storage.cc:42): a killed process loses        *)
(* nothing, a machine that loses power the writes since some moment.       *)
(*                                                                         *)
(* The committed log is the group's.  As long as other hosts run they keep *)
(* it and send it again; when all are down it is gone, and the group       *)
(* starts with an empty log over the databases that are there.  In between *)
(* lies what is left out: a restart also forgets votes and entries only a  *)
(* bare majority held, and no code here handles either.                    *)
(***************************************************************************)
EXTENDS KvOps, Sequences

CONSTANTS MaxLog,     \* bound: entries committed
          MaxStops,   \* bound: times the host stops
          MaxLives    \* bound: times the whole group is started again

ASSUME DataAssumption == NoOp \notin Request
ASSUME StopBounds == MaxLog \in Nat /\ MaxStops \in Nat /\ MaxLives \in Nat

VARIABLES
    log,     \* the data of the group's committed entries
    up,      \* the host runs
    cur,     \* entries of log executed since it was started
    kv_db,   \* kv_db_
    disk,    \* the contents of the data directory after a loss of power
    stops,
    lives,   \* times the whole group was started again
    \* --- history
    high,    \* entries of log executed by any incarnation
    reads    \* what Get entries found, by index

vars == <<log, up, cur, kv_db, disk, stops, lives, high, reads>>

Init ==
    /\ log = << >> /\ up = TRUE /\ cur = 0
    /\ kv_db = EmptyDb /\ disk = EmptyDb
    /\ stops = 0 /\ lives = 0 /\ high = 0 /\ reads = {}

\* Raft commits another entry, here or elsewhere.
Commit ==
    /\ Len(log) < MaxLog
    /\ \E d \in Request \cup {NoOp} : log' = Append(log, d)
    /\ UNCHANGED <<up, cur, kv_db, disk, stops, lives, high, reads>>

\* Peer::ProcessNormal of entry d, without the clients.
Execute(d) ==
    /\ kv_db' = IF Skips(d) THEN kv_db ELSE Apply(kv_db, Cmd[d])
    /\ reads' = IF TypeOf(d) = "kGet"
                THEN reads \cup {[index |-> cur + 1, value |-> kv_db[Cmd[d].key]]}
                ELSE reads
    /\ cur' = cur + 1
    /\ high' = IF cur' > high THEN cur' ELSE high
    /\ UNCHANGED <<up, stops>>

ProcessEntry ==
    /\ up /\ cur < Len(log)
    /\ LET d == log[cur + 1]
           aborts == ~Skips(d) /\ Aborts(kv_db, Cmd[d])
       IN  \/ ~aborts /\ Execute(d)
           \/ /\ aborts /\ stops < MaxStops
              /\ up' = FALSE /\ stops' = stops + 1
              /\ UNCHANGED <<cur, kv_db, high, reads>>
    /\ UNCHANGED <<log, disk, lives>>

\* What leveldb has handed to the system gets to the disk.
WriteBack ==
    /\ disk' = kv_db
    /\ UNCHANGED <<log, up, cur, kv_db, stops, lives, high, reads>>

\* The process is killed or aborted by an error of leveldb, or the machine loses
\* power.
Stop ==
    /\ up /\ stops < MaxStops
    /\ up' = FALSE /\ stops' = stops + 1
    /\ kv_db' \in {kv_db, disk}
    /\ UNCHANGED <<log, cur, disk, lives, high, reads>>

\* Faulty variants: the applied index survives; it is taken for the next one to
\* execute; the log is taken to start with a snapshot; leveldb is opened with
\* error_if_exists.
RestartAt(n) ==
    /\ ~up /\ up' = TRUE /\ cur' = n
    /\ UNCHANGED <<log, kv_db, disk, stops, lives, high, reads>>
RestartRemembering == RestartAt(high)
RestartPastLast == RestartAt(IF high < Len(log) THEN high + 1 ELSE high)
RestartAfterFirst == RestartAt(IF high > 0 THEN 1 ELSE 0)
RestartFresh == kv_db = EmptyDb /\ RestartAt(0)

\* main builds the peer again: an empty MemoryStorage, c.applied = 0, and the
\* leveldb that is there.  The hosts that still run send it the log again.
Restart ==
    /\ ~up /\ up' = TRUE /\ cur' = 0
    /\ UNCHANGED <<log, kv_db, disk, stops, lives, high, reads>>

\* The same when no host was left, each having been stopped or killed by the
\* entry it executed: the log was in nothing but the MemoryStorage of each.
RestartGroup ==
    /\ ~up /\ lives < MaxLives
    /\ up' = TRUE /\ cur' = 0 /\ lives' = lives + 1
    /\ log' = << >> /\ high' = 0 /\ reads' = {}
    /\ UNCHANGED <<kv_db, disk, stops>>

Next == Commit \/ ProcessEntry \/ WriteBack \/ Stop \/ Restart \/ RestartGroup

Spec == Init /\ [][Next]_vars

\* The timer runs the peer; whoever operates the host starts it again.
FairSpec == Spec /\ WF_vars(ProcessEntry) /\ WF_vars(Restart)

-----------------------------------------------------------------------------
\* The host never counts more entries as executed than the group committed.
RecoveryTypeOK ==
    /\ log \in Seq(Request \cup {NoOp}) /\ Len(log) <= MaxLog
    /\ up \in BOOLEAN /\ kv_db \in Db /\ disk \in Db
    /\ high \in 0..Len(log) /\ cur \in 0..high
    /\ stops \in 0..MaxStops /\ lives \in 0..MaxLives
    /\ reads \subseteq [index : 1..high, value : Val]

\* v is what the first n entries leave under k.  Once the whole group was
\* started again, a key that none of them writes may hold anything: whatever
\* this host's database kept of a log that is gone.
Leaves(n, k, v) ==
    \/ ValueAfter(log, n, k, v)
    \/ lives > 0 /\ \A i \in 1..n : ~Sets(log[i], k)

\* A host that has executed as far as any of its incarnations did has the
\* database of a host that never stopped, whenever and however often it
\* stopped and whatever writes a loss of power took: starting over at 0 is what
\* makes writing without sync harmless.  Of a log that is gone nothing is left
\* under the keys that the new one writes.
Converges ==
    up /\ cur = high => \A k \in Key : Leaves(cur, k, kv_db[k])

\* A Get entry executed again, over a database that holds later writes, finds
\* what the entries before it leave, as it did the first time: a key that they
\* do not leave has stopped the host there (disk_storage.cc:35) before anything
\* later could be written.  After a start of the whole group this is so for the
\* Gets that a write of the new log precedes.
ReadsFollowLog ==
    \A x \in reads : Leaves(x.index - 1, Cmd[log[x.index]].key, x.value)

\* Entry i may kill the host: it is of a type nobody knows, or reads a key that
\* the entries before it do not leave in the database.
Blocks(i) ==
    \/ TypeOf(log[i]) = "unknown"
    \/ TypeOf(log[i]) = "kGet" /\ ValueAfter(log, i - 1, Cmd[log[i]].key, NoVal)

\* A host that is always started again catches up with the group, unless such
\* an entry is in its way.
CatchesUp ==
    []<>((up /\ cur = Len(log)) \/ \E i \in 1..Len(log) : Blocks(i))
=============================================================================
