--------------------------- MODULE RecoveryProofs ---------------------------
(***************************************************************************)
(* Restarts are harmless to the database, for every log, any set of keys   *)
(* and any number of stops; what a start of the whole group leaves over,   *)
(* too.                                                                    *)
(***************************************************************************)
EXTENDS Recovery, TLAPS

\* Key k was written among the first n entries.
Written(n, k) == \E i \in 1..n : Sets(log[i], k)

\* Every key of db holds what some prefix of the executed log left.
FromPrefixes(db) ==
    \A k \in Key : \E m \in 0..high : Leaves(m, k, db[k])

\* What this incarnation has written is as it should be; the keys it has not
\* come to may hold what an earlier one wrote later in the log.
CurrentInv ==
    up => \A k \in Key : Written(cur, k) => ValueAfter(log, cur, k, kv_db[k])

\* Entry i reads a key that the entries before it do not leave.
Missing(i) ==
    /\ TypeOf(log[i]) = "kGet"
    /\ ValueAfter(log, i - 1, Cmd[log[i]].key, NoVal)

\* As long as the log is the group's first, no incarnation gets past an entry
\* that reads a missing key: whoever aborted there aborts there again.
FirstLifeInv == lives = 0 => \A i \in 1..high : ~Missing(i)

RecoveryInv ==
    /\ RecoveryTypeOK
    /\ FromPrefixes(kv_db) /\ FromPrefixes(disk)
    /\ CurrentInv
    /\ ReadsFollowLog
    /\ FirstLifeInv

-----------------------------------------------------------------------------
\* A prefix leaves one value.
LEMMA ValueUnique ==
    ASSUME NEW h, NEW n \in Nat, NEW k, NEW v, NEW w,
           ValueAfter(h, n, k, v), ValueAfter(h, n, k, w)
    PROVE  v = w
<1>1. CASE \A i \in 1..n : ~Sets(h[i], k)
  BY <1>1 DEF ValueAfter
<1>2. ASSUME NEW i \in 1..n, Sets(h[i], k) PROVE v = w
  <2>1. PICK a \in 1..n :
          /\ Sets(h[a], k) /\ \A j \in (a + 1)..n : ~Sets(h[j], k)
          /\ v = IF Cmd[h[a]].type = "kPut" THEN Cmd[h[a]].val ELSE NoVal
    BY <1>2 DEF ValueAfter
  <2>2. PICK b \in 1..n :
          /\ Sets(h[b], k) /\ \A j \in (b + 1)..n : ~Sets(h[j], k)
          /\ w = IF Cmd[h[b]].type = "kPut" THEN Cmd[h[b]].val ELSE NoVal
    BY <1>2 DEF ValueAfter
  <2>3. ~(a < b) /\ ~(b < a)
    <3>1. a < b => b \in (a + 1)..n
      OBVIOUS
    <3>2. b < a => a \in (b + 1)..n
      OBVIOUS
    <3> QED
      BY <2>1, <2>2, <3>1, <3>2
  <2>4. a = b
    BY <2>3
  <2> QED
    BY <2>1, <2>2, <2>4
<1> QED
  BY <1>1, <1>2

\* A prefix's value depends on the prefix only.
LEMMA ValueOfPrefix ==
    ASSUME NEW h, NEW g, NEW n \in Nat, NEW k, NEW v,
           \A i \in 1..n : h[i] = g[i], ValueAfter(h, n, k, v)
    PROVE  ValueAfter(g, n, k, v)
<1>1. CASE v = NoVal /\ \A i \in 1..n : ~Sets(h[i], k)
  BY <1>1 DEF ValueAfter
<1>2. ASSUME NEW i \in 1..n, Sets(h[i], k), \A j \in (i + 1)..n : ~Sets(h[j], k),
             v = IF Cmd[h[i]].type = "kPut" THEN Cmd[h[i]].val ELSE NoVal
      PROVE  ValueAfter(g, n, k, v)
  <2>1. \A j \in (i + 1)..n : j \in 1..n
    OBVIOUS
  <2> QED
    BY <1>2, <2>1 DEF ValueAfter
<1> QED
  BY <1>1, <1>2 DEF ValueAfter

\* An entry that does not write k leaves its value alone.
LEMMA ValueUnchanged ==
    ASSUME NEW h, NEW n \in Nat, NEW k, NEW v, ValueAfter(h, n, k, v),
           ~Sets(h[n + 1], k)
    PROVE  ValueAfter(h, n + 1, k, v)
<1>1. \A i \in 1..(n + 1) : i \in 1..n \/ i = n + 1
  OBVIOUS
<1>2. CASE v = NoVal /\ \A i \in 1..n : ~Sets(h[i], k)
  BY <1>1, <1>2 DEF ValueAfter
<1>3. ASSUME NEW i \in 1..n, Sets(h[i], k), \A j \in (i + 1)..n : ~Sets(h[j], k),
             v = IF Cmd[h[i]].type = "kPut" THEN Cmd[h[i]].val ELSE NoVal
      PROVE  ValueAfter(h, n + 1, k, v)
  <2>1. \A j \in (i + 1)..(n + 1) : j \in (i + 1)..n \/ j = n + 1
    OBVIOUS
  <2>2. i \in 1..(n + 1)
    OBVIOUS
  <2> QED
    BY <1>3, <2>1, <2>2 DEF ValueAfter
<1> QED
  BY <1>2, <1>3 DEF ValueAfter

\* A key that no prefix entry writes is not there.
LEMMA ValueUnwritten ==
    ASSUME NEW h, NEW n \in Nat, NEW k, NEW v, ValueAfter(h, n, k, v),
           \A i \in 1..n : ~Sets(h[i], k)
    PROVE  v = NoVal
BY DEF ValueAfter

\* An entry that writes k determines its value.
LEMMA ValueWritten ==
    ASSUME NEW h, NEW n \in Nat, NEW k \in Key, NEW db \in Db,
           Sets(h[n + 1], k), h[n + 1] \in Request
    PROVE  ValueAfter(h, n + 1, k, Apply(db, Cmd[h[n + 1]])[k])
<1>1. Cmd[h[n + 1]] \in Command
  BY CmdAssumption
<1>2. /\ Cmd[h[n + 1]].type \in {"kPut", "kDel"} /\ Cmd[h[n + 1]].key = k
  BY DEF Sets
<1>3. Apply(db, Cmd[h[n + 1]])[k]
        = IF Cmd[h[n + 1]].type = "kPut" THEN Cmd[h[n + 1]].val ELSE NoVal
  BY <1>1, <1>2 DEF Apply, Db
<1>4. n + 1 \in 1..(n + 1) /\ \A j \in ((n + 1) + 1)..(n + 1) : FALSE
  OBVIOUS
<1> QED
  BY <1>3, <1>4 DEF ValueAfter

\* A command leaves the keys it does not write alone.
LEMMA ApplyElsewhere ==
    ASSUME NEW d \in Request, NEW db \in Db, NEW k \in Key, ~Sets(d, k)
    PROVE  Apply(db, Cmd[d])[k] = db[k]
<1>1. Cmd[d] \in Command
  BY CmdAssumption
<1>2. Cmd[d].type \notin {"kPut", "kDel"} \/ Cmd[d].key # k
  BY DataAssumption DEF Sets
<1> QED
  BY <1>1, <1>2 DEF Apply, Db

LEMMA ApplyType ==
    ASSUME NEW d \in Request, NEW db \in Db
    PROVE  Apply(db, Cmd[d]) \in Db
<1>1. Cmd[d] \in Command
  BY CmdAssumption
<1> QED
  BY <1>1 DEF Apply, Db, Command

\* What ProcessNormal does not pass over is a client's request.
LEMMA SkipsFacts ==
    ASSUME NEW d \in Request \cup {NoOp}
    PROVE  /\ ~Skips(d) => d \in Request /\ Cmd[d] \in Command
           /\ TypeOf(d) = "kGet" => ~Skips(d) /\ d \in Request /\ Cmd[d].type = "kGet"
           /\ \A k : Sets(d, k) => ~Skips(d)
BY CmdAssumption, DataAssumption DEF Skips, TypeOf, Sets
-----------------------------------------------------------------------------
LEMMA RecoveryInit == Init => RecoveryInv
<1> SUFFICES ASSUME Init PROVE RecoveryInv
  OBVIOUS
<1>1. EmptyDb \in Db
  BY DEF EmptyDb, Db
<1>2. RecoveryTypeOK
  BY <1>1, StopBounds DEF Init, RecoveryTypeOK
<1>3. FromPrefixes(EmptyDb)
  <2>1. ASSUME NEW k \in Key PROVE 0 \in 0..high /\ Leaves(0, k, EmptyDb[k])
    BY <2>1 DEF Init, Leaves, ValueAfter, EmptyDb
  <2> QED
    BY <2>1 DEF FromPrefixes
<1> QED
  BY <1>2, <1>3 DEF Init, RecoveryInv, CurrentInv, Written, ReadsFollowLog, FirstLifeInv

\* A longer log changes nothing: all is said of what was executed.
LEMMA CommitStep ==
    ASSUME RecoveryInv, Commit
    PROVE  RecoveryInv'
<1>1. PICK d \in Request \cup {NoOp} : log' = Append(log, d)
  BY DEF Commit
<1>2. /\ log \in Seq(Request \cup {NoOp}) /\ high \in 0..Len(log) /\ cur \in 0..high
      /\ Len(log) \in Nat /\ Len(log) < MaxLog
      /\ reads \subseteq [index : 1..high, value : Val]
  BY DEF RecoveryInv, RecoveryTypeOK, Commit
<1>3. /\ Len(log') = Len(log) + 1 /\ \A i \in 1..Len(log) : log'[i] = log[i]
      /\ log' \in Seq(Request \cup {NoOp})
  BY <1>1, <1>2
<1>4. UNCHANGED <<up, cur, kv_db, disk, stops, lives, high, reads>>
  BY DEF Commit
<1>5. ASSUME NEW n \in 0..high, NEW k, NEW v
      PROVE  /\ ValueAfter(log, n, k, v) <=> ValueAfter(log', n, k, v)
             /\ Leaves(n, k, v) <=> Leaves(n, k, v)'
  <2>1. n \in Nat /\ \A i \in 1..n : log[i] = log'[i] /\ log'[i] = log[i]
    BY <1>2, <1>3, <1>5
  <2>2. ValueAfter(log, n, k, v) <=> ValueAfter(log', n, k, v)
    BY <2>1, ValueOfPrefix
  <2> QED
    BY <1>4, <2>1, <2>2 DEF Leaves
<1>6. RecoveryTypeOK'
  BY <1>2, <1>3, <1>4, StopBounds DEF RecoveryInv, RecoveryTypeOK
<1>7. FromPrefixes(kv_db)' /\ FromPrefixes(disk)'
  BY <1>4, <1>5 DEF RecoveryInv, FromPrefixes
<1>8. CurrentInv'
  <2>1. ASSUME NEW k PROVE Written(cur, k)' => Written(cur, k)
    BY <1>2, <1>3, <1>4 DEF Written
  <2>2. cur \in 0..high
    BY <1>2
  <2> QED
    BY <1>4, <1>5, <2>1, <2>2 DEF RecoveryInv, CurrentInv
<1>9. ReadsFollowLog'
  <2> SUFFICES ASSUME NEW x \in reads
               PROVE  Leaves(x.index - 1, Cmd[log[x.index]].key, x.value)'
    BY <1>4 DEF ReadsFollowLog
  <2>1. x.index \in 1..high /\ x.index - 1 \in 0..high /\ log'[x.index] = log[x.index]
    BY <1>2, <1>3
  <2>2. PICK k : k = Cmd[log[x.index]].key
    OBVIOUS
  <2>3. Leaves(x.index - 1, k, x.value)
    BY <2>2 DEF RecoveryInv, ReadsFollowLog
  <2>4. Leaves(x.index - 1, k, x.value)'
    BY <1>5, <2>1, <2>3
  <2> QED
    BY <2>1, <2>2, <2>4
<1>10. FirstLifeInv'
  <2> SUFFICES ASSUME lives = 0, NEW i \in 1..high, Missing(i)' PROVE FALSE
    BY <1>4 DEF FirstLifeInv
  <2>1. i - 1 \in 0..high /\ log'[i] = log[i]
    BY <1>2, <1>3
  <2>2. Missing(i)
    BY <1>5, <2>1 DEF Missing
  <2> QED
    BY <2>2 DEF RecoveryInv, FirstLifeInv
<1> QED
  BY <1>6, <1>7, <1>8, <1>9, <1>10 DEF RecoveryInv

\* A Get that does not abort finds what the entries before it left: if none of
\* them wrote its key, no later one ever did, for nobody got past this entry,
\* or the value is left over from a log that is gone.
LEMMA GetFinds ==
    ASSUME RecoveryInv, up, cur < Len(log), TypeOf(log[cur + 1]) = "kGet",
           kv_db[Cmd[log[cur + 1]].key] # NoVal
    PROVE  LET k == Cmd[log[cur + 1]].key
           IN  Leaves(cur, k, kv_db[k])
<1> DEFINE k == Cmd[log[cur + 1]].key
<1>1. /\ log \in Seq(Request \cup {NoOp}) /\ high \in 0..Len(log) /\ cur \in 0..high
      /\ Len(log) \in Nat /\ lives \in Nat
  BY DEF RecoveryInv, RecoveryTypeOK
<1>2. log[cur + 1] \in Request /\ k \in Key
  <2>1. cur + 1 \in 1..Len(log)
    BY <1>1
  <2>2. log[cur + 1] \in Request
    BY <1>1, <2>1, SkipsFacts
  <2> QED
    BY <2>2, CmdAssumption DEF Command
<1>3. Written(cur, k) \/ lives > 0
  <2> SUFFICES ASSUME ~Written(cur, k), lives = 0 PROVE FALSE
    BY <1>1
  <2>1. PICK m \in 0..high : ValueAfter(log, m, k, kv_db[k])
    BY <1>2 DEF RecoveryInv, FromPrefixes, Leaves
  <2>2. PICK j \in 1..m : Sets(log[j], k)
    BY <2>1 DEF ValueAfter
  <2>3. cur + 1 \in 1..high
    <3>1. ~(j \in 1..cur)
      BY <2>2 DEF Written
    <3> QED
      BY <1>1, <2>1, <2>2, <3>1
  <2>4. ValueAfter(log, (cur + 1) - 1, k, NoVal)
    <3>1. (cur + 1) - 1 = cur
      BY <1>1
    <3>2. \A i \in 1..cur : ~Sets(log[i], k)
      BY DEF Written
    <3> QED
      BY <3>1, <3>2 DEF ValueAfter
  <2>5. Missing(cur + 1)
    BY <2>4 DEF Missing
  <2> QED
    BY <2>3, <2>5 DEF RecoveryInv, FirstLifeInv
<1>4. CASE Written(cur, k)
  BY <1>2, <1>4 DEF RecoveryInv, CurrentInv, Leaves
<1>5. CASE ~Written(cur, k)
  BY <1>3, <1>5 DEF Written, Leaves
<1> QED
  BY <1>4, <1>5

LEMMA ExecuteStep ==
    ASSUME RecoveryInv, up, cur < Len(log), UNCHANGED <<log, disk, lives>>,
           Execute(log[cur + 1]),
           Skips(log[cur + 1]) \/ ~Aborts(kv_db, Cmd[log[cur + 1]])
    PROVE  RecoveryInv'
<1> DEFINE d == log[cur + 1]
           k0 == Cmd[d].key
           isGet == TypeOf(d) = "kGet"
<1>1. /\ log \in Seq(Request \cup {NoOp}) /\ high \in 0..Len(log) /\ cur \in 0..high
      /\ Len(log) \in Nat /\ kv_db \in Db /\ cur + 1 \in 1..Len(log)
      /\ cur \in Nat /\ high \in Nat
  BY DEF RecoveryInv, RecoveryTypeOK
<1>2. /\ d \in Request \cup {NoOp}
      /\ ~Skips(d) => d \in Request /\ Cmd[d] \in Command
      /\ isGet => ~Skips(d) /\ Cmd[d].type = "kGet"
      /\ \A k : Sets(d, k) => ~Skips(d)
  BY <1>1, SkipsFacts
<1>3. /\ kv_db' = IF Skips(d) THEN kv_db ELSE Apply(kv_db, Cmd[d])
      /\ reads' = IF isGet THEN reads \cup {[index |-> cur + 1, value |-> kv_db[k0]]}
                  ELSE reads
      /\ cur' = cur + 1 /\ up' = up /\ stops' = stops
      /\ high' = IF cur' > high THEN cur' ELSE high
  BY DEF Execute
<1>4. /\ high' \in 0..Len(log) /\ high <= high' /\ cur' \in 0..high' /\ high' \in Nat
      /\ high' = high \/ high' = cur + 1
  BY <1>1, <1>3
<1>5. kv_db' \in Db
  BY <1>1, <1>2, <1>3, ApplyType
<1>6. isGet => /\ kv_db[k0] # NoVal /\ kv_db[k0] \in Val /\ kv_db' = kv_db
               /\ Leaves(cur, k0, kv_db[k0])
  <2> SUFFICES ASSUME isGet
               PROVE  /\ kv_db[k0] # NoVal /\ kv_db[k0] \in Val /\ kv_db' = kv_db
                      /\ Leaves(cur, k0, kv_db[k0])
    OBVIOUS
  <2>1. kv_db[k0] # NoVal /\ k0 \in Key
    BY <1>2 DEF Aborts, GetAborts, Command
  <2>2. kv_db' = kv_db
    BY <1>2, <1>3 DEF Apply
  <2>3. kv_db[k0] \in Val
    BY <1>1, <2>1 DEF Db
  <2> QED
    BY <2>1, <2>2, <2>3, GetFinds
<1>7. ASSUME NEW k \in Key, ~Sets(d, k) PROVE kv_db'[k] = kv_db[k]
  BY <1>1, <1>2, <1>3, <1>7, ApplyElsewhere
<1>8. ASSUME NEW k \in Key, Sets(d, k) PROVE ValueAfter(log, cur + 1, k, kv_db'[k])
  <2>1. d \in Request /\ ~Skips(d)
    BY <1>2, <1>8
  <2>2. kv_db' = Apply(kv_db, Cmd[d])
    BY <1>3, <2>1
  <2> QED
    BY <1>1, <1>8, <2>1, <2>2, ValueWritten
<1>9. RecoveryTypeOK'
  <2>1. reads' \subseteq [index : 1..high', value : Val]
    <3>1. reads \subseteq [index : 1..high, value : Val]
      BY DEF RecoveryInv, RecoveryTypeOK
    <3>2. \A i \in 1..high : i \in 1..high'
      BY <1>1, <1>4
    <3>3. cur + 1 \in 1..high'
      BY <1>1, <1>3, <1>4
    <3> QED
      BY <1>3, <1>6, <3>1, <3>2, <3>3
  <2> QED
    BY <1>3, <1>4, <1>5, <2>1 DEF RecoveryInv, RecoveryTypeOK
<1>10. FromPrefixes(kv_db)' /\ FromPrefixes(disk)'
  <2>1. \A m \in 0..high : m \in 0..high'
    BY <1>1, <1>4
  <2>2. cur + 1 \in 0..high'
    BY <1>1, <1>3, <1>4
  <2>3. ASSUME NEW m, NEW k, NEW v PROVE Leaves(m, k, v)' <=> Leaves(m, k, v)
    BY DEF Leaves
  <2>4. ASSUME NEW k \in Key PROVE \E m \in 0..high' : Leaves(m, k, kv_db'[k])
    <3>1. CASE Sets(d, k)
      BY <1>8, <2>2, <3>1 DEF Leaves
    <3>2. CASE ~Sets(d, k)
      BY <1>7, <2>1, <3>2 DEF RecoveryInv, FromPrefixes
    <3> QED
      BY <3>1, <3>2
  <2>5. ASSUME NEW k \in Key PROVE \E m \in 0..high' : Leaves(m, k, disk[k])
    BY <2>1 DEF RecoveryInv, FromPrefixes
  <2> QED
    BY <2>3, <2>4, <2>5 DEF FromPrefixes
<1>11. CurrentInv'
  <2> SUFFICES ASSUME NEW k \in Key, Written(cur, k)'
               PROVE  ValueAfter(log, cur + 1, k, kv_db'[k])
    BY <1>3 DEF CurrentInv
  <2>1. CASE Sets(d, k)
    BY <1>8, <2>1
  <2>2. CASE ~Sets(d, k)
    <3>1. Written(cur, k)
      <4>1. PICK i \in 1..(cur + 1) : Sets(log[i], k)
        BY <1>3 DEF Written
      <4>2. i \in 1..cur
        BY <1>1, <2>2, <4>1
      <4> QED
        BY <4>1, <4>2 DEF Written
    <3>2. ValueAfter(log, cur, k, kv_db[k])
      BY <3>1 DEF RecoveryInv, CurrentInv
    <3> QED
      BY <1>1, <1>7, <2>2, <3>2, ValueUnchanged
  <2> QED
    BY <2>1, <2>2
<1>12. ReadsFollowLog'
  <2> SUFFICES ASSUME NEW x \in reads'
               PROVE  Leaves(x.index - 1, Cmd[log[x.index]].key, x.value)
    BY DEF ReadsFollowLog, Leaves
  <2>1. CASE x \in reads
    BY <2>1 DEF RecoveryInv, ReadsFollowLog
  <2>2. CASE isGet /\ x = [index |-> cur + 1, value |-> kv_db[k0]]
    <3>1. x.index = cur + 1 /\ x.value = kv_db[k0] /\ (cur + 1) - 1 = cur
      BY <1>1, <2>2
    <3> QED
      BY <1>6, <2>2, <3>1
  <2> QED
    BY <1>3, <2>1, <2>2
<1>13. FirstLifeInv'
  <2> SUFFICES ASSUME lives = 0, NEW i \in 1..high', Missing(i)' PROVE FALSE
    BY DEF FirstLifeInv
  <2>1. Missing(i)
    BY DEF Missing
  <2>2. i \in 1..high \/ i = cur + 1
    BY <1>1, <1>4
  <2>3. ASSUME i = cur + 1 PROVE FALSE
    <3>1. isGet /\ ValueAfter(log, cur, k0, NoVal)
      <4>1. (cur + 1) - 1 = cur
        BY <1>1
      <4> QED
        BY <2>1, <2>3, <4>1 DEF Missing
    <3>2. ValueAfter(log, cur, k0, kv_db[k0])
      BY <1>6, <3>1 DEF Leaves
    <3> QED
      BY <1>1, <1>6, <3>1, <3>2, ValueUnique
  <2> QED
    BY <2>1, <2>2, <2>3 DEF RecoveryInv, FirstLifeInv
<1> QED
  BY <1>9, <1>10, <1>11, <1>12, <1>13 DEF RecoveryInv

\* An entry that aborts, a stop, a start and a write-back touch little.
LEMMA RestStep ==
    ASSUME RecoveryInv,
           UNCHANGED <<log, lives, high, reads>>, cur' \in {0, cur}, up' \in BOOLEAN,
           stops' \in 0..MaxStops,
           kv_db' \in {kv_db, disk}, disk' \in {kv_db, disk},
           up' /\ cur' # 0 => up /\ kv_db' = kv_db
    PROVE  RecoveryInv'
<1>1. high \in 0..Len(log) /\ Len(log) \in Nat /\ cur \in 0..high
  BY DEF RecoveryInv, RecoveryTypeOK
<1>2. RecoveryTypeOK'
  BY <1>1 DEF RecoveryInv, RecoveryTypeOK
<1>3. FromPrefixes(kv_db)' /\ FromPrefixes(disk)'
  BY DEF RecoveryInv, FromPrefixes, Leaves
<1>4. CurrentInv'
  <2>1. CASE cur' = 0
    BY <2>1 DEF CurrentInv, Written
  <2>2. CASE cur' = cur /\ cur' # 0
    BY <2>2 DEF RecoveryInv, CurrentInv, Written
  <2> QED
    BY <2>1, <2>2
<1>5. ReadsFollowLog' /\ FirstLifeInv'
  BY DEF RecoveryInv, ReadsFollowLog, Leaves, FirstLifeInv, Missing
<1> QED
  BY <1>2, <1>3, <1>4, <1>5 DEF RecoveryInv

\* After a start of the whole group nothing was executed, and any contents of
\* the database are accounted for.
LEMMA GroupStep ==
    ASSUME RecoveryInv, RestartGroup
    PROVE  RecoveryInv'
<1>1. /\ log' = << >> /\ up' = TRUE /\ cur' = 0 /\ high' = 0 /\ reads' = {}
      /\ lives' = lives + 1 /\ lives < MaxLives /\ UNCHANGED <<kv_db, disk, stops>>
  BY DEF RestartGroup
<1>2. lives' \in 0..MaxLives /\ lives' > 0
  BY <1>1, StopBounds DEF RecoveryInv, RecoveryTypeOK
<1>3. RecoveryTypeOK'
  BY <1>1, <1>2, StopBounds DEF RecoveryInv, RecoveryTypeOK
<1>4. ASSUME NEW k, NEW v PROVE 0 \in 0..high' /\ Leaves(0, k, v)'
  BY <1>1, <1>2 DEF Leaves
<1>5. FromPrefixes(kv_db)' /\ FromPrefixes(disk)'
  BY <1>4 DEF FromPrefixes
<1>6. CurrentInv' /\ ReadsFollowLog' /\ FirstLifeInv'
  BY <1>1, <1>2 DEF CurrentInv, Written, ReadsFollowLog, FirstLifeInv
<1> QED
  BY <1>3, <1>5, <1>6 DEF RecoveryInv

LEMMA RecoveryStep == RecoveryInv /\ [Next]_vars => RecoveryInv'
<1> SUFFICES ASSUME RecoveryInv, [Next]_vars PROVE RecoveryInv'
  OBVIOUS
<1>1. stops \in 0..MaxStops /\ up \in BOOLEAN
  BY DEF RecoveryInv, RecoveryTypeOK
<1>2. stops < MaxStops => stops + 1 \in 0..MaxStops
  BY <1>1, StopBounds
<1>3. CASE Commit
  BY <1>3, CommitStep
<1>4. CASE ProcessEntry
  <2>1. CASE /\ Skips(log[cur + 1]) \/ ~Aborts(kv_db, Cmd[log[cur + 1]])
             /\ Execute(log[cur + 1])
    BY <1>4, <2>1, ExecuteStep DEF ProcessEntry
  <2>2. CASE /\ stops < MaxStops /\ up' = FALSE /\ stops' = stops + 1
             /\ UNCHANGED <<cur, kv_db, high, reads>>
    BY <1>2, <1>4, <2>2, RestStep DEF ProcessEntry
  <2> QED
    BY <1>4, <2>1, <2>2 DEF ProcessEntry
<1>5. CASE WriteBack
  BY <1>1, <1>5, RestStep DEF WriteBack
<1>6. CASE Stop
  BY <1>2, <1>6, RestStep DEF Stop
<1>7. CASE Restart
  BY <1>1, <1>7, RestStep DEF Restart
<1>8. CASE RestartGroup
  BY <1>8, GroupStep
<1>9. CASE UNCHANGED vars
  BY <1>1, <1>9, RestStep DEF vars
<1> QED
  BY <1>3, <1>4, <1>5, <1>6, <1>7, <1>8, <1>9 DEF Next

THEOREM RecoveryInvariance == Spec => []RecoveryInv
BY RecoveryInit, RecoveryStep, PTL DEF Spec

-----------------------------------------------------------------------------
\* A restarted host that has come as far as any incarnation before it has the
\* database of a host that never stopped: the keys it has not written are those
\* no executed entry wrote.  Under these, and only these, something may be left
\* over from before a start of the whole group.
THEOREM RestartConverges == Spec => []Converges
<1>1. RecoveryInv => Converges
  <2> SUFFICES ASSUME RecoveryInv, up, cur = high, NEW k \in Key
               PROVE  Leaves(cur, k, kv_db[k])
    BY DEF Converges
  <2>1. CASE Written(cur, k)
    BY <2>1 DEF RecoveryInv, CurrentInv, Leaves
  <2>a. CASE ~Written(cur, k) /\ lives > 0
    BY <2>a DEF Written, Leaves
  <2>2. CASE ~Written(cur, k) /\ ~(lives > 0)
    <3>1. PICK m \in 0..high : ValueAfter(log, m, k, kv_db[k])
      BY <2>2 DEF RecoveryInv, FromPrefixes, Leaves
    <3>2. \A i \in 1..cur : ~Sets(log[i], k)
      BY <2>2 DEF Written
    <3>3. high \in Nat /\ m \in Nat /\ \A i \in 1..m : i \in 1..cur
      BY <3>1 DEF RecoveryInv, RecoveryTypeOK
    <3>4. kv_db[k] = NoVal
      BY <3>1, <3>2, <3>3, ValueUnwritten
    <3> QED
      BY <3>2, <3>4 DEF ValueAfter, Leaves
  <2> QED
    BY <2>1, <2>a, <2>2
<1> QED
  BY <1>1, RecoveryInvariance, PTL

\* A Get entry finds, in every incarnation that executes it, what the entries
\* before it leave, although the database may hold what later ones wrote; it
\* finds something else only after a start of the whole group, under a key that
\* none of them writes.
THEOREM RereadsFollow == Spec => []ReadsFollowLog
<1>1. RecoveryInv => ReadsFollowLog
  BY DEF RecoveryInv
<1> QED
  BY <1>1, RecoveryInvariance, PTL

\* The host never counts more entries as executed than the group committed,
\* whatever it forgets when it stops (applied, peer.cc:35).
THEOREM RecoveryTypes == Spec => []RecoveryTypeOK
<1>1. RecoveryInv => RecoveryTypeOK
  BY DEF RecoveryInv
<1> QED
  BY <1>1, RecoveryInvariance, PTL
=============================================================================
