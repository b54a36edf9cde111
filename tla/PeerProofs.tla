----------------------------- MODULE PeerProofs -----------------------------
(***************************************************************************)
(* Theorems about Peer, for every set of requests, commands and logs and   *)
(* every bound.                                                            *)
(***************************************************************************)
EXTENDS Peer, ProposalQueueProofs

-----------------------------------------------------------------------------
(***************************************************************************)
(* The inductive invariant, in parts.                                      *)
(***************************************************************************)
\* Where HandleRaftReady is: outside it all of the last Ready was applied, and
\* inside it the storage holds the whole log.
ReadyInv ==
    /\ pc = "loop" => cur = last /\ applied = last
    /\ pc = "ready" => storage = log

\* Who was answered, and who waits.
AnswerInv ==
    /\ AnsweredAtMostOnce
    /\ \A r \in Req : r \notin asked => resp[r] = << >>
    /\ Waiting \subseteq asked
    /\ NoAnswerLost

\* What a leadership leaves behind: its term, and entries of that term up to
\* the end of the log while it lasts.
IssuedInv ==
    /\ isLeader => term \in Led
    /\ \A e \in issued :
          /\ e.term <= term
          /\ isLeader /\ e.term = term => e.index <= Len(log)
          /\ e.data \in Req => e.data \in asked
    /\ \A e, f \in issued :
          \/ e.index = f.index /\ e.term = f.term
          \/ e.data = f.data /\ e.data \in Req
          => e = f

\* Log matching, as far as this peer's own entries go.
LogInv ==
    \A i \in 1..Len(log) :
        /\ log[i].term <= term
        /\ log[i].term \in Led \/ log[i].data \in Req =>
             [index |-> i, term |-> log[i].term, data |-> log[i].data] \in issued

\* A proposal's place lies in a term this peer led.  While nothing was dropped
\* it is the place of the entry issued for it; a place promised to a dropped
\* proposal may be taken by the next one, but never by an empty entry.
PlaceOk(p) ==
    /\ p.term \in Led
    /\ p.term = term => p.index <= Len(log) + 1
    /\ p.term = term /\ dropped = {} => p.index <= Len(log)
    /\ \A e \in issued : e.index = p.index /\ e.term = p.term => e.data \in Req
    /\ dropped = {} =>
         [index |-> p.index, term |-> p.term, data |-> p.req] \in issued

PlaceInv == \A j \in 1..Len(proposals) : PlaceOk(proposals[j])

\* The database is what the executed writes left.
DbInv == \A k \in Key : LastWritten(Len(executed), k, kv_db[k])

IndInv ==
    /\ TypeOK
    /\ ReadyInv
    /\ AnswerInv
    /\ IssuedInv
    /\ LogInv
    /\ PlaceInv
    /\ ProposalsSorted
    /\ ExecutedInOrder
    /\ DbInv
    /\ DoneIsExecuted

-----------------------------------------------------------------------------
(***************************************************************************)
(* Lemmas about the operators.                                             *)
(***************************************************************************)
\* The assumptions on the constants, together.
LEMMA ConstantFacts ==
    /\ NoVal \notin Val /\ Cmd \in [Request -> Command]
    /\ Req \subseteq Request /\ NoOp \notin Request /\ NoReq \notin Request
    /\ NoReq \notin Req /\ NoOp \notin Req
    /\ MaxTerm \in Nat /\ MaxLog \in Nat /\ MaxUncommitted \in Nat
    /\ Logs \subseteq Seq(Entry)
BY NoValAssumption, CmdAssumption, ReqAssumption, BoundAssumption, LogsAssumption

\* Executing a command keeps the database and the answers well typed.
LEMMA CommandTypes ==
    ASSUME NEW db \in Db, NEW c \in Command
    PROVE  Apply(db, c) \in Db /\ Done(db, c) \in Response /\ Rejected \in Response
<1>1. c.type \in CmdType /\ c.key \in Key /\ c.val \in Val
  BY DEF Command
<1>2. Apply(db, c) \in Db
  BY <1>1 DEF Apply, Db, CmdType
<1>3. Done(db, c) \in Response
  BY <1>1 DEF Done, Response, Db
<1>4. Rejected \in Response
  BY DEF Rejected, Response
<1> QED
  BY <1>2, <1>3, <1>4

\* Whoever leads, looking up an entry splits the deque, and a hit has the
\* entry's place.
LEMMA LookupSplits ==
    ASSUME proposals \in Seq(Proposal), NEW index, NEW t
    PROVE  /\ Lookup(index, t).rest \in Seq(Proposal)
           /\ \E n, m \in 0..Len(proposals) :
                 /\ Splits(proposals, Lookup(index, t), n, m)
                 /\ m = n + 1 => /\ proposals[m].index = index
                                 /\ proposals[m].term = t
<1>1. CASE isLeader
  <2>1. Lookup(index, t) = GetProposal(proposals, index, t)
    BY <1>1 DEF Lookup
  <2> QED
    BY <2>1, GetProposalSplits
<1>2. CASE ~isLeader
  <2>1. Lookup(index, t) = CallbackAll(proposals)
    BY <1>2 DEF Lookup
  <2>2. Len(proposals) \in 0..Len(proposals)
    OBVIOUS
  <2> QED
    BY <2>1, <2>2, CallbackAllSplits
<1> QED
  BY <1>1, <1>2

\* What ProcessNormal does not pass over is a client's request.
LEMMA SkipsFacts ==
    ASSUME NEW d \in Request \cup {NoOp}
    PROVE  /\ ~Skips(d) => d \in Request /\ d # NoOp /\ Cmd[d] \in Command
           /\ d # NoOp => (Skips(d) <=> Cmd[d].type = "kInvalid")
           /\ Skips(NoOp)
BY ConstantFacts DEF Skips, TypeOf

\* An entry's answers are responses.
LEMMA AnswerType ==
    ASSUME TypeOK, NEW e \in Entry, NEW rejected, NEW hit, hit = NoReq \/ ~Skips(e.data)
    PROVE  Answer(rejected, hit, e) \in [Req -> Seq(Response)]
<1> SUFFICES ASSUME NEW r \in Req
             PROVE  Answer(rejected, hit, e)[r] \in Seq(Response)
  BY DEF Answer
<1>1. resp[r] \in Seq(Response)
  BY DEF TypeOK
<1>2. ~Skips(e.data) => Done(kv_db, Cmd[e.data]) \in Response
  <2>1. e.data \in Request \cup {NoOp} /\ kv_db \in Db
    BY DEF Entry, TypeOK
  <2> QED
    BY <2>1, CommandTypes, SkipsFacts
<1>3. Rejected \in Response /\ r # NoReq
  BY ConstantFacts DEF Rejected, Response
<1> QED
  BY <1>1, <1>2, <1>3 DEF Answer

-----------------------------------------------------------------------------
(***************************************************************************)
(* Type correctness.                                                       *)
(***************************************************************************)
LEMMA TypeInit == Init => TypeOK
<1> SUFFICES ASSUME Init PROVE TypeOK
  OBVIOUS
<1>1. kv_db \in Db
  BY DEF Init, EmptyDb, Db
<1>2. resp \in [Req -> Seq(Response)]
  BY DEF Init
<1>3. log \in Seq(Entry) /\ storage \in Seq(Entry) /\ executed \in Seq(Entry)
  BY DEF Init
<1>4. proposals \in Seq(Proposal)
  BY DEF Init
<1>5. issued \subseteq [index : Nat, term : 1..MaxTerm, data : Req \cup {NoOp}]
  BY DEF Init
<1>6. alive \in BOOLEAN /\ isLeader \in BOOLEAN /\ (isLeader => term > 0)
  BY DEF Init
<1>7. /\ term \in 0..MaxTerm
      /\ committed \in 0..Len(log) /\ applied \in 0..committed
      /\ cur \in applied..last /\ last \in applied..committed
  BY ConstantFacts DEF Init
<1>8. pc \in {"loop", "ready"} /\ asked \subseteq Req /\ dropped \subseteq asked
  BY DEF Init
<1> QED
  BY <1>1, <1>2, <1>3, <1>4, <1>5, <1>6, <1>7, <1>8 DEF TypeOK

\* A leader's append keeps log and history well typed.
LEMMA IssueType ==
    ASSUME TypeOK, NEW data \in Req \cup {NoOp}, NEW t \in 1..MaxTerm, Issue(data, t)
    PROVE  /\ log' \in Seq(Entry)
           /\ Len(log') = Len(log) + 1
           /\ issued' \subseteq [index : Nat, term : 1..MaxTerm,
                                 data : Req \cup {NoOp}]
BY ConstantFacts DEF Issue, TypeOK, Entry, LastIndex

LEMMA TypeStep == TypeOK /\ [Next]_vars => TypeOK'
<1> SUFFICES ASSUME TypeOK, [Next]_vars PROVE TypeOK'
  OBVIOUS
<1> USE ConstantFacts
<1>1. ASSUME NEW r \in Req, KvOpCb(r) PROVE TypeOK'
  <2>1. CASE RejectNotLeader(r)
    <3>1. resp' \in [Req -> Seq(Response)]
      <4>1. Rejected \in Response
        BY DEF Rejected, Response
      <4> QED
        BY <2>1, <4>1 DEF RejectNotLeader, TypeOK
    <3> QED
      BY <1>1, <2>1, <3>1 DEF KvOpCb, RejectNotLeader, TypeOK, readyVars
  <2>2. CASE ProposeKvOp(r)
    <3>1. proposals' \in Seq(Proposal)
      BY <2>2 DEF ProposeKvOp, Proposal, NextProposalIndex, LastIndex, TypeOK
    <3>2. CASE UNCHANGED <<log, issued>>
      BY <1>1, <2>2, <3>1, <3>2 DEF KvOpCb, ProposeKvOp, TypeOK, readyVars
    <3>3. CASE Issue(r, term) /\ UNCHANGED dropped
      <4>1. /\ log' \in Seq(Entry)
            /\ Len(log') = Len(log) + 1
            /\ issued' \subseteq [index : Nat, term : 1..MaxTerm,
                                  data : Req \cup {NoOp}]
        BY <2>2, <3>3, IssueType DEF ProposeKvOp, TypeOK
      <4> QED
        BY <1>1, <2>2, <3>1, <3>3, <4>1 DEF KvOpCb, ProposeKvOp, TypeOK, readyVars
    <3> QED
      BY <2>2, <3>2, <3>3 DEF ProposeKvOp
  <2> QED
    BY <1>1, <2>1, <2>2 DEF KvOpCb
<1>2. ASSUME Step PROVE TypeOK'
  <2>1. ASSUME NEW t \in 1..MaxTerm, StepNewTerm(t) PROVE TypeOK'
    <3>1. isLeader' \in BOOLEAN /\ ~isLeader'
      BY <2>1 DEF StepNewTerm
    <3> QED
      BY <1>2, <2>1, <3>1 DEF Step, StepNewTerm, TypeOK, readyVars, kvVars
  <2>2. ASSUME NEW t \in 1..MaxTerm, StepElected(t) PROVE TypeOK'
    <3>1. /\ log' \in Seq(Entry)
          /\ Len(log') = Len(log) + 1
          /\ issued' \subseteq [index : Nat, term : 1..MaxTerm,
                                data : Req \cup {NoOp}]
      BY <2>2, IssueType DEF StepElected
    <3> QED
      BY <1>2, <2>2, <3>1 DEF Step, StepElected, TypeOK, readyVars, kvVars
  <2>3. ASSUME StepAppend PROVE TypeOK'
    <3>1. log' \in Seq(Entry) /\ Len(log') >= committed
      BY <2>3 DEF StepAppend, LeaderLogs, Adoptable, TypeOK
    <3>2. term' \in 0..MaxTerm /\ committed' \in committed..Len(log')
      BY <2>3 DEF StepAppend
    <3>3. isLeader' \in BOOLEAN /\ ~isLeader'
      BY <2>3 DEF StepAppend
    <3> QED
      BY <1>2, <2>3, <3>1, <3>2, <3>3 DEF Step, StepAppend, TypeOK, readyVars, kvVars
  <2>4. ASSUME StepCommit PROVE TypeOK'
    <3>1. /\ UNCHANGED <<alive, readyVars, kvVars, asked, dropped, executed>>
          /\ UNCHANGED <<isLeader, term, log, issued>>
      BY <1>2, <2>4 DEF Step, StepCommit
    <3>2. committed' \in 0..Len(log) /\ committed' >= committed
      BY <2>4 DEF StepCommit, LastIndex, TypeOK
    <3>3. applied \in 0..committed' /\ last \in applied..committed'
      BY <3>2 DEF TypeOK
    <3> QED
      BY <3>1, <3>2, <3>3 DEF TypeOK, readyVars, kvVars
  <2> QED
    BY <1>2, <2>1, <2>2, <2>3, <2>4 DEF Step
<1>3. ASSUME Tick PROVE TypeOK'
  <2>1. isLeader' \in BOOLEAN /\ (isLeader' => isLeader)
    <3>1. CASE UNCHANGED isLeader
      BY <3>1 DEF TypeOK
    <3>2. CASE isLeader' = FALSE
      BY <3>2
    <3> QED
      BY <1>3, <3>1, <3>2 DEF Tick, RawTick
  <2>2. /\ storage' \in Seq(Entry) /\ applied' = applied
        /\ pc' \in {"loop", "ready"}
        /\ cur' \in applied..last' /\ last' \in applied..committed
    BY <1>3 DEF Tick, HandleRaftReady, Upto, TypeOK, readyVars
  <2> QED
    BY <1>3, <2>1, <2>2 DEF Tick, TypeOK, kvVars
<1>4. ASSUME ProcessEntry PROVE TypeOK'
  <2> DEFINE e == log[cur + 1]
             found == Lookup(cur + 1, e.term)
  <2>1. e \in Entry /\ cur + 1 \in applied..last
    BY <1>4 DEF ProcessEntry, TypeOK
  <2>2. proposals' = found.rest /\ ProcessNormal(e, found)
    BY <1>4 DEF ProcessEntry
  <2>3. proposals' \in Seq(Proposal)
    <3>1. proposals \in Seq(Proposal)
      BY DEF TypeOK
    <3> QED
      BY <2>2, <3>1, LookupSplits
  <2> HIDE DEF e, found
  <2>4. resp' \in [Req -> Seq(Response)]
    BY <2>1, <2>2, AnswerType DEF ProcessNormal
  <2>5. kv_db' \in Db
    <3>1. \/ kv_db' = kv_db
          \/ ~Skips(e.data) /\ kv_db' = Apply(kv_db, Cmd[e.data])
      BY <2>2 DEF ProcessNormal
    <3>2. ~Skips(e.data) => Cmd[e.data] \in Command
      BY <2>1, SkipsFacts DEF Entry
    <3> QED
      BY <3>1, <3>2, CommandTypes DEF TypeOK
  <2>6. /\ executed' \in Seq(Entry)
        /\ cur' \in applied..last
    <3>1. \/ executed' = Append(executed, e) /\ cur' = cur + 1
          \/ executed' = executed /\ cur' = cur
      BY <2>2 DEF ProcessNormal
    <3>2. executed \in Seq(Entry) /\ Append(executed, e) \in Seq(Entry)
      BY <2>1 DEF TypeOK
    <3>3. cur \in applied..last
      BY DEF TypeOK
    <3> QED
      BY <2>1, <3>1, <3>2, <3>3
  <2>7. alive' \in BOOLEAN
    <3>1. alive' = alive \/ alive' = FALSE
      BY <2>2 DEF ProcessNormal
    <3> QED
      BY <3>1 DEF TypeOK
  <2> QED
    BY <1>4, <2>3, <2>4, <2>5, <2>6, <2>7 DEF ProcessEntry, TypeOK, raftVars
<1>5. ASSUME Advance PROVE TypeOK'
  BY <1>5 DEF Advance, TypeOK, raftVars, kvVars
<1>6. ASSUME UNCHANGED vars PROVE TypeOK'
  BY <1>6 DEF vars, TypeOK, raftVars, readyVars, kvVars
<1> QED
  BY <1>1, <1>2, <1>3, <1>4, <1>5, <1>6 DEF Next

\* The peer's state always has its type: the apply loop never runs past what is
\* committed, nor the commit index past the log.
THEOREM TypeCorrect == Spec => []TypeOK
BY TypeInit, TypeStep, PTL DEF Spec

-----------------------------------------------------------------------------
(***************************************************************************)
(* The apply loop.                                                         *)
(***************************************************************************)
\* No message takes back what is committed.
LEMMA StepKeepsCommitted ==
    ASSUME TypeOK, Step
    PROVE  /\ Len(log') >= committed
           /\ \A i \in 1..committed : log'[i] = log[i]
<1>1. ASSUME NEW t \in 1..MaxTerm, StepNewTerm(t) PROVE log' = log
  BY <1>1 DEF StepNewTerm
<1>2. ASSUME NEW t \in 1..MaxTerm, StepElected(t)
      PROVE  Len(log') >= committed /\ \A i \in 1..committed : log'[i] = log[i]
  <2>1. log' = Append(log, [term |-> t, data |-> NoOp])
    BY <1>2 DEF StepElected, Issue
  <2> QED
    BY <2>1 DEF TypeOK
<1>3. ASSUME StepAppend
      PROVE  Len(log') >= committed /\ \A i \in 1..committed : log'[i] = log[i]
  BY <1>3 DEF StepAppend, Adoptable, TypeOK
<1>4. ASSUME StepCommit PROVE log' = log
  BY <1>4 DEF StepCommit
<1>5. log' = log => /\ Len(log') >= committed
                    /\ \A i \in 1..committed : log'[i] = log[i]
  BY DEF TypeOK
<1> QED
  BY <1>1, <1>2, <1>3, <1>4, <1>5 DEF Step

LEMMA ExecStep ==
    ASSUME TypeOK, ReadyInv, ExecutedInOrder, [Next]_vars
    PROVE  ReadyInv' /\ ExecutedInOrder'
<1>1. ASSUME NEW r \in Req, KvOpCb(r) PROVE ReadyInv' /\ ExecutedInOrder'
  <2>1. pc = "loop" /\ UNCHANGED <<readyVars, executed>>
    BY <1>1 DEF KvOpCb, Idle
  <2>2. /\ Len(log') >= Len(log)
        /\ \A i \in 1..Len(log) : log'[i] = log[i]
    <3>1. log' = log \/ log' = Append(log, [term |-> term, data |-> r])
      BY <1>1 DEF KvOpCb, RejectNotLeader, ProposeKvOp, Issue
    <3>2. log \in Seq(Entry)
      BY DEF TypeOK
    <3>3. CASE log' = log
      BY <3>2, <3>3
    <3>4. CASE log' = Append(log, [term |-> term, data |-> r])
      BY <3>2, <3>4
    <3> QED
      BY <3>1, <3>3, <3>4
  <2>3. cur \in Nat /\ Len(log) \in Nat /\ Len(log') \in Nat /\ cur <= Len(log)
    <3>1. TypeOK'
      BY TypeStep
    <3>2. log' \in Seq(Entry)
      BY <3>1 DEF TypeOK
    <3>3. /\ log \in Seq(Entry) /\ committed \in 0..Len(log) /\ applied \in 0..committed
          /\ last \in applied..committed /\ cur \in applied..last
      BY DEF TypeOK
    <3> QED
      BY <3>2, <3>3
  <2>4. ReadyInv'
    BY <2>1 DEF ReadyInv, readyVars
  <2> QED
    BY <2>1, <2>2, <2>3, <2>4 DEF ExecutedInOrder, readyVars
<1>2. ASSUME Step PROVE ReadyInv' /\ ExecutedInOrder'
  <2>1. pc = "loop" /\ UNCHANGED <<readyVars, executed>>
    BY <1>2 DEF Step, Idle
  <2>2. cur <= committed
    BY DEF TypeOK
  <2> QED
    <3>1. /\ Len(log') >= committed /\ \A i \in 1..committed : log'[i] = log[i]
          /\ cur \in Nat /\ committed \in Nat
      BY <1>2, StepKeepsCommitted DEF TypeOK
    <3>2. TypeOK'
      BY <1>2, TypeStep DEF Next
    <3>3. Len(log') \in Nat
      BY <3>2 DEF TypeOK
    <3>4. ReadyInv'
      BY <2>1 DEF ReadyInv, readyVars
    <3>5. cur <= Len(log') /\ \A i \in 1..cur : log'[i] = log[i]
      BY <2>2, <3>1, <3>3
    <3> QED
      BY <2>1, <3>4, <3>5 DEF ExecutedInOrder, readyVars
<1>3. ASSUME Tick PROVE ReadyInv' /\ ExecutedInOrder'
  <2>1. pc = "loop" /\ UNCHANGED <<log, executed>>
    BY <1>3 DEF Tick, Idle
  <2>2. CASE UNCHANGED readyVars
    BY <2>1, <2>2 DEF ReadyInv, ExecutedInOrder, readyVars
  <2>3. CASE storage' = log /\ pc' = "ready" /\ cur' = applied
    BY <2>1, <2>3 DEF ReadyInv, ExecutedInOrder, TypeOK
  <2> QED
    BY <1>3, <2>2, <2>3 DEF Tick, HandleRaftReady
<1>4. ASSUME ProcessEntry PROVE ReadyInv' /\ ExecutedInOrder'
  <2>1. /\ pc = "ready" /\ cur < last
        /\ UNCHANGED <<log, applied, storage, pc, last>>
    BY <1>4 DEF ProcessEntry, raftVars
  <2>2. \/ executed' = Append(executed, log[cur + 1]) /\ cur' = cur + 1
        \/ executed' = executed /\ cur' = cur
    BY <1>4 DEF ProcessEntry, ProcessNormal
  <2>3. cur + 1 \in 1..Len(log) /\ storage = log /\ log[cur + 1] \in Entry
    BY <2>1 DEF ReadyInv, TypeOK
  <2>4. CASE executed' = executed /\ cur' = cur
    BY <2>1, <2>4 DEF ReadyInv, ExecutedInOrder
  <2>5. CASE executed' = Append(executed, log[cur + 1]) /\ cur' = cur + 1
    BY <2>1, <2>3, <2>5 DEF ReadyInv, ExecutedInOrder, TypeOK
  <2> QED
    BY <2>2, <2>4, <2>5
<1>5. ASSUME Advance PROVE ReadyInv' /\ ExecutedInOrder'
  BY <1>5 DEF Advance, ReadyInv, ExecutedInOrder, TypeOK, raftVars
<1>6. ASSUME UNCHANGED vars PROVE ReadyInv' /\ ExecutedInOrder'
  BY <1>6 DEF vars, ReadyInv, ExecutedInOrder, raftVars, readyVars
<1> QED
  BY <1>1, <1>2, <1>3, <1>4, <1>5, <1>6 DEF Next

\* Every committed entry is executed once, in log order and after it was stored,
\* whatever the other peers' messages do to the rest of the log.
THEOREM AppliesInOrder == Spec => []ExecutedInOrder
<1>1. Init => ReadyInv /\ ExecutedInOrder
  BY DEF Init, ReadyInv, ExecutedInOrder
<1>2. TypeOK /\ ReadyInv /\ ExecutedInOrder /\ [Next]_vars
        => ReadyInv' /\ ExecutedInOrder'
  BY ExecStep
<1> QED
  BY <1>1, <1>2, TypeCorrect, PTL DEF Spec

-----------------------------------------------------------------------------
(***************************************************************************)
(* What the peer issued as a leader, and what waits for it.                *)
(***************************************************************************)
LEMMA IssuedStep ==
    ASSUME TypeOK, IssuedInv, [Next]_vars
    PROVE  IssuedInv'
<1> USE ConstantFacts
<1>1. ASSUME NEW r \in Req, KvOpCb(r) PROVE IssuedInv'
  <2>1. /\ r \notin asked /\ asked' = asked \cup {r}
        /\ UNCHANGED <<isLeader, term>>
    BY <1>1 DEF KvOpCb
  <2>2. CASE UNCHANGED <<log, issued>>
    BY <2>1, <2>2 DEF IssuedInv, Led
  <2>3. CASE isLeader /\ Issue(r, term)
    <3> DEFINE new == [index |-> Len(log) + 1, term |-> term, data |-> r]
    <3>1. issued' = issued \cup {new} /\ Len(log') = Len(log) + 1
      BY <2>3 DEF Issue, LastIndex, TypeOK
    <3>2. new.index = Len(log) + 1 /\ new.term = term /\ new.data = r
      OBVIOUS
    <3> HIDE DEF new
    <3>3. Len(log) \in Nat /\ term \in Nat
      BY DEF TypeOK
    <3>4. \A e \in issued : /\ e.index \in Nat /\ e.term \in Nat
                            /\ e.term <= term
                            /\ e.term = term => e.index <= Len(log)
                            /\ e.data \in Req => e.data \in asked
      BY <2>3 DEF IssuedInv, TypeOK
    <3>5. isLeader' => term' \in Led'
      BY <2>1, <2>3, <3>1, <3>2 DEF Led
    <3>6. \A e \in issued' : /\ e.term <= term'
                             /\ isLeader' /\ e.term = term' => e.index <= Len(log')
                             /\ e.data \in Req => e.data \in asked'
      BY <2>1, <3>1, <3>2, <3>3, <3>4
    <3>7. \A e \in issued : /\ ~(e.index = new.index /\ e.term = new.term)
                            /\ ~(e.data = new.data)
      BY <2>1, <3>2, <3>3, <3>4
    <3>8. \A e, f \in issued' :
            \/ e.index = f.index /\ e.term = f.term
            \/ e.data = f.data /\ e.data \in Req
            => e = f
      BY <3>1, <3>7 DEF IssuedInv
    <3> QED
      BY <3>5, <3>6, <3>8 DEF IssuedInv
  <2> QED
    BY <1>1, <2>2, <2>3 DEF KvOpCb, RejectNotLeader, ProposeKvOp
<1>2. ASSUME Step PROVE IssuedInv'
  <2>1. UNCHANGED asked
    BY <1>2 DEF Step
  <2>2. ASSUME NEW t \in 1..MaxTerm, StepNewTerm(t) PROVE IssuedInv'
    BY <2>1, <2>2 DEF StepNewTerm, IssuedInv, TypeOK
  <2>3. ASSUME NEW t \in 1..MaxTerm, StepElected(t) PROVE IssuedInv'
    <3> DEFINE new == [index |-> Len(log) + 1, term |-> t, data |-> NoOp]
    <3>1. /\ issued' = issued \cup {new} /\ Len(log') = Len(log) + 1
          /\ term' = t /\ \A x \in Led : x < t
      BY <2>3 DEF StepElected, Issue, LastIndex, TypeOK
    <3>2. new.index = Len(log) + 1 /\ new.term = t /\ new.data = NoOp
      OBVIOUS
    <3> HIDE DEF new
    <3>3. Len(log) \in Nat /\ term \in Nat
      BY DEF TypeOK
    <3>4. \A e \in issued : /\ e.term \in Nat /\ e.term < t
                            /\ e.data \in Req => e.data \in asked
      BY <3>1, <3>3 DEF IssuedInv, TypeOK, Led
    <3>5. term' \in Led'
      BY <3>1, <3>2 DEF Led
    <3>6. \A e \in issued' : /\ e.term <= term'
                             /\ e.term = term' => e.index <= Len(log')
                             /\ e.data \in Req => e.data \in asked'
      BY <2>1, <3>1, <3>2, <3>3, <3>4
    <3>7. \A e, f \in issued' :
            \/ e.index = f.index /\ e.term = f.term
            \/ e.data = f.data /\ e.data \in Req
            => e = f
      BY <3>1, <3>2, <3>4 DEF IssuedInv
    <3> QED
      BY <3>5, <3>6, <3>7 DEF IssuedInv
  <2>4. ASSUME StepAppend PROVE IssuedInv'
    <3>1. /\ issued' = issued /\ ~isLeader' /\ term' >= term
      BY <2>4 DEF StepAppend
    <3>2. term' \in Nat /\ term \in Nat
      BY TypeStep DEF TypeOK
    <3> QED
      BY <2>1, <3>1, <3>2 DEF IssuedInv, TypeOK
  <2>5. ASSUME StepCommit PROVE IssuedInv'
    BY <2>1, <2>5 DEF StepCommit, IssuedInv, Led
  <2> QED
    BY <1>2, <2>2, <2>3, <2>4, <2>5 DEF Step
<1>3. ASSUME Tick PROVE IssuedInv'
  <2>1. UNCHANGED <<term, log, asked, issued>>
    BY <1>3 DEF Tick
  <2>2. isLeader' => isLeader
    BY <1>3 DEF Tick, RawTick
  <2> QED
    BY <2>1, <2>2 DEF IssuedInv, Led
<1>4. ASSUME UNCHANGED <<isLeader, term, log, asked, issued>> PROVE IssuedInv'
  BY <1>4 DEF IssuedInv, Led
<1> QED
  BY <1>1, <1>2, <1>3, <1>4 DEF Next, ProcessEntry, Advance, raftVars, vars

\* What the entries of a log are.
LEMMA EntryTypes ==
    ASSUME NEW l \in Seq(Entry), NEW i \in 1..Len(l)
    PROVE  /\ l[i] \in Entry
           /\ l[i].term \in 1..MaxTerm /\ l[i].term \in Nat
           /\ l[i].data \in Request \cup {NoOp}
<1>1. l[i] \in Entry
  OBVIOUS
<1>2. MaxTerm \in Nat
  BY ConstantFacts
<1> QED
  BY <1>1, <1>2 DEF Entry

\* A leader's append adds one entry to the log and one issue to the history.
LEMMA IssueFacts ==
    ASSUME TypeOK, NEW data \in Req \cup {NoOp}, NEW t \in 1..MaxTerm, Issue(data, t)
    PROVE  /\ Len(log') = Len(log) + 1
           /\ \A i \in 1..Len(log) : log'[i] = log[i]
           /\ log'[Len(log) + 1] = [term |-> t, data |-> data]
           /\ issued' = issued \cup {[index |-> Len(log) + 1, term |-> t, data |-> data]}
           /\ Led' = Led \cup {t}
<1>1. /\ log' = Append(log, [term |-> t, data |-> data])
      /\ issued' = issued \cup {[index |-> Len(log) + 1, term |-> t, data |-> data]}
  BY DEF Issue, LastIndex
<1>2. Led' = Led \cup {t}
  <2> DEFINE new == [index |-> Len(log) + 1, term |-> t, data |-> data]
  <2>1. new.term = t /\ issued' = issued \cup {new}
    BY <1>1
  <2> HIDE DEF new
  <2> QED
    BY <2>1 DEF Led
<1>3. log \in Seq(Entry) /\ [term |-> t, data |-> data] \in Entry
  BY ConstantFacts DEF TypeOK, Entry
<1> QED
  BY <1>1, <1>2, <1>3

LEMMA LogStep ==
    ASSUME TypeOK, IssuedInv, LogInv, [Next]_vars
    PROVE  LogInv'
<1> USE ConstantFacts
<1>1. ASSUME NEW r \in Req, KvOpCb(r) PROVE LogInv'
  <2>1. UNCHANGED term
    BY <1>1 DEF KvOpCb
  <2>2. CASE UNCHANGED <<log, issued>>
    BY <2>1, <2>2 DEF LogInv, Led
  <2>3. CASE isLeader /\ Issue(r, term)
    <3>1. term \in 1..MaxTerm /\ term \in Led
      BY <2>3 DEF TypeOK, IssuedInv
    <3>2. /\ Len(log') = Len(log) + 1
          /\ \A i \in 1..Len(log) : log'[i] = log[i]
          /\ log'[Len(log) + 1] = [term |-> term, data |-> r]
          /\ issued' = issued \cup
                         {[index |-> Len(log) + 1, term |-> term, data |-> r]}
          /\ Led' = Led \cup {term}
      BY <2>3, <3>1, IssueFacts
    <3>3. Led' = Led
      BY <3>1, <3>2
    <3> SUFFICES ASSUME NEW i \in 1..(Len(log) + 1)
                 PROVE  /\ log'[i].term <= term
                        /\ log'[i].term \in Led \/ log'[i].data \in Req =>
                             [index |-> i, term |-> log'[i].term,
                              data |-> log'[i].data] \in issued'
      BY <2>1, <3>2, <3>3 DEF LogInv
    <3>4. CASE i \in 1..Len(log)
      BY <3>2, <3>4 DEF LogInv
    <3>5. CASE i = Len(log) + 1
      <4>1. log'[i].term = term /\ log'[i].data = r
        BY <3>2, <3>5
      <4> QED
        BY <3>1, <3>2, <3>5, <4>1
    <3> QED
      BY <3>4, <3>5 DEF TypeOK
  <2> QED
    BY <1>1, <2>2, <2>3 DEF KvOpCb, RejectNotLeader, ProposeKvOp
<1>2. ASSUME Step PROVE LogInv'
  <2>1. ASSUME NEW t \in 1..MaxTerm, StepNewTerm(t) PROVE LogInv'
    <3>1. UNCHANGED <<log, issued>> /\ term' = t /\ t > term
      BY <2>1 DEF StepNewTerm
    <3>2. \A i \in 1..Len(log) : log[i].term \in Nat
      BY EntryTypes DEF TypeOK
    <3> QED
      BY <3>1, <3>2 DEF LogInv, Led, TypeOK
  <2>2. ASSUME NEW t \in 1..MaxTerm, StepElected(t) PROVE LogInv'
    <3>1. /\ Issue(NoOp, t) /\ term' = t
          /\ \A i \in 1..Len(log) : log[i].term < t
      BY <2>2 DEF StepElected, LastIndex
    <3>2. \A i \in 1..Len(log) : log[i].term \in Nat /\ log[i].term < t
      BY <3>1, EntryTypes DEF TypeOK
    <3>3. /\ Len(log') = Len(log) + 1
          /\ \A i \in 1..Len(log) : log'[i] = log[i]
          /\ log'[Len(log) + 1] = [term |-> t, data |-> NoOp]
          /\ issued' = issued \cup
                         {[index |-> Len(log) + 1, term |-> t, data |-> NoOp]}
          /\ Led' = Led \cup {t}
      BY <3>1, IssueFacts
    <3> SUFFICES ASSUME NEW i \in 1..(Len(log) + 1)
                 PROVE  /\ log'[i].term <= t
                        /\ log'[i].term \in Led' \/ log'[i].data \in Req =>
                             [index |-> i, term |-> log'[i].term,
                              data |-> log'[i].data] \in issued'
      BY <3>1, <3>3 DEF LogInv
    <3>4. CASE i \in 1..Len(log)
      <4>1. log'[i] = log[i] /\ issued \subseteq issued'
        BY <3>3, <3>4
      <4> QED
        BY <3>2, <3>3, <3>4, <4>1 DEF LogInv
    <3>5. CASE i = Len(log) + 1
      <4>1. log'[i].term = t /\ log'[i].data = NoOp
        BY <3>3, <3>5
      <4> QED
        BY <3>3, <3>5, <4>1
    <3> QED
      BY <3>4, <3>5 DEF TypeOK
  <2>3. ASSUME StepAppend PROVE LogInv'
    <3>1. issued' = issued /\ Led' = Led
      BY <2>3 DEF StepAppend, Led
    <3>2. term' \in 1..MaxTerm /\ term' >= term /\ term' >= LastTerm(log')
      BY <2>3 DEF StepAppend
    <3>3. CASE log' = log
      <4>1. \A i \in 1..Len(log) : log[i].term \in Nat
        BY EntryTypes DEF TypeOK
      <4> QED
        BY <3>1, <3>2, <3>3, <4>1 DEF LogInv, TypeOK
    <3>4. CASE log' \in LeaderLogs /\ Adoptable(log')
      <4>1. log' \in Seq(Entry)
        BY <3>4 DEF LeaderLogs
      <4>2. \A i \in 1..Len(log') : log'[i].term \in Nat
        BY <4>1, EntryTypes
      <4>3. ASSUME NEW i \in 1..Len(log') PROVE log'[i].term <= term'
        <5>1. LastTerm(log') = log'[Len(log')].term
          BY <4>1, <4>3 DEF LastTerm
        <5>2. i < Len(log') => log'[i].term <= log'[Len(log')].term
          BY <3>4, <4>1 DEF LeaderLogs
        <5> QED
          BY <3>2, <4>1, <4>2, <5>1, <5>2
      <4>4. \A i \in 1..Len(log') :
               log'[i].term \in Led \/ log'[i].data \in Req =>
                 [index |-> i, term |-> log'[i].term, data |-> log'[i].data] \in issued
        BY <3>4 DEF Adoptable, Foreign
      <4> QED
        BY <3>1, <4>3, <4>4 DEF LogInv
    <3> QED
      BY <2>3, <3>3, <3>4 DEF StepAppend
  <2>4. ASSUME StepCommit PROVE LogInv'
    BY <2>4 DEF StepCommit, LogInv, Led
  <2> QED
    BY <1>2, <2>1, <2>2, <2>3, <2>4 DEF Step
<1>3. ASSUME UNCHANGED <<term, log, issued>> PROVE LogInv'
  BY <1>3 DEF LogInv, Led
<1> QED
  BY <1>1, <1>2, <1>3 DEF Next, Tick, ProcessEntry, Advance, raftVars, vars

\* The deque after an entry was looked up is a tail of the deque before.
LEMMA ProcessTail ==
    ASSUME TypeOK, ProcessEntry
    PROVE  \E m \in 0..Len(proposals) :
              /\ Len(proposals') = Len(proposals) - m
              /\ \A j \in 1..Len(proposals') : proposals'[j] = proposals[j + m]
<1>1. proposals' = Lookup(cur + 1, log[cur + 1].term).rest
  BY DEF ProcessEntry
<1>2. proposals \in Seq(Proposal)
  BY DEF TypeOK
<1>3. PICK n, m \in 0..Len(proposals) :
         Splits(proposals, Lookup(cur + 1, log[cur + 1].term), n, m)
  BY <1>2, LookupSplits
<1>4. /\ Len(proposals') = Len(proposals) - m
      /\ \A j \in 1..Len(proposals') : proposals'[j] = proposals[j + m]
  BY <1>1, <1>3 DEF Splits
<1> QED
  BY <1>4

\* What ProposeKvOp appends to the deque.
LEMMA ProposeFacts ==
    ASSUME TypeOK, NEW r \in Req, ProposeKvOp(r)
    PROVE  /\ Len(proposals') = Len(proposals) + 1
           /\ \A j \in 1..Len(proposals) : proposals'[j] = proposals[j]
           /\ proposals'[Len(proposals) + 1] =
                [index |-> Len(log) + 1, term |-> term, req |-> r]
<1>1. proposals' = Append(proposals, [index |-> Len(log) + 1, term |-> term, req |-> r])
  BY DEF ProposeKvOp, NextProposalIndex, LastIndex
<1>2. proposals \in Seq(Proposal)
      /\ [index |-> Len(log) + 1, term |-> term, req |-> r] \in Proposal
  BY DEF TypeOK, Proposal
<1> QED
  BY <1>1, <1>2

LEMMA PlaceStep ==
    ASSUME TypeOK, IssuedInv, PlaceInv, [Next]_vars
    PROVE  PlaceInv'
<1> USE ConstantFacts
<1>a. \A j \in 1..Len(proposals) :
         /\ proposals[j].term \in Nat /\ proposals[j].index \in Nat
         /\ proposals[j].term \in Led /\ proposals[j].term <= term
  <2>1. ASSUME NEW j \in 1..Len(proposals) PROVE proposals[j] \in Proposal
    BY <2>1 DEF TypeOK
  <2>2. \A x \in Led : x <= term
    BY DEF IssuedInv, Led
  <2> QED
    BY <2>1, <2>2 DEF PlaceInv, PlaceOk, Proposal
<1>b. Len(proposals) \in Nat /\ Len(log) \in Nat /\ term \in Nat
  BY DEF TypeOK
<1>1. ASSUME NEW r \in Req, KvOpCb(r) PROVE PlaceInv'
  <2>1. UNCHANGED <<isLeader, term>>
    BY <1>1 DEF KvOpCb
  <2>2. CASE RejectNotLeader(r)
    BY <2>1, <2>2 DEF RejectNotLeader, PlaceInv, PlaceOk, Led
  <2>3. CASE ProposeKvOp(r)
    <3>0. PICK new : new = [index |-> Len(log) + 1, term |-> term, req |-> r]
      OBVIOUS
    <3> DEFINE entry == [index |-> Len(log) + 1, term |-> term, data |-> r]
    <3>1. isLeader /\ term \in Led /\ term \in 1..MaxTerm
      BY <2>3 DEF ProposeKvOp, IssuedInv, TypeOK
    <3>2. /\ new.index = Len(log) + 1 /\ new.term = term /\ new.req = r
          /\ entry.index = Len(log) + 1 /\ entry.term = term /\ entry.data = r
          /\ entry = [index |-> new.index, term |-> new.term, data |-> new.req]
      BY <3>0
    <3>3. \/ dropped' # {} /\ UNCHANGED <<log, issued>>
          \/ Issue(r, term) /\ UNCHANGED dropped
      BY <2>3 DEF ProposeKvOp
    <3>4. \/ dropped' # {} /\ Len(log') = Len(log) /\ issued' = issued /\ Led' = Led
          \/ /\ dropped' = dropped /\ Len(log') = Len(log) + 1
             /\ issued' = issued \cup {entry} /\ Led' = Led
      <4>1. CASE Issue(r, term) /\ UNCHANGED dropped
        <5>1. /\ Len(log') = Len(log) + 1 /\ issued' = issued \cup {entry}
              /\ Led' = Led \cup {term}
          BY <3>1, <4>1, IssueFacts
        <5> QED
          BY <3>1, <4>1, <5>1
      <4>2. CASE dropped' # {} /\ UNCHANGED <<log, issued>>
        BY <4>2 DEF Led
      <4> QED
        BY <3>3, <4>1, <4>2
    <3>5. \A e \in issued : ~(e.index = new.index /\ e.term = new.term)
      <4>1. \A e \in issued : e.index \in Nat /\ (e.term = term => e.index <= Len(log))
        BY <3>1 DEF IssuedInv, TypeOK
      <4> QED
        BY <1>b, <3>2, <4>1
    <3> HIDE DEF entry
    <3>6. PlaceOk(new)'
      BY <1>b, <2>1, <3>1, <3>2, <3>4, <3>5 DEF PlaceOk
    <3>7. ASSUME NEW j \in 1..Len(proposals) PROVE PlaceOk(proposals[j])'
      <4>1. PlaceOk(proposals[j]) /\ proposals[j].index \in Nat
        BY <1>a, <3>7 DEF PlaceInv
      <4>2. proposals'[j] = proposals[j]
        BY <2>3, <3>7, ProposeFacts
      <4> QED
        BY <1>b, <2>1, <3>2, <3>4, <4>1, <4>2 DEF PlaceOk
    <3> QED
      <4>1. ASSUME NEW j \in 1..(Len(proposals) + 1) PROVE PlaceOk(proposals[j])'
        <5>1. CASE j \in 1..Len(proposals)
          BY <3>7, <5>1
        <5>2. CASE j = Len(proposals) + 1
          <6>1. proposals'[j] = new
            BY <2>3, <3>0, <5>2, ProposeFacts
          <6> QED
            BY <3>6, <6>1
        <5> QED
          BY <1>b, <5>1, <5>2
      <4>2. Len(proposals') = Len(proposals) + 1
        BY <2>3, ProposeFacts
      <4> QED
        BY <4>1, <4>2 DEF PlaceInv
  <2> QED
    BY <1>1, <2>2, <2>3 DEF KvOpCb
<1>2. ASSUME Step PROVE PlaceInv'
  <2>1. UNCHANGED <<proposals, dropped>>
    BY <1>2 DEF Step, kvVars
  <2>2. \/ UNCHANGED <<term, log, issued>>
        \/ /\ \A j \in 1..Len(proposals) : proposals[j].term # term'
           /\ Led \subseteq Led' /\ issued \subseteq issued'
           /\ \A e \in issued' : e \in issued \/ e.term = term'
    <3>1. ASSUME NEW t \in 1..MaxTerm, StepNewTerm(t)
          PROVE  term' > term /\ issued' = issued
      BY <3>1 DEF StepNewTerm
    <3>2. ASSUME NEW t \in 1..MaxTerm, StepElected(t)
          PROVE  /\ \A x \in Led : x < term'
                 /\ Led \subseteq Led' /\ issued \subseteq issued'
                 /\ \A e \in issued' : e \in issued \/ e.term = term'
      <4>1. term' = t /\ (\A x \in Led : x < t) /\ Issue(NoOp, t)
        BY <3>2 DEF StepElected
      <4>2. /\ issued' = issued \cup
                           {[index |-> Len(log) + 1, term |-> t, data |-> NoOp]}
            /\ Led' = Led \cup {t}
        BY <4>1, IssueFacts
      <4> QED
        BY <4>1, <4>2
    <3>3. ASSUME StepAppend
          PROVE  (\A x \in Led : x < term') /\ issued' = issued
      BY <3>3 DEF StepAppend
    <3>4. ASSUME StepCommit PROVE UNCHANGED <<term, log, issued>>
      BY <3>4 DEF StepCommit
    <3>5. issued' = issued => Led' = Led
      BY DEF Led
    <3>6. term' \in Nat
      BY TypeStep DEF TypeOK
    <3>7. term' > term => \A j \in 1..Len(proposals) : proposals[j].term # term'
      BY <1>a, <1>b, <3>6
    <3>8. (\A x \in Led : x < term') =>
              \A j \in 1..Len(proposals) : proposals[j].term # term'
      BY <1>a, <3>6
    <3> QED
      BY <1>2, <3>1, <3>2, <3>3, <3>4, <3>5, <3>7, <3>8 DEF Step
  <2>3. ASSUME NEW j \in 1..Len(proposals) PROVE PlaceOk(proposals[j])'
    <3>1. PlaceOk(proposals[j]) /\ proposals'[j] = proposals[j]
      BY <2>1, <2>3 DEF PlaceInv
    <3>2. CASE UNCHANGED <<term, log, issued>>
      BY <2>1, <3>1, <3>2 DEF PlaceOk, Led
    <3>3. CASE /\ proposals[j].term # term'
               /\ Led \subseteq Led' /\ issued \subseteq issued'
               /\ \A e \in issued' : e \in issued \/ e.term = term'
      BY <2>1, <3>1, <3>3 DEF PlaceOk
    <3> QED
      BY <2>2, <2>3, <3>2, <3>3
  <2> QED
    BY <2>1, <2>3 DEF PlaceInv
<1>3. ASSUME ProcessEntry PROVE PlaceInv'
  <2>1. UNCHANGED <<term, log, issued, dropped>>
    BY <1>3 DEF ProcessEntry, raftVars
  <2>2. PICK m \in 0..Len(proposals) :
              /\ Len(proposals') = Len(proposals) - m
              /\ \A j \in 1..Len(proposals') : proposals'[j] = proposals[j + m]
    BY <1>3, ProcessTail
  <2>3. ASSUME NEW j \in 1..Len(proposals') PROVE PlaceOk(proposals[j])'
    <3>1. j + m \in 1..Len(proposals) /\ proposals'[j] = proposals[j + m]
      BY <1>b, <2>2
    <3>2. PlaceOk(proposals[j + m])
      BY <3>1 DEF PlaceInv
    <3> QED
      BY <2>1, <3>1, <3>2 DEF PlaceOk, Led
  <2> QED
    BY <2>3 DEF PlaceInv
<1>4. ASSUME UNCHANGED <<proposals, term, log, issued, dropped>> PROVE PlaceInv'
  BY <1>4 DEF PlaceInv, PlaceOk, Led
<1> QED
  BY <1>1, <1>2, <1>3, <1>4 DEF Next, Tick, Advance, raftVars, kvVars, vars

LEMMA SortedStep ==
    ASSUME TypeOK, IssuedInv, PlaceInv, ProposalsSorted, [Next]_vars
    PROVE  ProposalsSorted'
<1>b. Len(proposals) \in Nat /\ Len(log) \in Nat /\ term \in Nat
  BY DEF TypeOK
<1>1. ASSUME NEW r \in Req, KvOpCb(r) PROVE ProposalsSorted'
  <2>1. CASE RejectNotLeader(r)
    BY <2>1 DEF RejectNotLeader, ProposalsSorted
  <2>2. CASE ProposeKvOp(r)
    <3>1. \/ dropped' # {}
          \/ dropped' = dropped
      BY <2>2 DEF ProposeKvOp
    <3>2. /\ Len(proposals') = Len(proposals) + 1
          /\ \A j \in 1..Len(proposals) : proposals'[j] = proposals[j]
          /\ proposals'[Len(proposals) + 1].index = Len(log) + 1
          /\ proposals'[Len(proposals) + 1].term = term
      <4>1. /\ Len(proposals') = Len(proposals) + 1
            /\ \A j \in 1..Len(proposals) : proposals'[j] = proposals[j]
            /\ proposals'[Len(proposals) + 1] =
                 [index |-> Len(log) + 1, term |-> term, req |-> r]
        BY <2>2, ProposeFacts
      <4> QED
        BY <4>1
    <3>3. \A j \in 1..Len(proposals) :
            /\ proposals[j].index \in Nat /\ proposals[j].term \in Nat
            /\ proposals[j].term <= term
            /\ proposals[j].term = term => proposals[j].index <= Len(log) + 1
            /\ proposals[j].term = term /\ dropped = {}
                 => proposals[j].index <= Len(log)
      <4>1. ASSUME NEW j \in 1..Len(proposals) PROVE proposals[j] \in Proposal
        BY <4>1 DEF TypeOK
      <4>2. \A x \in Led : x <= term
        BY DEF IssuedInv, Led
      <4> QED
        BY <4>1, <4>2 DEF PlaceInv, PlaceOk, Proposal
    <3> SUFFICES ASSUME NEW i \in 1..Len(proposals'), NEW j \in 1..Len(proposals'),
                        i < j
                 PROVE  \/ proposals'[i].term < proposals'[j].term
                        \/ /\ proposals'[i].term = proposals'[j].term
                           /\ IF dropped' = {}
                              THEN proposals'[i].index < proposals'[j].index
                              ELSE proposals'[i].index <= proposals'[j].index
      BY DEF ProposalsSorted
    <3>4. i \in 1..Len(proposals) /\ proposals'[i] = proposals[i]
      BY <1>b, <3>2
    <3>5. CASE j \in 1..Len(proposals)
      <4>1. proposals'[j] = proposals[j] /\ (dropped' = {} => dropped = {})
        BY <3>1, <3>2, <3>5
      <4>2. \/ proposals[i].term < proposals[j].term
            \/ /\ proposals[i].term = proposals[j].term
               /\ proposals[i].index <= proposals[j].index
               /\ dropped = {} => proposals[i].index < proposals[j].index
        <5>1. proposals[i].index \in Nat /\ proposals[j].index \in Nat
          BY <3>3, <3>4, <3>5
        <5> QED
          BY <3>4, <3>5, <5>1 DEF ProposalsSorted
      <4> QED
        BY <3>4, <4>1, <4>2
    <3>6. CASE j = Len(proposals) + 1
      <4>1. proposals'[j].term = term /\ proposals'[j].index = Len(log) + 1
        BY <3>2, <3>6
      <4>2. /\ proposals[i].term <= term /\ proposals[i].index \in Nat
            /\ proposals[i].term \in Nat
            /\ proposals[i].term = term => proposals[i].index <= Len(log) + 1
            /\ proposals[i].term = term /\ dropped = {} => proposals[i].index <= Len(log)
        BY <3>3, <3>4
      <4> QED
        BY <1>b, <3>1, <3>4, <4>1, <4>2
    <3> QED
      BY <1>b, <3>2, <3>5, <3>6
  <2> QED
    BY <1>1, <2>1, <2>2 DEF KvOpCb
<1>2. ASSUME ProcessEntry PROVE ProposalsSorted'
  <2>1. UNCHANGED dropped
    BY <1>2 DEF ProcessEntry
  <2>2. PICK m \in 0..Len(proposals) :
              /\ Len(proposals') = Len(proposals) - m
              /\ \A j \in 1..Len(proposals') : proposals'[j] = proposals[j + m]
    BY <1>2, ProcessTail
  <2>3. \A i, j \in 1..Len(proposals') :
           /\ i + m \in 1..Len(proposals) /\ j + m \in 1..Len(proposals)
           /\ i < j => i + m < j + m
    BY <1>b, <2>2
  <2> SUFFICES ASSUME NEW i \in 1..Len(proposals'), NEW j \in 1..Len(proposals'),
                      i < j
               PROVE  \/ proposals'[i].term < proposals'[j].term
                      \/ /\ proposals'[i].term = proposals'[j].term
                         /\ IF dropped' = {}
                            THEN proposals'[i].index < proposals'[j].index
                            ELSE proposals'[i].index <= proposals'[j].index
    BY DEF ProposalsSorted
  <2>4. proposals'[i] = proposals[i + m] /\ proposals'[j] = proposals[j + m]
    BY <2>2
  <2>5. /\ i + m \in 1..Len(proposals) /\ j + m \in 1..Len(proposals)
        /\ i + m < j + m
    BY <2>3
  <2> QED
    BY <2>1, <2>4, <2>5 DEF ProposalsSorted
<1>3. ASSUME UNCHANGED <<proposals, dropped>> PROVE ProposalsSorted'
  BY <1>3 DEF ProposalsSorted
<1> QED
  BY <1>1, <1>2, <1>3 DEF Next, Step, Tick, Advance, kvVars, vars

-----------------------------------------------------------------------------
(***************************************************************************)
(* Answers.                                                                *)
(***************************************************************************)
\* A proposal that is found for an entry was made for a request, not for the
\* empty entry of a new leader; if nothing was dropped, for this very request.
LEMMA HitIsRequest ==
    ASSUME TypeOK, LogInv, PlaceInv,
           NEW i \in 1..Len(log), NEW j \in 1..Len(proposals),
           proposals[j].index = i, proposals[j].term = log[i].term
    PROVE  log[i].data \in Req
<1>1. [index |-> i, term |-> log[i].term, data |-> log[i].data] \in issued
  BY DEF LogInv, PlaceInv, PlaceOk
<1>2. \A e \in issued : e.index = i /\ e.term = log[i].term => e.data \in Req
  BY DEF PlaceInv, PlaceOk
<1> QED
  BY <1>1, <1>2

\* While nothing was dropped, the proposal found for an entry is the one whose
\* request the entry carries.
LEMMA HitIsOwn ==
    ASSUME TypeOK, IssuedInv, LogInv, PlaceInv, dropped = {},
           NEW i \in 1..Len(log), NEW j \in 1..Len(proposals),
           proposals[j].index = i, proposals[j].term = log[i].term
    PROVE  log[i].data = proposals[j].req
<1>1. [index |-> i, term |-> log[i].term, data |-> log[i].data] \in issued
  BY DEF LogInv, PlaceInv, PlaceOk
<1>2. [index |-> i, term |-> log[i].term, data |-> proposals[j].req] \in issued
  BY DEF PlaceInv, PlaceOk
<1> QED
  BY <1>1, <1>2 DEF IssuedInv

\* A closure that was not run never will be.
LEMMA ForgottenStays ==
    ASSUME TypeOK, NEW r, Forgotten(r), dropped \subseteq dropped',
           \/ executed' = executed
           \/ \E e \in Entry : executed' = Append(executed, e)
    PROVE  Forgotten(r)'
<1>1. PICK i \in 1..Len(executed) :
         /\ executed[i].data \in Request /\ Cmd[executed[i].data].type = "kInvalid"
         /\ dropped = {} => executed[i].data = r
  BY DEF Forgotten
<1>2. i \in 1..Len(executed') /\ executed'[i] = executed[i]
  BY <1>1 DEF TypeOK
<1>3. dropped' = {} => dropped = {}
  OBVIOUS
<1> QED
  BY <1>1, <1>2, <1>3 DEF Forgotten

LEMMA AnswerStep ==
    ASSUME TypeOK, AnswerInv, IssuedInv, LogInv, PlaceInv, [Next]_vars
    PROVE  AnswerInv'
<1> USE ConstantFacts
<1>a. /\ Len(proposals) \in Nat
      /\ \A j \in 1..Len(proposals) : proposals[j].req \in Req
  <2>1. ASSUME NEW j \in 1..Len(proposals) PROVE proposals[j] \in Proposal
    BY <2>1 DEF TypeOK
  <2>2. Len(proposals) \in Nat
    BY DEF TypeOK
  <2> QED
    BY <2>1, <2>2 DEF Proposal
<1>b. asked \subseteq Req /\ resp \in [Req -> Seq(Response)]
  BY DEF TypeOK
<1>1. ASSUME NEW r \in Req, KvOpCb(r) PROVE AnswerInv'
  <2>1. /\ alive /\ r \notin asked /\ asked' = asked \cup {r} /\ alive' = alive
    BY <1>1 DEF KvOpCb, Idle
  <2>2. resp[r] = << >> /\ r \notin Waiting
    BY <2>1 DEF AnswerInv
  <2>a. ASSUME NEW x, Forgotten(x) PROVE Forgotten(x)'
    <3>1. dropped \subseteq dropped' /\ executed' = executed
      BY <1>1 DEF KvOpCb, RejectNotLeader, ProposeKvOp
    <3> QED
      BY <2>a, <3>1, ForgottenStays
  <2>3. CASE RejectNotLeader(r)
    <3>1. /\ UNCHANGED proposals
          /\ resp' = [resp EXCEPT ![r] = Append(@, Rejected)]
      BY <2>3 DEF RejectNotLeader
    <3>2. /\ resp'[r] # << >> /\ Len(resp'[r]) = 1
          /\ \A x \in Req : x # r => resp'[x] = resp[x]
      BY <1>b, <2>2, <3>1
    <3>3. Waiting' = Waiting
      BY <3>1 DEF Waiting
    <3> QED
      BY <1>b, <2>1, <2>2, <2>a, <3>1, <3>2, <3>3
      DEF AnswerInv, AnsweredAtMostOnce, NoAnswerLost
  <2>4. CASE ProposeKvOp(r)
    <3>1. resp' = resp
      BY <2>4 DEF ProposeKvOp
    <3>2. /\ Len(proposals') = Len(proposals) + 1
          /\ \A j \in 1..Len(proposals) : proposals'[j] = proposals[j]
          /\ proposals'[Len(proposals) + 1].req = r
      <4>1. /\ Len(proposals') = Len(proposals) + 1
            /\ \A j \in 1..Len(proposals) : proposals'[j] = proposals[j]
            /\ proposals'[Len(proposals) + 1] =
                 [index |-> Len(log) + 1, term |-> term, req |-> r]
        BY <2>4, ProposeFacts
      <4> QED
        BY <4>1
    <3>3. Waiting' = Waiting \cup {r}
      BY <1>a, <3>2 DEF Waiting
    <3>4. \A i, j \in 1..Len(proposals') :
             proposals'[i].req = proposals'[j].req => i = j
      <4>1. \A i, j \in 1..Len(proposals) :
               proposals[i].req = proposals[j].req => i = j
        BY <2>1 DEF AnswerInv, NoAnswerLost
      <4>2. \A i \in 1..Len(proposals) : proposals[i].req # r
        BY <2>2 DEF Waiting
      <4> QED
        BY <1>a, <3>2, <4>1, <4>2
    <3> QED
      BY <1>b, <2>1, <2>2, <2>a, <3>1, <3>3, <3>4
      DEF AnswerInv, AnsweredAtMostOnce, NoAnswerLost
  <2> QED
    BY <1>1, <2>3, <2>4 DEF KvOpCb
<1>2. ASSUME ProcessEntry PROVE AnswerInv'
  <2> DEFINE e == log[cur + 1]
             found == Lookup(cur + 1, e.term)
  <2>1. /\ alive /\ asked' = asked
        /\ proposals' = found.rest /\ ProcessNormal(e, found)
    BY <1>2 DEF ProcessEntry
  <2>2. cur + 1 \in 1..Len(log)
    BY <1>2 DEF ProcessEntry, TypeOK
  <2>3. PICK n \in 0..Len(proposals), m \in 0..Len(proposals) :
           /\ Splits(proposals, found, n, m)
           /\ m = n + 1 => proposals[m].index = cur + 1 /\ proposals[m].term = e.term
    <3>1. proposals \in Seq(Proposal)
      BY DEF TypeOK
    <3> QED
      BY <3>1, LookupSplits
  <2>4. /\ e \in Entry
        /\ m = n + 1 => /\ e.data \in Request /\ e.data # NoOp
                        /\ dropped = {} => e.data = proposals[m].req
    <3>1. m = n + 1 => m \in 1..Len(proposals)
      BY <1>a, <2>3
    <3>2. m = n + 1 => e.data \in Req
      BY <2>2, <2>3, <3>1, HitIsRequest
    <3>3. m = n + 1 /\ dropped = {} => e.data = proposals[m].req
      BY <2>2, <2>3, <3>1, HitIsOwn
    <3>4. e \in Entry
      BY <2>2 DEF TypeOK
    <3> QED
      BY <3>2, <3>3, <3>4
  <2> HIDE DEF e, found
  <2>5. PICK hit \in {found.hit, NoReq} :
           /\ resp' = Answer(found.rejected, hit, e)
           /\ alive' => \/ hit = found.hit
                        \/ Skips(e.data) /\ executed' = Append(executed, e)
    BY <2>1 DEF ProcessNormal
  <2>a. ASSUME NEW x, Forgotten(x) PROVE Forgotten(x)'
    <3>1. dropped' = dropped /\ executed' \in {executed, Append(executed, e)}
      BY <1>2, <2>1 DEF ProcessEntry, ProcessNormal
    <3> QED
      BY <2>4, <2>a, <3>1, ForgottenStays
  <2>b. ASSUME m = n + 1, Skips(e.data), executed' = Append(executed, e),
               NEW x, x = proposals[m].req
        PROVE  Forgotten(x)'
    <3>1. e.data \in Request /\ Cmd[e.data].type = "kInvalid"
      BY <2>4, <2>b, SkipsFacts
    <3>2. Len(executed') \in 1..Len(executed') /\ executed'[Len(executed')] = e
      BY <2>4, <2>b DEF TypeOK
    <3>3. dropped' = dropped
      BY <1>2 DEF ProcessEntry
    <3> QED
      BY <2>4, <2>b, <3>1, <3>2, <3>3 DEF Forgotten
  <2>6. /\ found.rejected = {proposals[j].req : j \in 1..n}
        /\ hit = NoReq \/ (m = n + 1 /\ hit = proposals[m].req)
        /\ alive' /\ m = n + 1 => \A x : x = proposals[m].req =>
                                           hit = x \/ Forgotten(x)'
        /\ m \in {n, n + 1}
        /\ Len(proposals') = Len(proposals) - m
        /\ \A i \in 1..Len(proposals') : proposals'[i] = proposals[i + m]
    BY <2>1, <2>3, <2>5, <2>b DEF Splits
  <2>7. \A x : x \in Waiting' <=> \E j \in (m + 1)..Len(proposals) : x = proposals[j].req
    <3>1. ASSUME NEW x, x \in Waiting'
          PROVE  \E j \in (m + 1)..Len(proposals) : x = proposals[j].req
      <4>1. PICK i \in 1..Len(proposals') : x = proposals'[i].req
        BY <3>1 DEF Waiting
      <4>2. i + m \in (m + 1)..Len(proposals)
        BY <1>a, <2>6, <4>1
      <4>3. x = proposals[i + m].req
        BY <2>6, <4>1
      <4> QED
        BY <4>2, <4>3
    <3>2. ASSUME NEW j \in (m + 1)..Len(proposals) PROVE proposals[j].req \in Waiting'
      <4>1. j - m \in 1..Len(proposals') /\ (j - m) + m = j
        BY <1>a, <2>6, <3>2
      <4>2. proposals'[j - m] = proposals[j]
        BY <2>6, <4>1
      <4> QED
        BY <4>1, <4>2 DEF Waiting
    <3> QED
      BY <3>1, <3>2
  <2>8. \A i, j \in 1..Len(proposals) : proposals[i].req = proposals[j].req => i = j
    BY <2>1 DEF AnswerInv, NoAnswerLost
  <2>9. \A r \in asked : /\ r \in Waiting => resp[r] = << >>
                         /\ resp[r] = << >> => r \in Waiting \/ Forgotten(r)
    BY <2>1 DEF AnswerInv, NoAnswerLost
  <2>10. ASSUME NEW r \in Req
         PROVE  /\ Len(resp'[r]) <= 1
                /\ r \notin asked => resp'[r] = << >>
                /\ r \in Waiting' => r \in Waiting
                /\ alive' /\ r \in asked =>
                      /\ r \in Waiting' => resp'[r] = << >>
                      /\ resp'[r] = << >> => r \in Waiting' \/ Forgotten(r)'
    <3>1. resp'[r] = IF r \in found.rejected THEN Append(resp[r], Rejected)
                     ELSE IF r = hit THEN Append(resp[r], Done(kv_db, Cmd[e.data]))
                     ELSE resp[r]
      BY <2>5, <2>10 DEF Answer
    <3>2. r \in Waiting' => r \in Waiting
      BY <1>a, <2>6, <2>7 DEF Waiting
    <3>3. resp[r] \in Seq(Response) /\ Len(resp[r]) <= 1
      BY <1>b, <2>10 DEF AnswerInv, AnsweredAtMostOnce
    <3>4. ASSUME NEW j \in 1..m, r = proposals[j].req
          PROVE  r \in asked /\ resp[r] = << >> /\ r \notin Waiting'
      <4>1. j \in 1..Len(proposals) /\ j \notin (m + 1)..Len(proposals)
        BY <1>a
      <4>2. r \in Waiting
        BY <3>4, <4>1 DEF Waiting
      <4>3. r \in asked
        BY <4>2 DEF AnswerInv
      <4>4. r \notin Waiting'
        <5>1. \A i \in (m + 1)..Len(proposals) : i \in 1..Len(proposals)
          BY <1>a
        <5> QED
          BY <2>7, <2>8, <3>4, <4>1, <5>1
      <4> QED
        BY <2>9, <4>2, <4>3, <4>4
    <3>5. CASE r \in found.rejected
      <4>1. PICK j \in 1..n : r = proposals[j].req
        BY <2>6, <3>5
      <4>2. r \in asked /\ resp[r] = << >> /\ r \notin Waiting'
        BY <2>6, <3>4, <4>1
      <4>3. resp'[r] = Append(<< >>, Rejected)
        BY <3>1, <3>5, <4>2
      <4>4. Len(resp'[r]) = 1 /\ resp'[r] # << >>
        BY <4>3
      <4> QED
        BY <3>2, <4>2, <4>4
    <3>6. CASE r \notin found.rejected /\ r = hit
      <4>1. m = n + 1 /\ r = proposals[m].req /\ m \in 1..m
        BY <2>6, <2>10, <3>6
      <4>2. r \in asked /\ resp[r] = << >> /\ r \notin Waiting'
        BY <3>4, <4>1
      <4>3. resp'[r] = Append(<< >>, Done(kv_db, Cmd[e.data]))
        BY <3>1, <3>6, <4>1, <4>2
      <4>4. Len(resp'[r]) = 1 /\ resp'[r] # << >>
        BY <4>3
      <4> QED
        BY <3>2, <4>2, <4>4
    <3>7. CASE r \notin found.rejected /\ r # hit
      <4>1. resp'[r] = resp[r]
        BY <3>1, <3>7
      <4>2. r \notin asked => resp[r] = << >>
        BY <2>10 DEF AnswerInv
      <4>3. ASSUME alive', r \in Waiting PROVE r \in Waiting' \/ Forgotten(r)'
        <5>1. PICK j \in 1..Len(proposals) : r = proposals[j].req
          BY <4>3 DEF Waiting
        <5>2. j \notin 1..n
          BY <2>6, <3>7, <5>1
        <5>3. m = n + 1 /\ j = m => Forgotten(r)'
          BY <2>6, <3>7, <4>3, <5>1
        <5>4. CASE ~(m = n + 1 /\ j = m)
          <6>1. j \in (m + 1)..Len(proposals)
            BY <1>a, <2>6, <5>2, <5>4
          <6> QED
            BY <2>7, <5>1, <6>1
        <5> QED
          BY <5>3, <5>4
      <4> QED
        BY <2>9, <2>a, <3>2, <3>3, <4>1, <4>2, <4>3
    <3> QED
      BY <3>5, <3>6, <3>7
  <2>11. alive' => \A i, j \in 1..Len(proposals') :
                      proposals'[i].req = proposals'[j].req => i = j
    BY <1>a, <2>6, <2>8
  <2>12. Waiting' \subseteq asked'
    <3>1. \A x \in Waiting' : x \in Req
      BY <1>a, <2>6, <2>7
    <3> QED
      BY <2>1, <2>10, <3>1 DEF AnswerInv
  <2> QED
    BY <1>b, <2>1, <2>10, <2>11, <2>12
    DEF AnswerInv, AnsweredAtMostOnce, NoAnswerLost
<1>3. ASSUME UNCHANGED <<alive, asked, proposals, resp, executed, dropped>>
      PROVE  AnswerInv'
  BY <1>3 DEF AnswerInv, AnsweredAtMostOnce, NoAnswerLost, Waiting, Forgotten
<1> QED
  BY <1>1, <1>2, <1>3 DEF Next, Step, Tick, Advance, kvVars, vars

-----------------------------------------------------------------------------
(***************************************************************************)
(* What the answers say.                                                   *)
(***************************************************************************)
\* What a prefix of the executed entries left in the database does not depend on
\* what is executed later.
LEMMA LastWrittenKept ==
    ASSUME NEW n \in Nat, NEW k, NEW v, LastWritten(n, k, v),
           \A i \in 1..n : executed'[i] = executed[i]
    PROVE  LastWritten(n, k, v)'
<1>1. CASE v = NoVal /\ \A i \in 1..n : ~Writes(executed[i], k)
  BY <1>1 DEF LastWritten, Writes
<1>2. ASSUME NEW i \in 1..n, Writes(executed[i], k),
             \A j \in (i + 1)..n : ~Writes(executed[j], k),
             v = IF Cmd[executed[i].data].type = "kPut"
                 THEN Cmd[executed[i].data].val ELSE NoVal
      PROVE  LastWritten(n, k, v)'
  <2>1. \A j \in (i + 1)..n : j \in 1..n
    OBVIOUS
  <2>2. executed'[i] = executed[i] /\ \A j \in (i + 1)..n : executed'[j] = executed[j]
    BY <2>1
  <2>3. Writes(executed[i], k)' /\ \A j \in (i + 1)..n : ~Writes(executed[j], k)'
    BY <1>2, <2>2 DEF Writes
  <2>4. v = IF Cmd[executed'[i].data].type = "kPut"
            THEN Cmd[executed'[i].data].val ELSE NoVal
    BY <1>2, <2>2
  <2> QED
    BY <2>3, <2>4 DEF LastWritten
<1> QED
  BY <1>1, <1>2 DEF LastWritten

LEMMA DbStep ==
    ASSUME TypeOK, DbInv, [Next]_vars
    PROVE  DbInv'
<1> USE ConstantFacts
<1>1. ASSUME ProcessEntry PROVE DbInv'
  <2> DEFINE e == log[cur + 1]
  <2>0. PICK N \in Nat : N = Len(executed)
    BY DEF TypeOK
  <2>1. \/ UNCHANGED <<kv_db, executed>>
        \/ /\ executed' = Append(executed, e)
           /\ \/ Skips(e.data) /\ kv_db' = kv_db
              \/ ~Skips(e.data) /\ kv_db' = Apply(kv_db, Cmd[e.data])
    BY <1>1 DEF ProcessEntry, ProcessNormal
  <2>2. CASE UNCHANGED <<kv_db, executed>>
    BY <2>2 DEF DbInv, LastWritten
  <2>3. CASE /\ executed' = Append(executed, e)
             /\ \/ Skips(e.data) /\ kv_db' = kv_db
                \/ ~Skips(e.data) /\ kv_db' = Apply(kv_db, Cmd[e.data])
    <3>1. e \in Entry /\ e.data \in Request \cup {NoOp}
      <4>1. log \in Seq(Entry) /\ cur + 1 \in 1..Len(log)
        BY <1>1 DEF ProcessEntry, TypeOK
      <4> QED
        BY <4>1, EntryTypes
    <3>2. e.data # NoOp => Cmd[e.data] \in Command
      BY <3>1
    <3> HIDE DEF e
    <3>3. /\ Len(executed') = N + 1
          /\ \A i \in 1..N : executed'[i] = executed[i]
          /\ executed'[N + 1] = e
      BY <2>0, <2>3, <3>1 DEF TypeOK
    <3>4. ASSUME NEW k \in Key PROVE LastWritten(N + 1, k, kv_db[k])'
      <4>1. kv_db \in [Key -> Val \cup {NoVal}]
        BY DEF TypeOK, Db
      <4>2. PICK v : v = kv_db'[k]
        OBVIOUS
      <4>3. CASE Writes(e, k)
        <5>1. /\ e.data # NoOp /\ Cmd[e.data].type \in {"kPut", "kDel"}
              /\ Cmd[e.data].key = k /\ ~Skips(e.data)
          BY <3>1, <4>3, SkipsFacts DEF Writes
        <5>2. v = IF Cmd[e.data].type = "kPut" THEN Cmd[e.data].val ELSE NoVal
          BY <2>3, <4>1, <4>2, <5>1 DEF Apply
        <5>3. N + 1 \in 1..(N + 1) /\ \A j \in (N + 1 + 1)..(N + 1) : FALSE
          OBVIOUS
        <5>4. Writes(executed'[N + 1], k)
          BY <3>3, <4>3
        <5>5. v = IF Cmd[executed'[N + 1].data].type = "kPut"
                  THEN Cmd[executed'[N + 1].data].val ELSE NoVal
          BY <3>3, <5>2
        <5>6. LastWritten(N + 1, k, v)'
          BY <5>3, <5>4, <5>5 DEF LastWritten, Writes
        <5> QED
          BY <4>2, <5>6
      <4>4. CASE ~Writes(e, k)
        <5>1. v = kv_db[k]
          <6>1. CASE Skips(e.data)
            BY <2>3, <4>2, <6>1
          <6>2. CASE ~Skips(e.data) /\ Cmd[e.data].type \notin {"kPut", "kDel"}
            BY <2>3, <4>2, <6>2 DEF Apply
          <6>3. CASE ~Skips(e.data) /\ Cmd[e.data].type \in {"kPut", "kDel"}
            <7>1. e.data # NoOp /\ Cmd[e.data].key # k
              BY <3>1, <4>4, <6>3, SkipsFacts DEF Writes
            <7> QED
              BY <2>3, <4>1, <4>2, <6>3, <7>1 DEF Apply
          <6> QED
            BY <6>1, <6>2, <6>3
        <5>2. LastWritten(N, k, v)
          BY <2>0, <5>1 DEF DbInv
        <5>3. LastWritten(N, k, v)'
          BY <3>3, <5>2, LastWrittenKept
        <5>4. ~Writes(executed'[N + 1], k)
          BY <3>3, <4>4
        <5>5. 1..(N + 1) = 1..N \cup {N + 1}
          OBVIOUS
        <5>6. \A i \in 1..N : (i + 1)..(N + 1) = (i + 1)..N \cup {N + 1}
          OBVIOUS
        <5>7. LastWritten(N + 1, k, v)'
          <6>1. CASE v = NoVal /\ \A i \in 1..N : ~Writes(executed'[i], k)
            <7>1. \A i \in 1..(N + 1) : ~Writes(executed'[i], k)
              BY <5>4, <5>5, <6>1
            <7> QED
              BY <6>1, <7>1 DEF LastWritten, Writes
          <6>2. CASE \E i \in 1..N :
                       /\ Writes(executed'[i], k)
                       /\ \A j \in (i + 1)..N : ~Writes(executed'[j], k)
                       /\ v = IF Cmd[executed'[i].data].type = "kPut"
                              THEN Cmd[executed'[i].data].val ELSE NoVal
            <7>1. PICK i \in 1..N :
                       /\ Writes(executed'[i], k)
                       /\ \A j \in (i + 1)..N : ~Writes(executed'[j], k)
                       /\ v = IF Cmd[executed'[i].data].type = "kPut"
                              THEN Cmd[executed'[i].data].val ELSE NoVal
              BY <6>2
            <7>2. \A j \in (i + 1)..(N + 1) : ~Writes(executed'[j], k)
              BY <5>4, <5>6, <7>1
            <7>3. i \in 1..(N + 1)
              BY <5>5
            <7> QED
              BY <7>1, <7>2, <7>3 DEF LastWritten, Writes
          <6> QED
            BY <5>3, <6>1, <6>2 DEF LastWritten, Writes
        <5> QED
          BY <4>2, <5>7
      <4> QED
        BY <4>3, <4>4
    <3> QED
      BY <3>3, <3>4 DEF DbInv
  <2> QED
    BY <2>1, <2>2, <2>3
<1>2. ASSUME UNCHANGED <<kv_db, executed>> PROVE DbInv'
  BY <1>2 DEF DbInv, LastWritten
<1> QED
  BY <1>1, <1>2 DEF Next, KvOpCb, Step, Tick, Advance, kvVars, vars

\* The place of r among the executed entries, and what a Get of it was told.
Backed(r, value) ==
    \E i \in 1..Len(executed) :
        /\ executed[i].data = r
        /\ Cmd[r].type = "kGet" => LastWritten(i - 1, Cmd[r].key, value)

LEMMA BackedKept ==
    ASSUME TypeOK, NEW r, NEW value, Backed(r, value), Len(executed') \in Nat,
           Len(executed') >= Len(executed),
           \A i \in 1..Len(executed) : executed'[i] = executed[i]
    PROVE  Backed(r, value)'
<1>1. PICK i \in 1..Len(executed) :
          /\ executed[i].data = r
          /\ Cmd[r].type = "kGet" => LastWritten(i - 1, Cmd[r].key, value)
  BY DEF Backed
<1>2. /\ Len(executed) \in Nat /\ i - 1 \in Nat /\ i \in 1..Len(executed')
      /\ \A j \in 1..(i - 1) : executed'[j] = executed[j]
  BY <1>1 DEF TypeOK
<1>3. executed'[i].data = r
  BY <1>1
<1>4. Cmd[r].type = "kGet" => LastWritten(i - 1, Cmd[r].key, value)'
  BY <1>1, <1>2, LastWrittenKept
<1> QED
  BY <1>2, <1>3, <1>4 DEF Backed

LEMMA DoneStep ==
    ASSUME TypeOK, AnswerInv, IssuedInv, LogInv, PlaceInv, DbInv, ExecutedInOrder,
           DoneIsExecuted, [Next]_vars
    PROVE  DoneIsExecuted'
<1> USE ConstantFacts
<1>a. DoneIsExecuted <=>
        (dropped = {} => \A r \in Req : resp[r] # << >> /\ ~resp[r][1].rejected
                                           => Backed(r, resp[r][1].value))
  BY DEF DoneIsExecuted, Backed
<1>b. DoneIsExecuted' <=>
        (dropped' = {} => \A r \in Req : resp'[r] # << >> /\ ~resp'[r][1].rejected
                                            => Backed(r, resp[r][1].value)')
  BY DEF DoneIsExecuted, Backed
<1>c. Rejected.rejected = TRUE
  BY DEF Rejected
<1>1. ASSUME NEW r \in Req, KvOpCb(r) PROVE DoneIsExecuted'
  <2>1. executed' = executed /\ (dropped' = {} => dropped = {})
    BY <1>1 DEF KvOpCb, RejectNotLeader, ProposeKvOp
  <2>2. resp' = resp \/ resp' = [resp EXCEPT ![r] = Append(@, Rejected)]
    BY <1>1 DEF KvOpCb, RejectNotLeader, ProposeKvOp
  <2>3. resp[r] = << >> /\ resp \in [Req -> Seq(Response)]
    BY <1>1 DEF KvOpCb, AnswerInv, TypeOK
  <2>4. ASSUME dropped' = {}, NEW x \in Req, resp'[x] # << >>, ~resp'[x][1].rejected
        PROVE  Backed(x, resp[x][1].value)'
    <3>1. resp'[x] = resp[x]
      <4>1. CASE x = r /\ resp' = [resp EXCEPT ![r] = Append(@, Rejected)]
        <5>1. resp'[x] = Append(<< >>, Rejected)
          BY <2>3, <4>1
        <5>2. resp'[x][1] = Rejected
          BY <5>1
        <5> QED
          BY <1>c, <2>4, <5>2
      <4> QED
        BY <2>2, <2>3, <4>1
    <3>2. PICK v : v = resp[x][1].value
      OBVIOUS
    <3>3. Backed(x, v)
      BY <1>a, <2>1, <2>4, <3>1, <3>2
    <3>4. Backed(x, v)'
      BY <2>1, <3>3 DEF Backed, LastWritten
    <3> QED
      BY <3>1, <3>2, <3>4
  <2> QED
    BY <1>b, <2>4
<1>2. ASSUME ProcessEntry PROVE DoneIsExecuted'
  <2> DEFINE e == log[cur + 1]
             found == Lookup(cur + 1, e.term)
  <2>0. PICK N \in Nat : N = Len(executed)
    BY DEF TypeOK
  <2>1. /\ alive /\ asked' = asked /\ dropped' = dropped
        /\ ProcessNormal(e, found)
    BY <1>2 DEF ProcessEntry
  <2>2. cur + 1 \in 1..Len(log) /\ e \in Entry
    BY <1>2 DEF ProcessEntry, TypeOK
  <2>3. PICK n \in 0..Len(proposals), m \in 0..Len(proposals) :
           /\ Splits(proposals, found, n, m)
           /\ m = n + 1 => proposals[m].index = cur + 1 /\ proposals[m].term = e.term
    <3>1. proposals \in Seq(Proposal)
      BY DEF TypeOK
    <3> QED
      BY <3>1, LookupSplits
  <2>4. dropped = {} /\ m = n + 1 => e.data = proposals[m].req
    <3>1. m = n + 1 => m \in 1..Len(proposals)
      BY <2>3 DEF TypeOK
    <3> QED
      BY <2>2, <2>3, <3>1, HitIsOwn
  <2> HIDE DEF e, found
  <2>5. \/ /\ resp' = Answer(found.rejected, found.hit, e)
           /\ executed' = Append(executed, e)
        \/ /\ resp' = Answer(found.rejected, NoReq, e)
           /\ executed' \in {executed, Append(executed, e)}
    BY <2>1 DEF ProcessNormal
  <2>6. /\ Len(executed') \in Nat /\ Len(executed') >= Len(executed)
        /\ \A i \in 1..Len(executed) : executed'[i] = executed[i]
    <3>1. executed \in Seq(Entry)
      BY DEF TypeOK
    <3>2. CASE executed' = Append(executed, e)
      BY <2>2, <3>1, <3>2
    <3>3. CASE executed' = executed
      BY <3>1, <3>3
    <3> QED
      BY <2>5, <3>2, <3>3
  <2>7. ASSUME dropped' = {}, NEW r \in Req, resp'[r] # << >>, ~resp'[r][1].rejected
        PROVE  Backed(r, resp[r][1].value)'
    <3>1. r \in Waiting => resp[r] = << >>
      BY <2>1, <2>7 DEF AnswerInv, NoAnswerLost
    <3>2. CASE resp'[r] = resp[r]
      <4>1. PICK v : v = resp[r][1].value
        OBVIOUS
      <4>2. Backed(r, v)
        BY <1>a, <2>1, <2>7, <3>2, <4>1
      <4>3. Backed(r, v)'
        BY <2>6, <4>2, BackedKept
      <4> QED
        BY <3>2, <4>1, <4>3
    <3>3. CASE r \in found.rejected
      <4>1. r \in Waiting
        <5>1. PICK j \in 1..n : r = proposals[j].req
          BY <2>3, <3>3 DEF Splits
        <5>2. j \in 1..Len(proposals)
          BY <2>3 DEF TypeOK
        <5> QED
          BY <5>1, <5>2 DEF Waiting
      <4>2. resp'[r] = Append(resp[r], Rejected)
        BY <2>5, <2>7, <3>3 DEF Answer
      <4>3. resp[r] = << >>
        BY <3>1, <4>1
      <4>4. resp'[r][1] = Rejected
        BY <4>2, <4>3
      <4> QED
        BY <1>c, <2>7, <4>4
    <3>4. CASE r \notin found.rejected /\ resp'[r] # resp[r]
      <4>1. /\ r = found.hit /\ executed' = Append(executed, e)
            /\ resp'[r] = Append(resp[r], Done(kv_db, Cmd[e.data]))
        BY <2>5, <2>7, <3>4 DEF Answer
      <4>2. m = n + 1 /\ r = proposals[m].req
        BY <2>3, <4>1 DEF Splits
      <4>3. r \in Waiting
        BY <2>3, <4>2 DEF Waiting, TypeOK
      <4>4. e.data = r /\ resp[r] = << >>
        BY <2>1, <2>4, <2>7, <3>1, <4>2, <4>3
      <4>5. resp'[r][1] = Done(kv_db, Cmd[r])
        BY <4>1, <4>4
      <4>6. PICK v : v = resp'[r][1].value
        OBVIOUS
      <4>7. /\ N + 1 \in 1..Len(executed') /\ executed'[N + 1] = e
            /\ (N + 1) - 1 = N
        BY <2>0, <2>2, <4>1 DEF TypeOK
      <4>8. Cmd[r].type = "kGet" => LastWritten(N, Cmd[r].key, v)'
        <5>1. SUFFICES ASSUME Cmd[r].type = "kGet"
                       PROVE  LastWritten(N, Cmd[r].key, v)'
          OBVIOUS
        <5>2. v = kv_db[Cmd[r].key] /\ Cmd[r].key \in Key
          BY <2>7, <4>5, <4>6, <5>1 DEF Done, Command
        <5>3. LastWritten(N, Cmd[r].key, v)
          BY <2>0, <5>2 DEF DbInv
        <5> QED
          BY <2>0, <2>6, <5>3, LastWrittenKept
      <4>9. Backed(r, v)'
        BY <4>4, <4>7, <4>8 DEF Backed
      <4> QED
        BY <4>6, <4>9
    <3> QED
      BY <3>2, <3>3, <3>4
  <2> QED
    BY <1>b, <2>7
<1>3. ASSUME UNCHANGED <<resp, executed, dropped>> PROVE DoneIsExecuted'
  BY <1>3 DEF DoneIsExecuted, LastWritten
<1> QED
  BY <1>1, <1>2, <1>3 DEF Next, Step, Tick, Advance, kvVars, vars

-----------------------------------------------------------------------------
(***************************************************************************)
(* The invariant, and the theorems it yields.                              *)
(***************************************************************************)
LEMMA IndInit == Init => IndInv
<1> SUFFICES ASSUME Init PROVE IndInv
  OBVIOUS
<1>1. TypeOK
  BY TypeInit
<1>2. ReadyInv /\ ExecutedInOrder
  BY DEF Init, ReadyInv, ExecutedInOrder
<1>3. AnswerInv
  BY DEF Init, AnswerInv, AnsweredAtMostOnce, NoAnswerLost, Waiting
<1>4. IssuedInv
  BY DEF Init, IssuedInv
<1>5. LogInv /\ PlaceInv /\ ProposalsSorted
  BY DEF Init, LogInv, PlaceInv, ProposalsSorted
<1>6. DbInv
  <2>1. Len(executed) = 0 /\ \A k \in Key : kv_db[k] = NoVal
    BY DEF Init, EmptyDb
  <2>2. \A i \in 1..0 : FALSE
    OBVIOUS
  <2> QED
    BY <2>1, <2>2 DEF DbInv, LastWritten
<1>7. DoneIsExecuted
  BY DEF Init, DoneIsExecuted
<1> QED
  BY <1>1, <1>2, <1>3, <1>4, <1>5, <1>6, <1>7 DEF IndInv

LEMMA IndStep == IndInv /\ [Next]_vars => IndInv'
<1> SUFFICES ASSUME IndInv, [Next]_vars PROVE IndInv'
  OBVIOUS
<1> USE DEF IndInv
<1>1. TypeOK'
  BY TypeStep
<1>2. ReadyInv' /\ ExecutedInOrder'
  BY ExecStep
<1>3. AnswerInv'
  BY AnswerStep
<1>4. IssuedInv' /\ LogInv' /\ PlaceInv' /\ ProposalsSorted'
  BY IssuedStep, LogStep, PlaceStep, SortedStep
<1>5. DbInv' /\ DoneIsExecuted'
  BY DbStep, DoneStep
<1> QED
  BY <1>1, <1>2, <1>3, <1>4, <1>5

THEOREM Invariance == Spec => []IndInv
BY IndInit, IndStep, PTL DEF Spec

\* Whatever elections, step-downs and overwritten log tails a request lives
\* through, done->Run() is called at most once for it.
THEOREM AnsweredOnce == Spec => []AnsweredAtMostOnce
<1>1. IndInv => AnsweredAtMostOnce
  BY DEF IndInv, AnswerInv
<1> QED
  BY <1>1, Invariance, PTL

\* A request that was received and not answered still waits in proposals_,
\* exactly once, until an abort: no path of KvOpCb, GetProposal or CallbackAll
\* drops a closure without running it.  The one path that does is the return of
\* ProcessNormal from a committed request of type kInvalid.
THEOREM AnswersExact == Spec => []NoAnswerLost
<1>1. IndInv => NoAnswerLost
  BY DEF IndInv, AnswerInv
<1> QED
  BY <1>1, Invariance, PTL

\* The deque is ordered by (term, index): the loop of GetProposal may stop at
\* its head.
THEOREM DequeSorted == Spec => []ProposalsSorted
<1>1. IndInv => ProposalsSorted
  BY DEF IndInv
<1> QED
  BY <1>1, Invariance, PTL

\* While Propose has dropped nothing, "done" is only ever told to a client
\* whose own entry was executed, with the value of the last write before it.
THEOREM DoneIsTrue == Spec => []DoneIsExecuted
<1>1. IndInv => DoneIsExecuted
  BY DEF IndInv
<1> QED
  BY <1>1, Invariance, PTL

\* A leader that executes the entry of a Get, Put or Del that still waits answers
\* it with "done": GetProposal pops exactly the proposals before it.
THEOREM LeaderAnswersWaiting == Spec => LeaderAnswers
<1> DEFINE A == isLeader /\ dropped = {} /\ Len(executed') > Len(executed) =>
                   LET r == executed'[Len(executed')].data
                   IN  (r \in asked /\ resp[r] = << >> /\ ~Skips(r)) =>
                           resp'[r] # << >> /\ ~resp'[r][1].rejected
<1>1. IndInv /\ [Next]_vars => [A]_vars
  <2> SUFFICES ASSUME IndInv, [Next]_vars, isLeader, dropped = {},
                      Len(executed') > Len(executed),
                      NEW r, r = executed'[Len(executed')].data,
                      r \in asked, resp[r] = << >>, ~Skips(r)
               PROVE  resp'[r] # << >> /\ ~resp'[r][1].rejected
    OBVIOUS
  <2> USE ConstantFacts
  <2>1. ProcessEntry
    <3>1. executed \in Seq(Entry) /\ ~(Len(executed) > Len(executed))
      BY DEF IndInv, TypeOK
    <3> QED
      BY <3>1 DEF Next, KvOpCb, Step, Tick, Advance, vars
  <2>2. TypeOK /\ AnswerInv /\ IssuedInv /\ LogInv /\ PlaceInv /\ ProposalsSorted
    BY DEF IndInv
  <2> DEFINE e == log[cur + 1]
             found == GetProposal(proposals, cur + 1, e.term)
  <2>3. /\ cur + 1 \in 1..Len(log) /\ e \in Entry /\ alive
    BY <2>1, <2>2 DEF ProcessEntry, TypeOK
  <2>4. ProcessNormal(e, found)
    BY <2>1 DEF ProcessEntry, Lookup
  <2>5. proposals \in Seq(Proposal) /\ Len(proposals) \in Nat
    BY <2>2 DEF TypeOK
  <2>6. PICK n \in 0..Len(proposals), m \in 0..Len(proposals) :
           /\ Splits(proposals, found, n, m)
           /\ \A j \in 1..n : Stale(proposals[j], cur + 1, e.term)
           /\ n < Len(proposals) => ~Stale(proposals[n + 1], cur + 1, e.term)
           /\ m = n + 1 <=> /\ n < Len(proposals)
                            /\ proposals[n + 1].index = cur + 1
                            /\ proposals[n + 1].term = e.term
    BY <2>5, GetProposalSplits
  <2> HIDE DEF found
  <2>7. /\ executed' = Append(executed, e)
        /\ Skips(e.data) \/ resp' = Answer(found.rejected, found.hit, e)
    <3>1. \/ /\ executed' = Append(executed, e)
             /\ Skips(e.data) \/ resp' = Answer(found.rejected, found.hit, e)
          \/ executed' = executed
      BY <2>4 DEF ProcessNormal
    <3>2. ~(Len(executed) > Len(executed))
      BY <2>2 DEF TypeOK
    <3> QED
      BY <3>1, <3>2
  <2>8. e.data = r /\ r \in Req /\ e.data # NoOp /\ ~Skips(e.data)
    <3>1. executed'[Len(executed')] = e
      BY <2>2, <2>3, <2>7 DEF TypeOK
    <3> QED
      BY <2>2, <3>1 DEF TypeOK
  <2>9. PICK j \in 1..Len(proposals) : proposals[j].req = r
    <3>1. ~Forgotten(r)
      BY <2>8, SkipsFacts DEF Forgotten
    <3>2. r \in Waiting
      BY <2>2, <2>3, <3>1 DEF AnswerInv, NoAnswerLost
    <3> QED
      BY <3>2 DEF Waiting
  <2>10. proposals[j].index = cur + 1 /\ proposals[j].term = e.term
    <3>1. [index |-> cur + 1, term |-> e.term, data |-> r] \in issued
      BY <2>2, <2>3, <2>8 DEF LogInv
    <3>2. [index |-> proposals[j].index, term |-> proposals[j].term, data |-> r]
             \in issued
      BY <2>2, <2>9 DEF PlaceInv, PlaceOk
    <3>3. [index |-> cur + 1, term |-> e.term, data |-> r]
           = [index |-> proposals[j].index, term |-> proposals[j].term, data |-> r]
      BY <2>2, <2>8, <3>1, <3>2 DEF IssuedInv
    <3> QED
      BY <3>3
  <2>11. cur + 1 \in Nat /\ e.term \in Nat
    <3>1. log \in Seq(Entry)
      BY <2>2 DEF TypeOK
    <3> QED
      BY <2>3, <3>1, EntryTypes
  <2>12. j = n + 1
    <3>1. ~(j \in 1..n)
      BY <2>6, <2>10, <2>11 DEF Stale
    <3>2. ASSUME n + 1 < j PROVE FALSE
      <4>1. n + 1 \in 1..Len(proposals)
        BY <2>5, <2>9, <3>2
      <4>2. \/ proposals[n + 1].term < e.term
            \/ proposals[n + 1].term = e.term /\ proposals[n + 1].index < cur + 1
        BY <2>2, <2>9, <2>10, <3>2, <4>1 DEF ProposalsSorted
      <4>3. proposals[n + 1].term \in Nat /\ proposals[n + 1].index \in Nat
        <5>1. proposals[n + 1] \in Proposal
          BY <2>5, <4>1
        <5> QED
          BY <5>1 DEF Proposal
      <4>4. Stale(proposals[n + 1], cur + 1, e.term)
        BY <2>11, <4>2, <4>3 DEF Stale
      <4> QED
        BY <2>5, <2>6, <4>1, <4>4
    <3> QED
      BY <2>5, <2>6, <2>9, <3>1, <3>2
  <2>13. m = n + 1 /\ found.hit = r
    <3>1. m = n + 1
      BY <2>5, <2>6, <2>9, <2>10, <2>12
    <3> QED
      BY <2>6, <2>9, <2>12, <3>1 DEF Splits
  <2>14. r \notin found.rejected
    <3>1. \A i, k \in 1..Len(proposals) : proposals[i].req = proposals[k].req => i = k
      BY <2>2, <2>3 DEF AnswerInv, NoAnswerLost
    <3>2. \A i \in 1..n : i \in 1..Len(proposals) /\ i # j
      BY <2>5, <2>6, <2>12
    <3>3. \A i \in 1..n : proposals[i].req # r
      BY <2>9, <3>1, <3>2
    <3> QED
      BY <2>6, <3>3 DEF Splits
  <2>15. resp'[r] = Append(<< >>, Done(kv_db, Cmd[r]))
    BY <2>7, <2>8, <2>13, <2>14 DEF Answer
  <2>16. resp'[r] # << >> /\ resp'[r][1] = Done(kv_db, Cmd[r])
    BY <2>15
  <2>17. Done(kv_db, Cmd[r]).rejected = FALSE
    BY DEF Done
  <2> QED
    BY <2>16, <2>17
<1> QED
  BY <1>1, Invariance, PTL DEF Spec, LeaderAnswers

-----------------------------------------------------------------------------
(***************************************************************************)
(* A peer implements KvStore while Propose drops nothing: every step of    *)
(* Peer is a step of the store, or none at all.                            *)
(***************************************************************************)
\* Executing one more entry is one more effect.
LEMMA EffectsAppend ==
    ASSUME TypeOK, NEW e \in Entry, executed' = Append(executed, e)
    PROVE  Effects' = Append(Effects, e.data)
<1>1. executed \in Seq(Entry) /\ Len(executed) \in Nat
  BY DEF TypeOK
<1>2. /\ Len(executed') = Len(executed) + 1
      /\ \A i \in 1..Len(executed) : executed'[i] = executed[i]
      /\ executed'[Len(executed) + 1] = e
  BY <1>1
<1>3. Effects \in Seq({executed[i].data : i \in 1..Len(executed)}) /\ Len(Effects) = Len(executed)
  BY <1>1 DEF Effects
<1>4. Append(Effects, e.data) =
        [i \in 1..(Len(executed) + 1) |->
            IF i = Len(executed) + 1 THEN e.data ELSE Effects[i]]
  BY <1>1, <1>3
<1>5. ASSUME NEW i \in 1..(Len(executed) + 1)
      PROVE  executed'[i].data = IF i = Len(executed) + 1 THEN e.data ELSE Effects[i]
  <2>1. CASE i = Len(executed) + 1
    BY <1>2, <2>1
  <2>2. CASE i # Len(executed) + 1
    <3>1. i \in 1..Len(executed)
      BY <1>1, <1>5, <2>2
    <3> QED
      BY <1>2, <2>2, <3>1 DEF Effects
  <2> QED
    BY <2>1, <2>2
<1>6. Effects' = [i \in 1..(Len(executed) + 1) |-> executed'[i].data]
  BY <1>2 DEF Effects
<1> QED
  BY <1>4, <1>5, <1>6

\* What the store says of its effects is what the peer's properties say of the
\* executed entries (stated of the next state, where it is needed).
LEMMA ValueWrittenNext ==
    ASSUME TypeOK', NEW n \in 0..Len(executed'), NEW k, NEW v, LastWritten(n, k, v)'
    PROVE  Store!ValueAfter(Effects, n, k, v)'
<1>1. Len(executed') \in Nat
  BY DEF TypeOK
<1>2. ASSUME NEW i \in 1..n
      PROVE  /\ Effects'[i] = executed'[i].data
             /\ Writes(executed'[i], k) <=> Store!Sets(Effects'[i], k)
  BY <1>1, <1>2 DEF Effects, Writes, Store!Sets
<1>3. CASE v = NoVal /\ \A i \in 1..n : ~Writes(executed'[i], k)
  BY <1>2, <1>3 DEF Store!ValueAfter
<1>4. ASSUME NEW i \in 1..n, Writes(executed'[i], k),
             \A j \in (i + 1)..n : ~Writes(executed'[j], k),
             v = IF Cmd[executed'[i].data].type = "kPut"
                 THEN Cmd[executed'[i].data].val ELSE NoVal
      PROVE  Store!ValueAfter(Effects, n, k, v)'
  <2>1. \A j \in (i + 1)..n : j \in 1..n
    BY <1>1
  <2> QED
    BY <1>2, <1>4, <2>1 DEF Store!ValueAfter
<1> QED
  BY <1>3, <1>4 DEF LastWritten

\* At most one answer is no answer, or one.
LEMMA ShortSequence ==
    ASSUME NEW S, NEW s \in Seq(S), Len(s) <= 1
    PROVE  s = << >> \/ \E x \in S : s = <<x>>
<1>1. CASE Len(s) = 0
  BY <1>1, EmptySeq
<1>2. CASE Len(s) = 1
  <2>1. s[1] \in S
    BY <1>2
  <2>2. <<s[1]>> \in Seq(S) /\ Len(<<s[1]>>) = 1 /\ <<s[1]>>[1] = s[1]
    BY <2>1
  <2>3. s = <<s[1]>>
    BY <1>2, <2>2, SeqEqual
  <2> QED
    BY <2>1, <2>3
<1>3. Len(s) = 0 \/ Len(s) = 1
  <2>1. Len(s) \in Nat /\ \A x \in Nat : x <= 1 => x = 0 \/ x = 1
    BY LenProperties
  <2> QED
    BY <2>1
<1> QED
  BY <1>1, <1>2, <1>3

\* KvStore's own copy of the answers.
LEMMA SameAnswers == Store!Rejected = Rejected /\ Store!Response = Response
BY DEF Store!Rejected, Rejected, Store!Response, Response

LEMMA StoreInit == Init => Store!Init
<1> SUFFICES ASSUME Init PROVE Store!Init
  OBVIOUS
<1>1. Effects = << >>
  BY DEF Init, Effects
<1> QED
  BY <1>1 DEF Init, Store!Init

LEMMA ReceiveStep ==
    ASSUME IndInv, NEW r \in Req, KvOpCb(r)
    PROVE  Store!Receive(r)
<1>1. /\ r \notin asked /\ asked' = asked \cup {r}
      /\ executed' = executed
      /\ resp' = resp \/ resp' = [resp EXCEPT ![r] = Append(@, Rejected)]
  BY DEF KvOpCb, RejectNotLeader, ProposeKvOp
<1>2. resp[r] = << >> /\ resp \in [Req -> Seq(Response)]
  BY <1>1 DEF IndInv, AnswerInv, TypeOK
<1>3. [resp EXCEPT ![r] = Append(@, Rejected)] = [resp EXCEPT ![r] = <<Rejected>>]
  BY <1>2
<1>4. Effects' = Effects
  BY <1>1 DEF Effects
<1> QED
  BY <1>1, <1>3, <1>4, SameAnswers DEF Store!Receive

LEMMA ServeStep ==
    ASSUME IndInv, IndInv', dropped' = {}, ProcessEntry
    PROVE  Store!Serve
<1> USE ConstantFacts
<1> DEFINE e == log[cur + 1]
           found == Lookup(cur + 1, e.term)
<1>1. /\ alive /\ asked' = asked /\ dropped = {} /\ cur < last
      /\ ProcessNormal(e, found)
  BY DEF ProcessEntry
<1>2. TypeOK /\ TypeOK' /\ proposals \in Seq(Proposal)
  BY DEF IndInv, TypeOK
<1>3. cur \in Nat /\ cur + 1 \in 1..Len(log) /\ e \in Entry
  <2>1. /\ log \in Seq(Entry) /\ committed \in 0..Len(log) /\ applied \in 0..committed
        /\ last \in applied..committed /\ cur \in applied..last
    BY <1>2 DEF TypeOK
  <2>2. cur \in Nat /\ cur + 1 \in 1..Len(log)
    BY <1>1, <2>1
  <2> QED
    BY <2>1, <2>2
<1>4. PICK n \in 0..Len(proposals), m \in 0..Len(proposals) :
         /\ Splits(proposals, found, n, m)
         /\ m = n + 1 => proposals[m].index = cur + 1 /\ proposals[m].term = e.term
  <2> HIDE DEF e
  <2>1. \E n, m \in 0..Len(proposals) :
           /\ Splits(proposals, Lookup(cur + 1, e.term), n, m)
           /\ m = n + 1 => proposals[m].index = cur + 1 /\ proposals[m].term = e.term
    BY <1>2, LookupSplits
  <2> QED
    BY <2>1
<1>5. m = n + 1 => e.data = proposals[m].req
  <2>1. m = n + 1 => m \in 1..Len(proposals)
    BY <1>2, <1>4
  <2> QED
    BY <1>1, <1>2, <1>3, <1>4, <2>1, HitIsOwn DEF IndInv
<1>6. e.data \in Req => e.data \in asked /\ \A i \in 1..Len(executed) : executed[i].data # e.data
  <2> SUFFICES ASSUME e.data \in Req
               PROVE  e.data \in asked /\ \A i \in 1..Len(executed) : executed[i].data # e.data
    OBVIOUS
  <2>1. [index |-> cur + 1, term |-> e.term, data |-> e.data] \in issued
    BY <1>3 DEF IndInv, LogInv
  <2>2. ASSUME NEW i \in 1..Len(executed), executed[i].data = e.data PROVE FALSE
    <3>1. i \in 1..Len(log) /\ i <= cur /\ log[i].data = e.data
      BY <1>2, <1>3, <2>2 DEF IndInv, ExecutedInOrder
    <3>2. [index |-> i, term |-> log[i].term, data |-> e.data] \in issued
      BY <3>1 DEF IndInv, LogInv
    <3>3. [index |-> i, term |-> log[i].term, data |-> e.data]
            = [index |-> cur + 1, term |-> e.term, data |-> e.data]
      BY <2>1, <3>2 DEF IndInv, IssuedInv
    <3> QED
      BY <1>3, <3>1, <3>3
  <2> QED
    BY <2>1, <2>2 DEF IndInv, IssuedInv
<1> HIDE DEF e, found
<1>7. \/ /\ resp' = Answer(found.rejected, found.hit, e)
         /\ executed' = Append(executed, e)
      \/ /\ resp' = Answer(found.rejected, NoReq, e)
         /\ executed' \in {executed, Append(executed, e)}
  BY <1>1 DEF ProcessNormal
<1>8. Store!TakeEffect \/ Effects' = Effects
  <2>1. CASE executed' = executed
    BY <2>1 DEF Effects
  <2>2. CASE executed' = Append(executed, e)
    <3>1. Effects' = Append(Effects, e.data)
      BY <1>2, <1>3, <2>2, EffectsAppend
    <3>2. e.data \in Request \cup {NoOp}
      BY <1>3 DEF Entry
    <3>3. /\ Len(Effects) = Len(executed)
          /\ \A i \in 1..Len(executed) : Effects[i] = executed[i].data
      BY <1>2 DEF Effects, TypeOK
    <3> QED
      BY <1>6, <3>1, <3>2, <3>3 DEF Store!TakeEffect
  <2> QED
    BY <1>7, <2>1, <2>2
<1>9. resp' \in [Req -> {<< >>} \cup {<<x>> : x \in Response}]
  <2>1. resp' \in [Req -> Seq(Response)] /\ \A r \in Req : Len(resp'[r]) <= 1
    BY <1>2 DEF IndInv, AnswerInv, AnsweredAtMostOnce, TypeOK
  <2>2. \A r \in Req : resp'[r] \in {<< >>} \cup {<<x>> : x \in Response}
    BY <2>1, ShortSequence
  <2> QED
    BY <2>1, <2>2
<1>10. ASSUME NEW r \in Req PROVE Store!Answer(r)
  <2>1. CASE resp'[r] = resp[r]
    BY <2>1 DEF Store!Answer
  <2>2. ASSUME r \in Waiting PROVE r \in asked /\ resp[r] = << >>
    BY <1>1, <2>2 DEF IndInv, AnswerInv, NoAnswerLost
  <2>3. CASE r \in found.rejected
    <3>1. PICK j \in 1..n : r = proposals[j].req
      BY <1>4, <2>3 DEF Splits
    <3>2. r \in Waiting
      BY <1>2, <1>4, <3>1 DEF Waiting
    <3>3. resp'[r] = Append(resp[r], Rejected)
      BY <1>7, <1>10, <2>3 DEF Answer
    <3>4. r \in asked /\ resp[r] = << >>
      BY <2>2, <3>2
    <3>5. resp'[r] = <<Rejected>>
      BY <3>3, <3>4
    <3> QED
      BY <3>4, <3>5, SameAnswers DEF Store!Answer
  <2>4. CASE r \notin found.rejected /\ resp'[r] # resp[r]
    <3>1. /\ r = found.hit /\ executed' = Append(executed, e)
          /\ resp'[r] = Append(resp[r], Done(kv_db, Cmd[e.data]))
      BY <1>7, <1>10, <2>4 DEF Answer
    <3>2. m = n + 1 /\ r = proposals[m].req
      BY <1>4, <3>1, <1>10 DEF Splits
    <3>3. r \in Waiting
      BY <1>2, <1>4, <3>2 DEF Waiting
    <3>4. r = e.data /\ r \in asked /\ resp[r] = << >>
      BY <1>5, <2>2, <3>2, <3>3
    <3>5. /\ resp'[r] = <<Done(kv_db, Cmd[r])>> /\ Len(resp'[r]) = 1
          /\ resp'[r][1] = Done(kv_db, Cmd[r]) /\ resp'[r] # << >>
      BY <3>1, <3>4
    <3>6. /\ ~Done(kv_db, Cmd[r]).rejected
          /\ Cmd[r].type # "kGet" => Done(kv_db, Cmd[r]).value = NoVal
      BY DEF Done
    <3>7. PICK i \in 1..Len(executed') :
             /\ executed'[i].data = r
             /\ Cmd[r].type = "kGet" => LastWritten(i - 1, Cmd[r].key, resp[r][1].value)'
      BY <1>10, <3>5, <3>6 DEF IndInv, DoneIsExecuted
    <3>8. PICK v : v = resp'[r][1].value
      OBVIOUS
    <3>9. Len(executed') \in Nat /\ i - 1 \in 0..Len(executed')
      <4>1. Len(executed') \in Nat
        BY <1>2 DEF TypeOK
      <4> QED
        BY <3>7, <4>1
    <3>10. Cmd[r].type = "kGet" => Store!ValueAfter(Effects, i - 1, Cmd[r].key, v)'
      BY <1>2, <3>7, <3>8, <3>9, ValueWrittenNext
    <3>11. Len(Effects') = Len(executed') /\ Effects'[i] = r
      BY <3>7, <3>9 DEF Effects
    <3>12. Store!Truthful(Effects', r, resp'[r][1])
      BY <3>5, <3>6, <3>8, <3>10, <3>11 DEF Store!Truthful, Store!ValueAfter
    <3> QED
      BY <3>4, <3>5, <3>12 DEF Store!Answer
  <2> QED
    BY <2>1, <2>3, <2>4
<1> QED
  BY <1>1, <1>8, <1>9, <1>10, SameAnswers DEF Store!Serve

\* A peer is a linearizable store for its clients: whatever happens to its
\* leadership and to the tail of its log, each of their requests takes effect at
\* most once, between KvOpCb and done->Run(), and "done" tells what it did, as
\* long as Propose drops nothing.
THEOREM PeerIsStore == Spec /\ [](dropped = {}) => ImplementsKvStore
<1> DEFINE NoDrop == dropped = {}
<1>1. IndInv /\ IndInv' /\ NoDrop' /\ [Next]_vars => [Store!Next]_(Store!vars)
  <2> SUFFICES ASSUME IndInv, IndInv', dropped' = {}, [Next]_vars
               PROVE  Store!Next \/ Store!vars' = Store!vars
    OBVIOUS
  <2>1. CASE \E r \in Req : KvOpCb(r)
    BY <2>1, ReceiveStep DEF Store!Next
  <2>2. CASE ProcessEntry
    BY <2>2, ServeStep DEF Store!Next
  <2>3. CASE UNCHANGED <<asked, executed, resp>>
    BY <2>3 DEF Store!vars, Effects
  <2> QED
    BY <2>1, <2>2, <2>3 DEF Next, Step, Tick, Advance, kvVars, vars
<1>2. Spec /\ []NoDrop => ImplementsKvStore
  <2> HIDE DEF NoDrop
  <2> QED
    BY <1>1, StoreInit, Invariance, PTL DEF Spec, ImplementsKvStore, Store!Spec
<1> QED
  BY <1>2
=============================================================================
