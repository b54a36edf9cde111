-------------------------------- MODULE Peer --------------------------------
(***************************************************************************)
(* One jkv peer (src/peer/peer.cc) on top of jraft::RawNode.               *)
(*                                                                         *)
(* The peer's own state is proposals_, kv_db_ and the loop of              *)
(* HandleRaftReady; every callback (Tick, Step, KvOpCb) runs on the one    *)
(* event loop of the host, so callbacks of a peer never overlap.  The loop *)
(* over the committed entries of a Ready is stepped entry by entry, pc =   *)
(* "ready" keeping every other callback out, because an entry may kill the *)
(* process.                                                                *)
(*                                                                         *)
(* jraft is a library outside this repository: RawNode is modelled by what *)
(* the peer relies on.  The actions Step... may do to isLeader, term, log  *)
(* and committed whatever some message of the other peers can do, subject  *)
(* to Raft's guarantees: terms only grow, a term has one leader, committed *)
(* entries stay, a leader only appends.                                    *)
(***************************************************************************)
EXTENDS KvOps, ProposalQueue, FiniteSets

CONSTANTS Req,            \* the requests clients send to this peer
          Logs,           \* the logs a leader elsewhere may make us adopt
          MaxTerm,        \* bound: terms
          MaxLog,         \* bound: entries in the log
          MaxUncommitted  \* Config::max_uncommitted_entries_size, in entries

\* Requests proposed through the other peers of the group.
Foreign == Request \ Req

Entry == [term : 1..MaxTerm, data : Request \cup {NoOp}]
Proposal == [index : Nat, term : Nat, req : Req]

ASSUME ReqAssumption == /\ Req \subseteq Request
                        /\ NoOp \notin Request
                        /\ NoReq \notin Request
ASSUME BoundAssumption == /\ MaxTerm \in Nat /\ MaxLog \in Nat
                          /\ MaxUncommitted \in Nat
ASSUME LogsAssumption == Logs \subseteq Seq(Entry)

VARIABLES
    alive,       \* FALSE once JLOG_FATAL has aborted the process
    \* --- RawNode, as the peer sees it
    isLeader,    \* RawNode::IsLeader()
    term,        \* raft().term()
    log,         \* raft_log(): entries 1..LastIndex()
    committed,   \* raft's commit index
    applied,     \* raft's applied index, moved by Advance
    storage,     \* mem_storage_: the entries appended to MemoryStorage
    \* --- Peer
    pc,          \* "loop": between callbacks; "ready": inside HandleRaftReady
    cur, last,   \* ProcessEntries: entries done / to do of this Ready
    proposals,   \* proposals_
    kv_db,       \* kv_db_
    resp,        \* resp[r]: the answers done->Run() has sent for request r
    \* --- history, read by no action's guard except the Raft contract
    asked,       \* requests KvOpCb has received
    dropped,     \* requests whose Propose returned kErrProposalDropped
    executed,    \* entries handed to ProcessNormal, in order
    issued       \* entries this peer appended as a leader, with their index

raftVars == <<isLeader, term, log, committed>>
readyVars == <<applied, storage, pc, cur, last>>
kvVars == <<proposals, kv_db, resp>>
vars == <<alive, raftVars, readyVars, kvVars, asked, dropped, executed, issued>>

Init ==
    /\ alive = TRUE
    /\ isLeader = FALSE /\ term = 0 /\ log = << >> /\ committed = 0
    /\ applied = 0 /\ storage = << >>
    /\ pc = "loop" /\ cur = 0 /\ last = 0
    /\ proposals = << >>
    /\ kv_db = EmptyDb
    /\ resp = [r \in Req |-> << >>]
    /\ asked = {} /\ dropped = {} /\ executed = << >> /\ issued = {}

Idle == alive /\ pc = "loop"

\* The terms this peer has led.
Led == {e.term : e \in issued}

LastIndex == Len(log)

\* Faulty variants: the place of the last entry, and the place after the last
\* committed one.
LastProposalIndex == LastIndex
NextAfterCommitted == committed + 1

\* The place where the next proposal is expected to land.
NextProposalIndex == LastIndex + 1

Issue(data, t) ==
    /\ log' = Append(log, [term |-> t, data |-> data])
    /\ issued' = issued \cup {[index |-> LastIndex + 1, term |-> t, data |-> data]}

-----------------------------------------------------------------------------
(***************************************************************************)
(* Clients: KvServiceImpl::KvOpCb and Peer::ProposeKvOp.                   *)
(***************************************************************************)
\* RawNode::Propose on a leader appends the entry, or drops it when too much of
\* what it appended in this term is not applied yet.
Overloaded ==
    Cardinality({i \in (applied + 1)..LastIndex :
                    log[i].term = term /\ log[i].data # NoOp}) >= MaxUncommitted

RejectNotLeader(r) ==
    /\ ~isLeader
    /\ resp' = [resp EXCEPT ![r] = Append(@, Rejected)]
    /\ UNCHANGED <<proposals, dropped, log, issued>>

\* The proposal is registered before Propose, whose result is not looked at.
ProposeKvOp(r) ==
    /\ isLeader
    /\ proposals' = Append(proposals,
                           [index |-> NextProposalIndex, term |-> term, req |-> r])
    /\ \/ Overloaded /\ dropped' = dropped \cup {r} /\ UNCHANGED <<log, issued>>
       \/ ~Overloaded /\ LastIndex < MaxLog /\ Issue(r, term) /\ UNCHANGED dropped
    /\ UNCHANGED resp

KvOpCb(r) ==
    /\ Idle /\ r \notin asked
    /\ asked' = asked \cup {r}
    /\ RejectNotLeader(r) \/ ProposeKvOp(r)
    /\ UNCHANGED <<alive, isLeader, term, committed, readyVars, kv_db, executed>>

-----------------------------------------------------------------------------
(***************************************************************************)
(* Messages of the other peers: HandleRaftMsgCb calls Peer::Step, and      *)
(* RawNode::Step does one of the following.                                *)
(***************************************************************************)
\* Along a log terms never decrease.
LeaderLogs ==
    {l \in Logs : \A i, j \in 1..Len(l) : i < j => l[i].term <= l[j].term}

LastTerm(l) == IF l = << >> THEN 0 ELSE l[Len(l)].term

\* What Raft's log matching lets a later leader turn our log into: committed
\* entries stay, nothing is cut off but to make room for another entry, a term
\* we led holds only what we issued in it, and the others no request of ours.
Adoptable(l) ==
    /\ Len(l) >= committed
    /\ Len(l) <= Len(log) => \E i \in 1..Len(l) : l[i] # log[i]
    /\ \A i \in 1..committed : l[i] = log[i]
    /\ \A i \in 1..Len(l) :
          \/ [index |-> i, term |-> l[i].term, data |-> l[i].data] \in issued
          \/ l[i].term \notin Led /\ l[i].data \in Foreign \cup {NoOp}

\* A newer term is seen, in a vote request or any other message, or this peer
\* campaigns for it (a candidate's term is read by nobody).
StepNewTerm(t) ==
    /\ t > term
    /\ isLeader' = FALSE /\ term' = t
    /\ UNCHANGED <<log, committed, issued>>

\* kMsgApp or kMsgHeartbeat of the leader of a term that we do not lead.
StepAppend ==
    /\ \/ log' \in LeaderLogs /\ Adoptable(log')
       \/ UNCHANGED log
    /\ \E t \in 1..MaxTerm :
          /\ t >= term /\ t >= LastTerm(log') /\ \A s \in Led : s < t
          /\ term' = t
    /\ isLeader' = FALSE
    /\ committed' \in committed..Len(log')
    /\ UNCHANGED issued

\* The last kMsgVoteResp needed: leader of the term t campaigned for, which has
\* no other leader, with an empty entry appended.
StepElected(t) ==
    /\ ~isLeader /\ t >= term /\ LastIndex < MaxLog
    /\ \A s \in Led : s < t
    /\ \A i \in 1..LastIndex : log[i].term < t
    /\ isLeader' = TRUE /\ term' = t
    /\ Issue(NoOp, t)
    /\ UNCHANGED committed

\* kMsgAppResp: a leader commits entries up to one of its own term.
StepCommit ==
    /\ isLeader
    /\ committed' \in (committed + 1)..LastIndex
    /\ log[committed'].term = term
    /\ UNCHANGED <<isLeader, term, log, issued>>

Step ==
    /\ Idle
    /\ \/ \E t \in 1..MaxTerm : StepNewTerm(t) \/ StepElected(t)
       \/ StepAppend
       \/ StepCommit
    /\ UNCHANGED <<alive, readyVars, kvVars, asked, dropped, executed>>

-----------------------------------------------------------------------------
(***************************************************************************)
(* The 100 ms timer: Peer::Tick and Peer::HandleRaftReady.                 *)
(***************************************************************************)
\* RawNode::Tick: with check_quorum a leader that has lost touch with the
\* majority steps down within its term (a later term must remain for the
\* group to go on, hence the bound).
RawTick ==
    \/ UNCHANGED isLeader
    \/ isLeader /\ term < MaxTerm /\ isLeader' = FALSE

HasReady == storage # log \/ applied < committed

\* rd->committed_entries() is some non-empty part of what is committed and not
\* applied (Config limits its size), if there is any.
Upto == IF applied < committed THEN (applied + 1)..committed ELSE {applied}

\* Faulty variant: Append is forgotten.
ReadyWithoutAppend ==
    \/ ~HasReady /\ UNCHANGED readyVars
    \/ /\ HasReady
       /\ pc' = "ready" /\ cur' = applied /\ last' \in Upto
       /\ UNCHANGED <<storage, applied>>

\* Peer::HandleRaftReady up to ProcessEntries: rd->entries() go to the storage,
\* the messages out, and rd->committed_entries() is about to be processed.
HandleRaftReady ==
    \/ ~HasReady /\ UNCHANGED readyVars
    \/ /\ HasReady
       /\ storage' = log
       /\ pc' = "ready" /\ cur' = applied /\ last' \in Upto
       /\ UNCHANGED applied

Tick ==
    /\ Idle /\ RawTick
    /\ HandleRaftReady
    /\ UNCHANGED <<alive, term, log, committed, kvVars, asked, dropped, executed,
                   issued>>

\* Faulty variant: what the lookup rejects is not marked as rejected.
AnswerUnmarked(rejected, hit, e) ==
    [r \in Req |->
        IF r \in rejected THEN Append(resp[r], [Rejected EXCEPT !.rejected = FALSE])
        ELSE IF r = hit THEN Append(resp[r], Done(kv_db, Cmd[e.data]))
        ELSE resp[r]]

\* The answers given while entry e is looked up and processed: those the
\* lookup rejects, and the one whose closure ProcessNormal runs, if any.
Answer(rejected, hit, e) ==
    [r \in Req |->
        IF r \in rejected THEN Append(resp[r], Rejected)
        ELSE IF r = hit THEN Append(resp[r], Done(kv_db, Cmd[e.data]))
        ELSE resp[r]]

\* Peer::ProcessNormal, on the proposal found for entry e: it returns at once
\* from an entry of type kInvalid, and the closure of a proposal found for it
\* is never run.
ProcessNormal(e, found) ==
    \/ /\ Skips(e.data)
       /\ UNCHANGED <<alive, kv_db>>
       /\ executed' = Append(executed, e) /\ cur' = cur + 1
       /\ resp' = Answer(found.rejected, NoReq, e)
    \/ /\ ~Skips(e.data) /\ ~Aborts(kv_db, Cmd[e.data])
       /\ kv_db' = Apply(kv_db, Cmd[e.data])
       /\ executed' = Append(executed, e) /\ cur' = cur + 1
       /\ resp' = Answer(found.rejected, found.hit, e)
       /\ UNCHANGED alive
    \/ /\ ~Skips(e.data) /\ Aborts(kv_db, Cmd[e.data])
       /\ alive' = FALSE
       /\ resp' = Answer(found.rejected, NoReq, e)
       /\ UNCHANGED <<kv_db, executed, cur>>

\* Peer::ProcessEntry: who waits for the entry depends on who leads now.
Lookup(index, t) ==
    IF isLeader THEN GetProposal(proposals, index, t) ELSE CallbackAll(proposals)

ProcessEntry ==
    /\ alive /\ pc = "ready" /\ cur < last
    /\ LET e == log[cur + 1]
           found == Lookup(cur + 1, e.term)
       IN  proposals' = found.rest /\ ProcessNormal(e, found)
    /\ UNCHANGED <<raftVars, applied, storage, pc, last, asked, dropped, issued>>

\* Faulty variant: all that is committed counts as applied.
AdvanceToCommitted ==
    /\ alive /\ pc = "ready" /\ cur = last
    /\ applied' = committed /\ pc' = "loop"
    /\ UNCHANGED <<alive, raftVars, storage, cur, last, kvVars, asked, dropped,
                   executed, issued>>

\* raw_node_->Advance(rd), the end of the callback.
Advance ==
    /\ alive /\ pc = "ready" /\ cur = last
    /\ applied' = last /\ pc' = "loop"
    /\ UNCHANGED <<alive, raftVars, storage, cur, last, kvVars, asked, dropped,
                   executed, issued>>

-----------------------------------------------------------------------------
Next ==
    \/ \E r \in Req : KvOpCb(r)
    \/ Step
    \/ Tick
    \/ ProcessEntry
    \/ Advance

Spec == Init /\ [][Next]_vars

\* Raft's progress: a group whose majority is up and connected commits more if
\* time and again there is more to commit (messages are repeated until they are
\* acknowledged).
CommitProgress == Step /\ committed' > committed

\* The timer fires for ever and runs HandleRaftReady to its end.
Fairness ==
    /\ WF_vars(Tick) /\ WF_vars(ProcessEntry) /\ WF_vars(Advance)
    /\ SF_vars(CommitProgress)

FairSpec == Spec /\ Fairness

-----------------------------------------------------------------------------
(***************************************************************************)
(* Correctness.                                                            *)
(***************************************************************************)
\* The peer's state is well formed: HandleRaftReady never works past what is
\* committed, nor Advance past what was processed.
TypeOK ==
    /\ alive \in BOOLEAN /\ isLeader \in BOOLEAN
    /\ term \in 0..MaxTerm /\ (isLeader => term > 0)
    /\ log \in Seq(Entry) /\ storage \in Seq(Entry) /\ executed \in Seq(Entry)
    /\ committed \in 0..Len(log) /\ applied \in 0..committed
    /\ pc \in {"loop", "ready"}
    /\ cur \in applied..last /\ last \in applied..committed
    /\ proposals \in Seq(Proposal)
    /\ kv_db \in Db
    /\ resp \in [Req -> Seq(Response)]
    /\ asked \subseteq Req /\ dropped \subseteq asked
    /\ issued \subseteq [index : Nat, term : 1..MaxTerm, data : Req \cup {NoOp}]

Waiting == {proposals[j].req : j \in 1..Len(proposals)}

\* done->Run() frees the closure: whatever mixture of elections, rejections
\* and commits a request lives through, its closure runs at most once.
AnsweredAtMostOnce == \A r \in Req : Len(resp[r]) <= 1

\* ProcessNormal may have returned without running r's closure: an entry of
\* type kInvalid was executed, and it is r's own unless Propose has dropped
\* something.
Forgotten(r) ==
    \E i \in 1..Len(executed) :
        /\ executed[i].data \in Request /\ Cmd[executed[i].data].type = "kInvalid"
        /\ dropped = {} => executed[i].data = r

\* No closure leaks but at a request of type kInvalid: any other request that
\* was received and not answered still waits in proposals_, and whoever waits
\* does so once and was not answered, unless the process is gone.
NoAnswerLost ==
    alive => /\ \A r \in asked :
                   /\ r \in Waiting => resp[r] = << >>
                   /\ resp[r] = << >> => r \in Waiting \/ Forgotten(r)
             /\ \A i, j \in 1..Len(proposals) :
                   proposals[i].req = proposals[j].req => i = j

\* pb/kv_op.proto: "rpc KvOp(KvReq) returns (KvResp)".  A peer that lives has
\* answered whom it no longer keeps among its proposals.
KvOpReturns ==
    alive => \A r \in asked : resp[r] # << >> \/ r \in Waiting

\* The deque is ordered by (term, index) across every change of leadership,
\* which is what the loop of GetProposal relies on to stop at its head; while
\* no proposal was dropped no two share a place.
ProposalsSorted ==
    \A i, j \in 1..Len(proposals) :
        i < j => LET p == proposals[i]
                     q == proposals[j]
                 IN  \/ p.term < q.term
                     \/ /\ p.term = q.term
                        /\ IF dropped = {} THEN p.index < q.index
                                           ELSE p.index <= q.index

\* HandleRaftReady executes the committed log: every entry once, in order,
\* after it was appended to the storage, and never one that is taken back.
ExecutedInOrder ==
    /\ Len(executed) = cur
    /\ cur <= Len(log) /\ cur <= Len(storage)
    /\ \A i \in 1..cur : executed[i] = log[i] /\ executed[i] = storage[i]

Writes(e, k) == /\ e.data # NoOp
                /\ Cmd[e.data].type \in {"kPut", "kDel"}
                /\ Cmd[e.data].key = k

\* v is what the last write to k among the first n executed entries left.
LastWritten(n, k, v) ==
    \/ v = NoVal /\ \A i \in 1..n : ~Writes(executed[i], k)
    \/ \E i \in 1..n :
          /\ Writes(executed[i], k)
          /\ \A j \in (i + 1)..n : ~Writes(executed[j], k)
          /\ v = IF Cmd[executed[i].data].type = "kPut"
                 THEN Cmd[executed[i].data].val ELSE NoVal

\* Linearizability at this peer: while Propose has dropped nothing, a request
\* that was told "done" is an executed entry, and a Get was told what the last
\* write before its own entry left.
DoneIsExecuted ==
    dropped = {} =>
        \A r \in Req :
            (resp[r] # << >> /\ ~resp[r][1].rejected) =>
                \E i \in 1..Len(executed) :
                    /\ executed[i].data = r
                    /\ Cmd[r].type = "kGet" =>
                          LastWritten(i - 1, Cmd[r].key, resp[r][1].value)

\* The other half: the entry of a request that still waits, and is a Get, Put
\* or Del, is never executed on a leader without the client being told "done".
LeaderAnswers ==
    [][ isLeader /\ dropped = {} /\ Len(executed') > Len(executed) =>
            LET r == executed'[Len(executed')].data
            IN  (r \in asked /\ resp[r] = << >> /\ ~Skips(r)) =>
                    resp'[r] # << >> /\ ~resp'[r][1].rejected ]_vars

\* What the clients of this peer see is a store in which each of their requests
\* takes effect once, when its entry is executed (KvStore), as long as Propose
\* drops nothing.
Effects == [i \in 1..Len(executed) |-> executed[i].data]
Store == INSTANCE KvStore WITH received <- asked, history <- Effects, answer <- resp
ImplementsKvStore == Store!Spec

\* pb/errnum.proto: a dropped proposal is reported "so that the proposer can be
\* notified and fail fast": its client is at least never told "done".
DroppedNotDone ==
    \A r \in dropped : resp[r] # << >> => resp[r][1].rejected

\* scripts/client.sh puts a key, deletes it and does the "get op again": a read
\* after a deletion must not take the peer down.
GetAfterDelIsHarmless ==
    (\E i \in 1..Len(executed) :
        executed[i].data # NoOp /\ Cmd[executed[i].data].type = "kDel") => alive

\* Every request but one of type kInvalid is answered, as long as the process
\* lives, Raft makes progress and nothing is dropped.
EveryRequestAnswered ==
    \A r \in Req : r \in asked /\ ~Skips(r) ~> (resp[r] # << >> \/ ~alive)
=============================================================================
