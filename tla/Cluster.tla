------------------------------ MODULE Cluster ------------------------------
(***************************************************************************)
(* The peers of a group on their hosts, and the messages between them.     *)
(* Each peer runs the code of Peer; here jraft is not a contract but a     *)
(* group of Raft nodes that vote, replicate and commit, so that the        *)
(* contract Peer takes for granted, and what the clients of different      *)
(* hosts see together, can be checked.                                     *)
(*                                                                         *)
(* Messages may be lost (SendMsg2Peer looks at no result), repeated,       *)
(* delayed and overtaken: whatever a leader can have said may arrive at    *)
(* any time.  A host that is cut off or has died takes no steps.  No host  *)
(* is started again: see Recovery.                                         *)
(***************************************************************************)
EXTENDS KvOps, ProposalQueue, FiniteSets

CONSTANTS Host, NoHost,
          Home,      \* Home[r]: the host whose KvService is sent r
          Leader,    \* bound: Leader[t] is the host that may win term t
          Site,      \* the host whose peer is compared with Peer, or NoHost
          MaxTerm,   \* bound: terms
          MaxLog     \* bound: entries in a log

ASSUME ClusterAssumption ==
    /\ Home \in [Request -> Host] /\ Leader \in [1..MaxTerm -> Host]
    /\ Site \in Host \cup {NoHost} /\ NoHost \notin Host
    /\ IsFiniteSet(Host) /\ Host # {}
    /\ MaxTerm \in Nat /\ MaxLog \in Nat
    /\ NoOp \notin Request /\ NoReq \notin Request

Term == 1..MaxTerm
Entry == [term : Term, data : Request \cup {NoOp}]

VARIABLES
    peer,    \* peer[h]: the peer of host h, with the fields of Init
    busy,    \* the host inside HandleRaftReady (its steps meet nobody else's)
    lead,    \* lead[t]: the log of the leader of term t, and its commit index
    acked,   \* acked[t][h]: entries of lead[t].log that h has acknowledged
    asked, resp   \* as in Peer, over all hosts

vars == <<peer, busy, lead, acked, asked, resp>>

Init ==
    /\ peer = [h \in Host |->
                  [alive |-> TRUE, isLeader |-> FALSE, term |-> 0, log |-> << >>,
                   committed |-> 0, applied |-> 0, cur |-> 0, storage |-> << >>,
                   proposals |-> << >>, kv_db |-> EmptyDb]]
    /\ busy = NoHost
    /\ lead = [t \in Term |-> [log |-> << >>, commit |-> 0]]
    /\ acked = [t \in Term |-> [h \in Host |-> 0]]
    /\ asked = {} /\ resp = [r \in Request |-> << >>]

Free(h) == busy = NoHost /\ peer[h].alive
Quorum(S) == 2 * Cardinality(S) > Cardinality(Host)
LastTerm(l) == IF l = << >> THEN 0 ELSE l[Len(l)].term
Agree(l, m, n) == Len(l) >= n /\ Len(m) >= n /\ \A i \in 1..n : l[i] = m[i]

-----------------------------------------------------------------------------
\* KvServiceImpl::KvOpCb and Peer::ProposeKvOp.
KvOpCb(r) ==
    LET h == Home[r]
        p == peer[h]
        l == Append(p.log, [term |-> p.term, data |-> r])
    IN  /\ Free(h) /\ r \notin asked
        /\ asked' = asked \cup {r}
        /\ \/ /\ ~p.isLeader
              /\ resp' = [resp EXCEPT ![r] = Append(@, Rejected)]
              /\ UNCHANGED <<peer, lead>>
           \/ /\ p.isLeader /\ Len(p.log) < MaxLog
              /\ peer' = [peer EXCEPT
                    ![h].proposals = Append(@, [index |-> Len(l), term |-> p.term,
                                                req |-> r]),
                    ![h].log = l]
              /\ lead' = [lead EXCEPT ![p.term].log = l]
              /\ UNCHANGED resp
        /\ UNCHANGED <<busy, acked>>

-----------------------------------------------------------------------------
(***************************************************************************)
(* Raft: RawNode::Tick and RawNode::Step, outside HandleRaftReady.         *)
(***************************************************************************)
raftOnly == <<busy, asked, resp>>

UpToDate(l, m) ==
    \/ LastTerm(l) > LastTerm(m)
    \/ LastTerm(l) = LastTerm(m) /\ Len(l) >= Len(m)

\* A vote request, or any other message, shows a newer term.
NewTerm(h, t) ==
    /\ Free(h) /\ peer[h].term < t
    /\ peer' = [peer EXCEPT ![h].term = t, ![h].isLeader = FALSE]
    /\ UNCHANGED <<raftOnly, lead, acked>>

\* The majority Q votes for the leader of t (the votes are collected in one
\* step), which starts with an empty entry.  A leader does not campaign.
Elected(t, Q) ==
    LET h == Leader[t]
        l == Append(peer[h].log, [term |-> t, data |-> NoOp])
    IN  /\ Free(h) /\ ~peer[h].isLeader
        /\ h \in Q /\ Quorum(Q) /\ Len(l) <= MaxLog
        /\ \A q \in Q : /\ peer[q].alive /\ peer[q].term < t
                       /\ UpToDate(peer[h].log, peer[q].log)
        /\ peer' = [q \in Host |->
              IF q = h THEN [peer[h] EXCEPT !.term = t, !.isLeader = TRUE, !.log = l]
              ELSE IF q \in Q THEN [peer[q] EXCEPT !.term = t, !.isLeader = FALSE]
              ELSE peer[q]]
        /\ lead' = [lead EXCEPT ![t] = [log |-> l, commit |-> peer[h].committed]]
        /\ UNCHANGED <<raftOnly, acked>>

\* Faulty variant: the log is cut after the entries of the message.
DeliverCutting(h, t, n, c) ==
    LET m == lead[t]
    IN  /\ Free(h) /\ h # Leader[t] /\ peer[h].term <= t
        /\ n \in 1..Len(m.log) /\ c <= m.commit /\ c <= n
        /\ peer' = [peer EXCEPT
              ![h].term = t, ![h].isLeader = FALSE, ![h].log = SubSeq(m.log, 1, n),
              ![h].committed = IF c > @ THEN c ELSE @]
        /\ acked' = [acked EXCEPT ![t][h] = IF n > @ THEN n ELSE @]
        /\ UNCHANGED <<raftOnly, lead>>

\* kMsgApp or kMsgHeartbeat of the leader of t: its first n entries, c of them
\* committed.  Nothing is cut off that the message agrees with.
Deliver(h, t, n, c) ==
    LET p == peer[h]
        m == lead[t]
    IN  /\ Free(h) /\ h # Leader[t] /\ p.term <= t
        /\ n \in 1..Len(m.log) /\ c <= m.commit /\ c <= n
        /\ peer' = [peer EXCEPT
              ![h].term = t, ![h].isLeader = FALSE,
              ![h].log = IF Agree(p.log, m.log, n) THEN @ ELSE SubSeq(m.log, 1, n),
              ![h].committed = IF c > @ THEN c ELSE @]
        /\ acked' = [acked EXCEPT ![t][h] = IF n > @ THEN n ELSE @]
        /\ UNCHANGED <<raftOnly, lead>>

\* kMsgAppResp of the last host of a majority, for an entry of this term.
Commit(h, n) ==
    LET p == peer[h]
    IN  /\ Free(h) /\ p.isLeader /\ n \in (p.committed + 1)..Len(p.log)
        /\ p.log[n].term = p.term
        /\ Quorum({h} \cup {q \in Host : acked[p.term][q] >= n})
        /\ peer' = [peer EXCEPT ![h].committed = n]
        /\ lead' = [lead EXCEPT ![p.term].commit = n]
        /\ UNCHANGED <<raftOnly, acked>>

-----------------------------------------------------------------------------
(***************************************************************************)
(* Peer::Tick and Peer::HandleRaftReady.                                   *)
(***************************************************************************)
\* The entries are appended to the storage, and the committed ones are about to
\* be processed (all of them at once; Peer also lets them come in parts).  The
\* storage is followed at Site.
HandleRaftReady(h, leads) ==
    LET p == peer[h]
        ready == p.applied < p.committed \/ (h = Site /\ p.storage # p.log)
    IN  /\ peer' = [peer EXCEPT ![h].isLeader = leads,
                                ![h].storage = IF h = Site THEN p.log ELSE @]
        /\ busy' = IF ready THEN h ELSE NoHost

Tick(h) ==
    /\ Free(h)
    /\ \/ HandleRaftReady(h, peer[h].isLeader)
       \/ peer[h].isLeader /\ peer[h].term < MaxTerm /\ HandleRaftReady(h, FALSE)
    /\ UNCHANGED <<lead, acked, asked, resp>>

\* Faulty variant: rd->entries() is processed with the committed ones.
UptoLast(p) == Len(p.log)

\* What HandleRaftReady executes: the committed entries that are not applied.
Upto(p) == p.committed

\* Who waits for entry i, which is of term t.
Lookup(p, i, t) ==
    IF p.isLeader THEN GetProposal(p.proposals, i, t) ELSE CallbackAll(p.proposals)

\* Peer::ProcessEntry and Peer::ProcessNormal.
ProcessEntry(h) ==
    LET p == peer[h]
        e == p.log[p.cur + 1]
        found == Lookup(p, p.cur + 1, e.term)
        aborts == ~Skips(e.data) /\ Aborts(p.kv_db, Cmd[e.data])
        done == ~Skips(e.data) /\ ~aborts
    IN  /\ busy = h /\ p.cur < Upto(p)
        /\ peer' = [peer EXCEPT
              ![h].proposals = found.rest, ![h].alive = ~aborts,
              ![h].kv_db = IF done THEN Apply(@, Cmd[e.data]) ELSE @,
              ![h].cur = IF aborts THEN @ ELSE @ + 1]
        /\ resp' = [r \in Request |->
              IF r \in found.rejected THEN Append(resp[r], Rejected)
              ELSE IF r = found.hit /\ done THEN Append(resp[r], Done(p.kv_db, Cmd[e.data]))
              ELSE resp[r]]
        /\ busy' = IF aborts THEN NoHost ELSE h
        /\ UNCHANGED <<lead, acked, asked>>

\* raw_node_->Advance(rd).
Advance(h) ==
    /\ busy = h /\ peer[h].cur = Upto(peer[h])
    /\ peer' = [peer EXCEPT ![h].applied = peer[h].cur]
    /\ busy' = NoHost
    /\ UNCHANGED <<lead, acked, asked, resp>>

Next ==
    \/ \E r \in Request : KvOpCb(r)
    \/ \E t \in Term, Q \in SUBSET Host : Elected(t, Q)
    \/ \E h \in Host :
          \/ \E t \in Term : NewTerm(h, t)
          \/ \E t \in Term, n, c \in 0..MaxLog : Deliver(h, t, n, c)
          \/ \E n \in 1..MaxLog : Commit(h, n)
          \/ Tick(h) \/ ProcessEntry(h) \/ Advance(h)

Spec == Init /\ [][Next]_vars

-----------------------------------------------------------------------------
\* The hosts execute one log: where two of them have got to, they executed the
\* same entries, whoever led in the meantime and whichever messages were lost;
\* their databases are the same when they have executed as much.
ReplicasAgree ==
    \A g, h \in Host :
        peer[g].cur <= peer[h].cur =>
            /\ Agree(peer[g].log, peer[h].log, peer[g].cur)
            /\ peer[g].cur = peer[h].cur => peer[g].kv_db = peer[h].kv_db

\* Every step of the group is, for the peer of Site, a step that Peer allows:
\* what Peer assumes of RawNode is what Raft nodes that run this code provide.
Own == {r \in Request : Home[r] = Site}
Ready == busy = Site \/ ~peer[Site].alive
Issued ==
    UNION {{[index |-> i, term |-> t, data |-> lead[t].log[i].data] :
              i \in {j \in 1..Len(lead[t].log) : lead[t].log[j].term = t}} :
           t \in {u \in Term : Leader[u] = Site}}
SitePeer == INSTANCE Peer WITH
    Req <- Own, Logs <- Seq(Entry), MaxUncommitted <- MaxLog,
    alive <- peer[Site].alive, isLeader <- peer[Site].isLeader,
    term <- peer[Site].term, log <- peer[Site].log,
    committed <- peer[Site].committed, applied <- peer[Site].applied,
    storage <- peer[Site].storage,
    pc <- IF Ready THEN "ready" ELSE "loop", cur <- peer[Site].cur,
    last <- IF Ready THEN peer[Site].committed ELSE peer[Site].applied,
    proposals <- peer[Site].proposals, kv_db <- peer[Site].kv_db,
    resp <- [r \in Own |-> resp[r]], asked <- asked \cap Own, dropped <- {},
    executed <- SubSeq(peer[Site].log, 1, peer[Site].cur), issued <- Issued
ImplementsPeer == SitePeer!Spec

\* Together the hosts are one store: what the clients of different hosts are
\* told fits one order of effects, that of the host that has executed most.
Furthest == CHOOSE h \in Host : \A g \in Host : peer[g].cur <= peer[h].cur
Effects == [i \in 1..peer[Furthest].cur |-> peer[Furthest].log[i].data]
Store == INSTANCE KvStore WITH
    Req <- Request, received <- asked, history <- Effects, answer <- resp
GroupIsStore == Store!Spec
=============================================================================
