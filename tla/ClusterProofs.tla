--------------------------- MODULE ClusterProofs ---------------------------
(***************************************************************************)
(* The hosts of a group execute one log, and are one store, for any number *)
(* of hosts, terms, entries and requests.                                  *)
(*                                                                         *)
(* The inductive invariant is about the logs of the leaders.  Every log is *)
(* tied to the logs of the leaders of its entries' terms.  For an entry    *)
(* that a leader appended in its own term there are two cases: all later   *)
(* leaders have it, and the hosts that acknowledged it keep it, or it can  *)
(* never be acknowledged by a majority, because a majority has passed the  *)
(* term without having it.  What is committed is below an entry that a     *)
(* majority acknowledged, hence in the logs of all later leaders.          *)
(***************************************************************************)
EXTENDS Cluster, ProposalQueueProofs, FiniteSetTheorems

Waiter == [index : Nat, term : Term, req : Request]
PeerState ==
    [alive : BOOLEAN, isLeader : BOOLEAN, term : 0..MaxTerm, log : Seq(Entry),
     committed : Nat, applied : Nat, cur : Nat, storage : Seq(Entry),
     proposals : Seq(Waiter), kv_db : Db]

\* Only committed entries are executed, and only executed ones are applied.
ClusterTypes ==
    /\ peer \in [Host -> PeerState]
    /\ busy \in Host \cup {NoHost}
    /\ lead \in [Term -> [log : Seq(Entry), commit : Nat]]
    /\ acked \in [Term -> [Host -> Nat]]
    /\ asked \subseteq Request
    /\ resp \in [Request -> Seq(Response)]
ClusterBounds ==
    /\ \A h \in Host : /\ peer[h].applied <= peer[h].cur
                       /\ peer[h].cur <= peer[h].committed
                       /\ peer[h].committed <= Len(peer[h].log)
                       /\ Len(peer[h].log) <= MaxLog
    /\ \A t \in Term : /\ lead[t].commit <= Len(lead[t].log)
                       /\ Len(lead[t].log) <= MaxLog
                       /\ \A h \in Host : acked[t][h] <= Len(lead[t].log)
ClusterTypeOK == ClusterTypes /\ ClusterBounds

-----------------------------------------------------------------------------
\* Term t has had a leader.
Held(t) == lead[t].log # << >>

\* Up to each of its entries, log l is the log of the leader of that entry's
\* term; terms do not fall along it, and none is later than t.
Tied(l) == \A i \in 1..Len(l) : Agree(l, lead[l[i].term].log, i)
Rising(l) == \A i, j \in 1..Len(l) : i <= j => l[i].term <= l[j].term
Within(l, t) == \A i \in 1..Len(l) : l[i].term <= t
LogInv ==
    /\ \A h \in Host : /\ Tied(peer[h].log) /\ Rising(peer[h].log)
                       /\ Within(peer[h].log, peer[h].term)
    /\ \A t \in Term : /\ Tied(lead[t].log) /\ Rising(lead[t].log)
                       /\ Within(lead[t].log, t)

\* Whoever leads was elected in its term; the leader of a term has seen it, and
\* while it has seen no later one its log is that of the term; so has whoever
\* acknowledged something in it.
LeaderInv ==
    /\ \A h \in Host : peer[h].isLeader =>
          peer[h].term \in Term /\ Leader[peer[h].term] = h /\ Held(peer[h].term)
    /\ \A t \in Term : Held(t) =>
          /\ peer[Leader[t]].term >= t
          /\ peer[Leader[t]].term = t => peer[Leader[t]].log = lead[t].log
    /\ \A t \in Term, h \in Host : acked[t][h] > 0 => peer[h].term >= t

\* A majority has seen every term that has had a leader.
Seen(u) == \E Q \in SUBSET Host : Quorum(Q) /\ \A q \in Q : peer[q].term >= u
VoteInv == \A u \in Term : Held(u) => Seen(u)

\* Entry n of the leader of t is of its own term.
OwnEntry(t, n) == n \in 1..Len(lead[t].log) /\ lead[t].log[n].term = t

\* Host q counts as having entry n of the leader of t.
Has(t, q, n) == q = Leader[t] \/ acked[t][q] >= n

\* A majority has it; and a majority has passed t without having it.
Chosen(t, n) ==
    /\ OwnEntry(t, n)
    /\ \E Q \in SUBSET Host : Quorum(Q) /\ \A q \in Q : Has(t, q, n)
NotChosen(t, n) ==
    \E Q \in SUBSET Host :
        Quorum(Q) /\ \A q \in Q : peer[q].term > t /\ ~Has(t, q, n)

\* Later leaders have all that was or can be chosen, and who has it keeps it.
SafeInv ==
    \A t, u \in Term, n \in 1..MaxLog :
        OwnEntry(t, n) /\ t < u /\ Held(u) =>
            Agree(lead[u].log, lead[t].log, n) \/ NotChosen(t, n)
KeepInv ==
    \A t \in Term, q \in Host, n \in 1..MaxLog :
        OwnEntry(t, n) /\ Has(t, q, n) =>
            Agree(peer[q].log, lead[t].log, n) \/ NotChosen(t, n)

\* The first c entries of l are below a chosen one, of a term up to t.
Settled(l, c, t) ==
    c = 0 \/ \E s \in Term, n \in 1..MaxLog :
                s <= t /\ Chosen(s, n) /\ c <= n /\ Agree(l, lead[s].log, c)
CommitInv ==
    /\ \A h \in Host : Settled(peer[h].log, peer[h].committed, peer[h].term)
    /\ \A t \in Term : Settled(lead[t].log, lead[t].commit, t)

\* The database is what the executed entries left.
Data(l) == [i \in 1..Len(l) |-> l[i].data]
DbInv ==
    \A h \in Host, k \in Key :
        ValueAfter(Data(peer[h].log), peer[h].cur, k, peer[h].kv_db[k])

RaftInv == LogInv /\ LeaderInv /\ VoteInv /\ SafeInv /\ KeepInv /\ CommitInv
ClusterInv == ClusterTypeOK /\ RaftInv /\ DbInv

-----------------------------------------------------------------------------
\* A request has one place, in the log of the leader it was sent to.
RequestInv ==
    /\ \A t \in Term, n \in 1..MaxLog :
          OwnEntry(t, n) /\ lead[t].log[n].data # NoOp =>
              lead[t].log[n].data \in asked /\ Home[lead[t].log[n].data] = Leader[t]
    /\ \A t, u \in Term, n, m \in 1..MaxLog :
          /\ OwnEntry(t, n) /\ OwnEntry(u, m)
          /\ lead[t].log[n].data = lead[u].log[m].data /\ lead[t].log[n].data # NoOp
          => t = u /\ n = m

\* Who waits was not answered, and waits once, for the entry of its request.
WaitsFor(h, x) ==
    /\ x.req \in asked /\ resp[x.req] = << >> /\ Leader[x.term] = h
    /\ OwnEntry(x.term, x.index) /\ lead[x.term].log[x.index].data = x.req
WaitInv ==
    \A h \in Host :
        /\ \A i \in 1..Len(peer[h].proposals) : WaitsFor(h, peer[h].proposals[i])
        /\ \A i, j \in 1..Len(peer[h].proposals) :
              peer[h].proposals[i].req = peer[h].proposals[j].req => i = j

AnsweredOnce ==
    \A r \in Request : Len(resp[r]) <= 1 /\ (r \notin asked => resp[r] = << >>)

ClientInv == RequestInv /\ WaitInv /\ AnsweredOnce

-----------------------------------------------------------------------------
LEMMA ConstantFacts ==
    /\ Term \subseteq Nat /\ MaxTerm \in Nat /\ MaxLog \in Nat
    /\ \A t \in Term : Leader[t] \in Host /\ t > 0 /\ t <= MaxTerm
    /\ \A r \in Request : Home[r] \in Host /\ r # NoOp /\ r # NoReq
    /\ NoHost \notin Host
BY ClusterAssumption DEF Term

\* Two majorities have a host in common.
LEMMA QuorumsMeet ==
    ASSUME NEW P \in SUBSET Host, NEW Q \in SUBSET Host, Quorum(P), Quorum(Q)
    PROVE  \E q \in Host : q \in P /\ q \in Q
<1> SUFFICES ASSUME P \cap Q = {} PROVE FALSE
  OBVIOUS
<1>1. IsFiniteSet(P) /\ IsFiniteSet(Q) /\ Cardinality(Host) \in Nat
  BY ClusterAssumption, FS_Subset, FS_CardinalityType
<1>2. Cardinality(P) \in Nat /\ Cardinality(Q) \in Nat
  BY <1>1, FS_CardinalityType
<1>3. Cardinality(P \cup Q) = Cardinality(P) + Cardinality(Q)
  <2>1. Cardinality(P \cap Q) = 0
    BY FS_EmptySet
  <2>2. Cardinality(P \cup Q) = Cardinality(P) + Cardinality(Q) - Cardinality(P \cap Q)
    BY <1>1, FS_Union
  <2> QED
    BY <1>2, <2>1, <2>2
<1>4. Cardinality(P \cup Q) <= Cardinality(Host)
  BY ClusterAssumption, FS_Subset
<1> QED
  BY <1>1, <1>2, <1>3, <1>4 DEF Quorum

\* Logs that agree: as far as that, from either side, and through a third.
LEMMA AgreeFacts ==
    ASSUME NEW l \in Seq(Entry), NEW m \in Seq(Entry), NEW n \in Nat
    PROVE  /\ Agree(l, m, n) => Agree(m, l, n)
           /\ \A k \in Nat : k <= n /\ Agree(l, m, n) => Agree(l, m, k)
           /\ \A x \in Seq(Entry) : Agree(l, m, n) /\ Agree(m, x, n) => Agree(l, x, n)
           /\ n <= Len(l) => Agree(l, l, n)
BY DEF Agree

LEMMA EntryOf ==
    ASSUME NEW l \in Seq(Entry), NEW i \in 1..Len(l)
    PROVE  l[i] \in Entry /\ l[i].term \in Term /\ l[i].term \in Nat /\ i \in Nat
<1>1. l[i] \in Entry /\ i \in Nat
  OBVIOUS
<1> QED
  BY <1>1, ConstantFacts DEF Entry

LEMMA EntryWith ==
    ASSUME NEW t \in Term, NEW d \in Request \cup {NoOp}
    PROVE  \E e \in Entry : e.term = t /\ e.data = d
<1>1. [term |-> t, data |-> d] \in Entry
  BY DEF Entry
<1> QED
  BY <1>1

LEMMA AppendFacts ==
    ASSUME NEW l \in Seq(Entry), NEW e \in Entry
    PROVE  /\ Append(l, e) \in Seq(Entry) /\ Len(Append(l, e)) = Len(l) + 1
           /\ Append(l, e)[Len(l) + 1] = e
           /\ \A i \in 1..Len(l) : Append(l, e)[i] = l[i]
           /\ Agree(Append(l, e), l, Len(l))
BY DEF Agree

LEMMA PeerFields ==
    ASSUME ClusterTypes, NEW h \in Host
    PROVE  /\ peer[h].alive \in BOOLEAN /\ peer[h].isLeader \in BOOLEAN
           /\ peer[h].term \in 0..MaxTerm /\ peer[h].term \in Nat
           /\ peer[h].log \in Seq(Entry) /\ Len(peer[h].log) \in Nat
           /\ peer[h].committed \in Nat /\ peer[h].applied \in Nat
           /\ peer[h].cur \in Nat /\ peer[h].storage \in Seq(Entry)
           /\ peer[h].proposals \in Seq(Waiter) /\ peer[h].kv_db \in Db
<1>1. peer[h] \in PeerState
  BY DEF ClusterTypes
<1> QED
  BY <1>1, ConstantFacts DEF PeerState

LEMMA NextFields ==
    ASSUME ClusterTypes', NEW h \in Host
    PROVE  /\ peer'[h].term \in 0..MaxTerm /\ peer'[h].term \in Nat
           /\ peer'[h].log \in Seq(Entry) /\ Len(peer'[h].log) \in Nat
           /\ peer'[h].committed \in Nat /\ peer'[h].applied \in Nat
           /\ peer'[h].cur \in Nat
<1>1. peer'[h] \in PeerState
  BY DEF ClusterTypes
<1>2. /\ peer'[h].term \in 0..MaxTerm
      /\ peer'[h].log \in Seq(Entry) /\ Len(peer'[h].log) \in Nat
      /\ peer'[h].committed \in Nat /\ peer'[h].applied \in Nat
      /\ peer'[h].cur \in Nat
  BY <1>1 DEF PeerState
<1>3. \A x \in 0..MaxTerm : x \in Nat
  BY ConstantFacts
<1> QED
  BY <1>2, <1>3

LEMMA LeadFields ==
    ASSUME ClusterTypes, NEW t \in Term
    PROVE  /\ lead[t].log \in Seq(Entry) /\ Len(lead[t].log) \in Nat
           /\ lead[t].commit \in Nat /\ \A h \in Host : acked[t][h] \in Nat
BY DEF ClusterTypes

-----------------------------------------------------------------------------
(***************************************************************************)
(* What each action does, field by field.                                  *)
(***************************************************************************)
\* Host h is the only one that changes.
Only(h) == \A q \in Host \ {h} : peer'[q] = peer[q]

\* What Raft does not touch at host h, and what the peer's code does not.
KvSame(h) ==
    /\ peer'[h].alive = peer[h].alive /\ peer'[h].applied = peer[h].applied
    /\ peer'[h].cur = peer[h].cur /\ peer'[h].storage = peer[h].storage
    /\ peer'[h].kv_db = peer[h].kv_db
RaftSame(h) ==
    /\ peer'[h].term = peer[h].term /\ peer'[h].log = peer[h].log
    /\ peer'[h].committed = peer[h].committed

LEMMA RejectFacts ==
    ASSUME ClusterTypes, NEW r \in Request, KvOpCb(r), ~peer[Home[r]].isLeader
    PROVE  /\ peer' = peer /\ lead' = lead /\ acked' = acked /\ busy' = busy
           /\ r \notin asked /\ asked' = asked \cup {r}
           /\ resp' = [resp EXCEPT ![r] = Append(@, Rejected)]
           /\ Free(Home[r])
BY DEF KvOpCb

\* The leader h of term t takes request r: its log m becomes l, by the entry e.
Proposes(r, h, t, m, e, l) ==
    /\ h = Home[r] /\ t = peer[h].term /\ m = peer[h].log /\ peer[h].isLeader
    /\ e.term = t /\ e.data = r /\ l = Append(m, e)
    /\ peer' \in [Host -> PeerState] /\ Only(h) /\ KvSame(h)
    /\ peer'[h].isLeader = peer[h].isLeader /\ peer'[h].term = t
    /\ peer'[h].committed = peer[h].committed /\ peer'[h].log = l
    /\ \E x \in Waiter : /\ x.index = Len(l) /\ x.term = t /\ x.req = r
                         /\ peer'[h].proposals = Append(peer[h].proposals, x)
    /\ lead' \in [Term -> [log : Seq(Entry), commit : Nat]]
    /\ lead'[t].log = l /\ lead'[t].commit = lead[t].commit
    /\ \A u \in Term \ {t} : lead'[u] = lead[u]
    /\ acked' = acked /\ busy' = busy /\ resp' = resp
    /\ r \notin asked /\ asked' = asked \cup {r}
    /\ Free(h) /\ Len(m) < MaxLog

LEMMA ProposeFacts ==
    ASSUME ClusterTypes, LeaderInv, NEW r \in Request, KvOpCb(r), peer[Home[r]].isLeader
    PROVE  \E h \in Host, t \in Term, m \in Seq(Entry), e \in Entry, l \in Seq(Entry) :
              Proposes(r, h, t, m, e, l)
<1>a. PICK h \in Host : h = Home[r]
  BY ConstantFacts
<1>b. PICK t \in Term : t = peer[h].term
  BY <1>a DEF LeaderInv
<1>c. PICK m \in Seq(Entry) : m = peer[h].log
  BY PeerFields
<1>d. PICK e \in Entry : e.term = t /\ e.data = r
  BY EntryWith
<1>e. PICK l \in Seq(Entry) : l = Append(m, e)
  BY AppendFacts
<1>1. e = [term |-> t, data |-> r]
  BY <1>d DEF Entry
<1>2. l \in Seq(Entry) /\ Len(l) \in Nat
  OBVIOUS
<1>3. PICK x \in Waiter : x = [index |-> Len(l), term |-> t, req |-> r]
  BY <1>1, <1>2 DEF Waiter
<1>4. /\ Free(h) /\ Len(m) < MaxLog
      /\ peer' = [peer EXCEPT
            ![h].proposals = Append(@, [index |-> Len(l), term |-> t, req |-> r]),
            ![h].log = l]
      /\ lead' = [lead EXCEPT ![t].log = l]
      /\ acked' = acked /\ busy' = busy /\ resp' = resp
      /\ r \notin asked /\ asked' = asked \cup {r}
  BY <1>1, <1>a, <1>b, <1>c, <1>e DEF KvOpCb
<1>5. peer \in [Host -> PeerState] /\ lead \in [Term -> [log : Seq(Entry), commit : Nat]]
  BY DEF ClusterTypes
<1>6. PICK w \in Seq(Waiter) : w = Append(peer[h].proposals, x)
  <2>1. peer[h].proposals \in Seq(Waiter)
    BY PeerFields
  <2>2. Append(peer[h].proposals, x) \in Seq(Waiter)
    BY <1>3, <2>1
  <2> QED
    BY <1>3, <2>2
<1>7. /\ lead' \in [Term -> [log : Seq(Entry), commit : Nat]]
      /\ lead'[t].log = l /\ lead'[t].commit = lead[t].commit
      /\ \A u \in Term \ {t} : lead'[u] = lead[u]
  BY <1>1, <1>2, <1>4, <1>5
<1>8. /\ peer' \in [Host -> PeerState] /\ Only(h) /\ KvSame(h)
      /\ peer'[h].isLeader = peer[h].isLeader /\ peer'[h].term = peer[h].term
      /\ peer'[h].committed = peer[h].committed /\ peer'[h].log = l
      /\ peer'[h].proposals = w
  <2>1. peer' = [peer EXCEPT ![h].proposals = w, ![h].log = l]
    BY <1>3, <1>4, <1>6
  <2>2. /\ peer'[h] = [peer[h] EXCEPT !.proposals = w, !.log = l]
        /\ Only(h) /\ peer' \in [Host -> {peer'[q] : q \in Host}]
    BY <1>1, <1>5, <2>1 DEF Only
  <2>3. /\ peer'[h] \in PeerState /\ KvSame(h)
        /\ peer'[h].isLeader = peer[h].isLeader /\ peer'[h].term = peer[h].term
        /\ peer'[h].committed = peer[h].committed /\ peer'[h].log = l
        /\ peer'[h].proposals = w
    <3>1. peer[h] \in PeerState
      BY <1>1, <1>5
    <3>2. [peer[h] EXCEPT !.proposals = w, !.log = l] \in PeerState
      BY <3>1 DEF PeerState
    <3>3. /\ KvSame(h) /\ peer'[h].isLeader = peer[h].isLeader
          /\ peer'[h].term = peer[h].term /\ peer'[h].committed = peer[h].committed
          /\ peer'[h].log = l /\ peer'[h].proposals = w
      BY <2>2, <3>1 DEF PeerState, KvSame
    <3> QED
      BY <2>2, <3>2, <3>3
  <2>4. \A q \in Host : peer'[q] \in PeerState
    BY <1>5, <2>2, <2>3 DEF Only
  <2> QED
    BY <2>2, <2>3, <2>4
<1>9. \E y \in Waiter : /\ y.index = Len(l) /\ y.term = t /\ y.req = r
                        /\ peer'[h].proposals = Append(peer[h].proposals, y)
  BY <1>3, <1>6, <1>8
<1>10. Proposes(r, h, t, m, e, l)
  BY <1>a, <1>b, <1>c, <1>d, <1>e, <1>4, <1>7, <1>8, <1>9 DEF Proposes
<1> QED
  BY <1>10

LEMMA NewTermFacts ==
    ASSUME ClusterTypes, NEW h \in Host, NEW t \in Term, NewTerm(h, t)
    PROVE  /\ peer' \in [Host -> PeerState] /\ Only(h) /\ KvSame(h)
           /\ ~peer'[h].isLeader /\ peer'[h].term = t /\ peer[h].term < t
           /\ peer'[h].committed = peer[h].committed /\ peer'[h].log = peer[h].log
           /\ peer'[h].proposals = peer[h].proposals
           /\ lead' = lead /\ acked' = acked /\ busy' = busy
           /\ asked' = asked /\ resp' = resp /\ Free(h)
<1>1. peer \in [Host -> PeerState] /\ t \in 0..MaxTerm
  BY ConstantFacts DEF ClusterTypes
<1> QED
  BY <1>1 DEF NewTerm, raftOnly, PeerState, Only, KvSame

\* Host h takes n entries and commit index c from the leader of t.
Delivers(h, t, n, c) ==
    /\ peer' \in [Host -> PeerState] /\ Only(h) /\ KvSame(h)
    /\ ~peer'[h].isLeader /\ peer'[h].term = t /\ peer[h].term <= t
    /\ peer'[h].committed = IF c > peer[h].committed THEN c ELSE peer[h].committed
    /\ \/ Agree(peer[h].log, lead[t].log, n) /\ peer'[h].log = peer[h].log
       \/ /\ ~Agree(peer[h].log, lead[t].log, n) /\ Len(peer'[h].log) = n
          /\ \A i \in 1..n : peer'[h].log[i] = lead[t].log[i]
    /\ peer'[h].proposals = peer[h].proposals
    /\ lead' = lead /\ acked' \in [Term -> [Host -> Nat]]
    /\ acked'[t][h] = IF n > acked[t][h] THEN n ELSE acked[t][h]
    /\ \A u \in Term, q \in Host : (u # t \/ q # h) => acked'[u][q] = acked[u][q]
    /\ busy' = busy /\ asked' = asked /\ resp' = resp /\ Free(h)
    /\ h # Leader[t] /\ n \in 1..Len(lead[t].log) /\ c <= lead[t].commit /\ c <= n

LEMMA DeliverFacts ==
    ASSUME ClusterTypes, NEW h \in Host, NEW t \in Term, NEW n \in 0..MaxLog,
           NEW c \in 0..MaxLog, Deliver(h, t, n, c)
    PROVE  Delivers(h, t, n, c)
<1>1. /\ peer \in [Host -> PeerState] /\ t \in 0..MaxTerm
      /\ acked \in [Term -> [Host -> Nat]] /\ n \in Nat /\ c \in Nat
      /\ lead[t].log \in Seq(Entry)
  BY ConstantFacts, LeadFields DEF ClusterTypes
<1>2. SubSeq(lead[t].log, 1, n) \in Seq(Entry)
  <2>1. n \in 1..Len(lead[t].log)
    BY DEF Deliver
  <2> QED
    BY <1>1, <2>1
<1>3. /\ acked' \in [Term -> [Host -> Nat]]
      /\ acked'[t][h] = IF n > acked[t][h] THEN n ELSE acked[t][h]
      /\ \A u \in Term, q \in Host : (u # t \/ q # h) => acked'[u][q] = acked[u][q]
  BY <1>1 DEF Deliver
<1>4. PICK l \in Seq(Entry) :
        l = IF Agree(peer[h].log, lead[t].log, n) THEN peer[h].log ELSE SubSeq(lead[t].log, 1, n)
  BY <1>1, <1>2, PeerFields
<1>8. \/ Agree(peer[h].log, lead[t].log, n) /\ l = peer[h].log
      \/ /\ ~Agree(peer[h].log, lead[t].log, n) /\ Len(l) = n
         /\ \A i \in 1..n : l[i] = lead[t].log[i]
  <2>1. n \in 1..Len(lead[t].log)
    BY DEF Deliver
  <2>2. /\ Len(SubSeq(lead[t].log, 1, n)) = n
        /\ \A i \in 1..n : SubSeq(lead[t].log, 1, n)[i] = lead[t].log[i]
    BY <1>1, <2>1
  <2> QED
    BY <1>4, <2>2
<1>5. PICK d \in Nat : d = IF c > peer[h].committed THEN c ELSE peer[h].committed
  BY <1>1, PeerFields
<1>6. peer' = [peer EXCEPT ![h].term = t, ![h].isLeader = FALSE,
                           ![h].log = l, ![h].committed = d]
  BY <1>4, <1>5 DEF Deliver
<1>7. /\ peer' \in [Host -> PeerState] /\ Only(h) /\ KvSame(h)
      /\ ~peer'[h].isLeader /\ peer'[h].term = t
      /\ peer'[h].committed = d /\ peer'[h].log = l
      /\ peer'[h].proposals = peer[h].proposals
  <2>1. /\ peer'[h] = [peer[h] EXCEPT !.term = t, !.isLeader = FALSE, !.log = l, !.committed = d]
        /\ Only(h) /\ DOMAIN peer' = Host /\ peer' = [q \in Host |-> peer'[q]]
    BY <1>1, <1>6 DEF Only
  <2>2. peer[h] \in PeerState
    BY <1>1
  <2>3. [peer[h] EXCEPT !.term = t, !.isLeader = FALSE, !.log = l, !.committed = d] \in PeerState
    BY <1>1, <2>2 DEF PeerState
  <2>4. /\ KvSame(h) /\ ~peer'[h].isLeader /\ peer'[h].term = t
        /\ peer'[h].committed = d /\ peer'[h].log = l
        /\ peer'[h].proposals = peer[h].proposals
    BY <2>1, <2>2 DEF PeerState, KvSame
  <2>5. \A q \in Host : peer'[q] \in PeerState
    BY <1>1, <2>1, <2>3 DEF Only
  <2> QED
    BY <2>1, <2>4, <2>5
<1> QED
  BY <1>3, <1>5, <1>7, <1>8 DEF Delivers, Deliver, raftOnly

\* The leader h of t commits up to entry n, which a majority has.
Commits(h, n, t) ==
    /\ t = peer[h].term
    /\ peer' \in [Host -> PeerState] /\ Only(h) /\ KvSame(h)
    /\ peer'[h].isLeader = peer[h].isLeader /\ peer'[h].term = peer[h].term
    /\ peer'[h].committed = n /\ peer'[h].log = peer[h].log
    /\ peer'[h].proposals = peer[h].proposals
    /\ lead' \in [Term -> [log : Seq(Entry), commit : Nat]]
    /\ lead'[t].log = lead[t].log /\ lead'[t].commit = n
    /\ \A u \in Term \ {t} : lead'[u] = lead[u]
    /\ acked' = acked /\ busy' = busy /\ asked' = asked /\ resp' = resp
    /\ Free(h) /\ peer[h].isLeader /\ peer[h].log[n].term = t
    /\ n \in (peer[h].committed + 1)..Len(peer[h].log)
    /\ \E Q \in SUBSET Host : Quorum(Q) /\ \A q \in Q : q = h \/ acked[t][q] >= n

LEMMA CommitFacts ==
    ASSUME ClusterTypes, LeaderInv, NEW h \in Host, NEW n \in 1..MaxLog, Commit(h, n)
    PROVE  \E t \in Term : Commits(h, n, t)
<1>t. PICK t \in Term : t = peer[h].term
  BY DEF LeaderInv, Commit
<1>1. /\ peer \in [Host -> PeerState] /\ n \in Nat
      /\ lead \in [Term -> [log : Seq(Entry), commit : Nat]]
  BY ConstantFacts DEF ClusterTypes
<1>2. /\ peer' \in [Host -> PeerState] /\ Only(h) /\ KvSame(h)
      /\ peer'[h].isLeader = peer[h].isLeader /\ peer'[h].term = peer[h].term
      /\ peer'[h].committed = n /\ peer'[h].log = peer[h].log
      /\ peer'[h].proposals = peer[h].proposals
  BY <1>1 DEF Commit, PeerState, Only, KvSame
<1>3. /\ lead' \in [Term -> [log : Seq(Entry), commit : Nat]]
      /\ lead'[t].log = lead[t].log /\ lead'[t].commit = n
      /\ \A u \in Term \ {t} : lead'[u] = lead[u]
  BY <1>1, <1>t DEF Commit
<1>4. \E Q \in SUBSET Host : Quorum(Q) /\ \A q \in Q : q = h \/ acked[t][q] >= n
  <2> DEFINE Q == {h} \cup {q \in Host : acked[t][q] >= n}
  <2>1. Quorum(Q)
    BY <1>t DEF Commit
  <2> QED
    BY <2>1
<1>5. Commits(h, n, t)
  BY <1>t, <1>2, <1>3, <1>4 DEF Commits, Commit, raftOnly
<1> QED
  BY <1>5

\* The majority Q makes h the leader of t: its log m becomes l, by the entry e.
Elects(t, Q, h, m, e, l) ==
    /\ h = Leader[t] /\ m = peer[h].log
    /\ e.term = t /\ e.data = NoOp /\ l = Append(m, e)
    /\ peer' \in [Host -> PeerState]
    /\ \A q \in Host : KvSame(q) /\ peer'[q].committed = peer[q].committed
                       /\ peer'[q].proposals = peer[q].proposals
    /\ \A q \in Q : peer'[q].term = t /\ peer[q].term < t
    /\ \A q \in Host \ Q : peer'[q] = peer[q]
    /\ \A q \in Host \ {h} : /\ peer'[q].log = peer[q].log
                             /\ peer'[q].isLeader => peer[q].isLeader /\ q \notin Q
    /\ peer'[h].isLeader /\ peer'[h].log = l /\ ~peer[h].isLeader
    /\ lead' \in [Term -> [log : Seq(Entry), commit : Nat]]
    /\ lead'[t].log = l /\ lead'[t].commit = peer[h].committed
    /\ \A u \in Term \ {t} : lead'[u] = lead[u]
    /\ acked' = acked /\ busy' = busy /\ asked' = asked /\ resp' = resp
    /\ Free(h) /\ h \in Q /\ Quorum(Q) /\ Len(l) <= MaxLog
    /\ \A q \in Q : UpToDate(m, peer[q].log)

LEMMA ElectedFacts ==
    ASSUME ClusterTypes, NEW t \in Term, NEW Q \in SUBSET Host, Elected(t, Q)
    PROVE  \E h \in Host, m \in Seq(Entry), e \in Entry, l \in Seq(Entry) :
              Elects(t, Q, h, m, e, l)
<1>a. PICK h \in Host : h = Leader[t]
  BY ConstantFacts
<1>c. PICK m \in Seq(Entry) : m = peer[h].log
  BY PeerFields
<1>d. PICK e \in Entry : e.term = t /\ e.data = NoOp
  BY EntryWith
<1>e. PICK l \in Seq(Entry) : l = Append(m, e)
  BY AppendFacts
<1>1. /\ peer \in [Host -> PeerState] /\ h \in Host /\ t \in 0..MaxTerm
      /\ lead \in [Term -> [log : Seq(Entry), commit : Nat]]
      /\ e = [term |-> t, data |-> NoOp]
  <2>1. t \in 0..MaxTerm /\ h \in Host
    BY ConstantFacts
  <2> QED
    BY <1>d, <2>1 DEF ClusterTypes, Entry
<1>2. l \in Seq(Entry) /\ peer[h].committed \in Nat
  BY PeerFields
<1>3. /\ lead' \in [Term -> [log : Seq(Entry), commit : Nat]]
      /\ lead'[t].log = l /\ lead'[t].commit = peer[h].committed
      /\ \A u \in Term \ {t} : lead'[u] = lead[u]
  BY <1>1, <1>2, <1>a, <1>c, <1>e DEF Elected
<1>4. /\ Free(h) /\ h \in Q /\ Quorum(Q) /\ Len(l) <= MaxLog /\ ~peer[h].isLeader
      /\ \A q \in Q : peer[q].term < t /\ UpToDate(m, peer[q].log)
      /\ peer' = [q \in Host |->
              IF q = h THEN [peer[h] EXCEPT !.term = t, !.isLeader = TRUE, !.log = l]
              ELSE IF q \in Q THEN [peer[q] EXCEPT !.term = t, !.isLeader = FALSE]
              ELSE peer[q]]
      /\ acked' = acked /\ busy' = busy /\ asked' = asked /\ resp' = resp
  BY <1>1, <1>a, <1>c, <1>e DEF Elected, raftOnly
<1>5. ASSUME NEW q \in Host
      PROVE  /\ peer'[q] \in PeerState
             /\ KvSame(q) /\ peer'[q].committed = peer[q].committed
             /\ peer'[q].proposals = peer[q].proposals
             /\ q \in Q => peer'[q].term = t
             /\ q \notin Q => peer'[q] = peer[q]
             /\ q # h => /\ peer'[q].log = peer[q].log
                         /\ peer'[q].isLeader => peer[q].isLeader /\ q \notin Q
             /\ q = h => peer'[h].isLeader /\ peer'[h].log = l
  <2>1. peer[q] \in PeerState
    BY <1>1
  <2>2. CASE q = h
    <3>1. peer'[q] = [peer[q] EXCEPT !.term = t, !.isLeader = TRUE, !.log = l]
      BY <1>4, <2>2
    <3> QED
      BY <1>1, <1>2, <1>4, <2>1, <2>2, <3>1 DEF PeerState, KvSame
  <2>3. CASE q # h /\ q \in Q
    <3>1. peer'[q] = [peer[q] EXCEPT !.term = t, !.isLeader = FALSE]
      BY <1>4, <2>3
    <3> QED
      BY <1>1, <2>1, <2>3, <3>1 DEF PeerState, KvSame
  <2>4. CASE q # h /\ q \notin Q
    <3>1. peer'[q] = peer[q]
      BY <1>4, <2>4
    <3> QED
      BY <1>1, <2>1, <2>4, <3>1 DEF KvSame
  <2> QED
    BY <2>2, <2>3, <2>4
<1>6. peer' \in [Host -> PeerState]
  BY <1>4, <1>5
<1>7. Elects(t, Q, h, m, e, l)
  BY <1>a, <1>c, <1>d, <1>e, <1>3, <1>4, <1>5, <1>6 DEF Elects
<1> QED
  BY <1>7

LEMMA TickFacts ==
    ASSUME ClusterTypes, NEW h \in Host, Tick(h)
    PROVE  /\ peer' \in [Host -> PeerState] /\ Only(h) /\ RaftSame(h)
           /\ peer'[h].alive = peer[h].alive /\ peer'[h].applied = peer[h].applied
           /\ peer'[h].cur = peer[h].cur /\ peer'[h].kv_db = peer[h].kv_db
           /\ peer'[h].proposals = peer[h].proposals
           /\ peer'[h].isLeader => peer[h].isLeader
           /\ lead' = lead /\ acked' = acked /\ asked' = asked /\ resp' = resp
           /\ busy' \in {h, NoHost} /\ Free(h)
<1>1. peer \in [Host -> PeerState] /\ peer[h].log \in Seq(Entry)
  BY PeerFields DEF ClusterTypes
<1>2. PICK leads \in BOOLEAN :
        /\ leads => peer[h].isLeader
        /\ HandleRaftReady(h, leads)
  BY PeerFields DEF Tick
<1>3. PICK stored \in Seq(Entry) : stored = IF h = Site THEN peer[h].log ELSE peer[h].storage
  BY <1>1, PeerFields
<1>4. peer' = [peer EXCEPT ![h].isLeader = leads, ![h].storage = stored]
  BY <1>2, <1>3 DEF HandleRaftReady
<1>5. busy' \in {h, NoHost}
  BY <1>2 DEF HandleRaftReady
<1>6. /\ peer' \in [Host -> PeerState] /\ Only(h) /\ RaftSame(h)
      /\ peer'[h].alive = peer[h].alive /\ peer'[h].applied = peer[h].applied
      /\ peer'[h].cur = peer[h].cur /\ peer'[h].kv_db = peer[h].kv_db
      /\ peer'[h].proposals = peer[h].proposals
      /\ peer'[h].isLeader = leads
  BY <1>1, <1>4 DEF PeerState, Only, RaftSame
<1> QED
  BY <1>2, <1>5, <1>6 DEF Tick

LEMMA AdvanceFacts ==
    ASSUME ClusterTypes, NEW h \in Host, Advance(h)
    PROVE  /\ peer' \in [Host -> PeerState] /\ Only(h) /\ RaftSame(h)
           /\ peer'[h].alive = peer[h].alive /\ peer'[h].applied = peer[h].cur
           /\ peer'[h].cur = peer[h].cur /\ peer'[h].kv_db = peer[h].kv_db
           /\ peer'[h].proposals = peer[h].proposals
           /\ peer'[h].storage = peer[h].storage
           /\ peer'[h].isLeader = peer[h].isLeader
           /\ lead' = lead /\ acked' = acked /\ asked' = asked /\ resp' = resp
           /\ busy = h /\ busy' = NoHost /\ peer[h].cur = peer[h].committed
<1>1. peer \in [Host -> PeerState] /\ peer[h].cur \in Nat
  BY PeerFields DEF ClusterTypes
<1>2. peer' = [peer EXCEPT ![h].applied = peer[h].cur]
  BY DEF Advance
<1>3. /\ peer' \in [Host -> PeerState] /\ Only(h) /\ RaftSame(h)
      /\ peer'[h].alive = peer[h].alive /\ peer'[h].applied = peer[h].cur
      /\ peer'[h].cur = peer[h].cur /\ peer'[h].kv_db = peer[h].kv_db
      /\ peer'[h].proposals = peer[h].proposals
      /\ peer'[h].storage = peer[h].storage
      /\ peer'[h].isLeader = peer[h].isLeader
  BY <1>1, <1>2 DEF PeerState, Only, RaftSame
<1> QED
  BY <1>3 DEF Advance, Upto

\* Looking a proposal up splits the deque; a hit has the entry's own place.
LEMMA LookupSplits ==
    ASSUME NEW p, p.proposals \in Seq(Waiter), NEW i, NEW t,
           NEW q, q = p.proposals, NEW g, g = Lookup(p, i, t)
    PROVE  /\ g.rest \in Seq(Waiter)
           /\ \E n, m \in 0..Len(q) :
                 /\ Splits(q, g, n, m)
                 /\ m = n + 1 => q[m].index = i /\ q[m].term = t
<1>1. CASE p.isLeader
  <2>1. g = GetProposal(q, i, t)
    BY <1>1 DEF Lookup
  <2>2. PICK n \in 0..Len(q), m \in 0..Len(q) :
          /\ Splits(q, GetProposal(q, i, t), n, m)
          /\ m = n + 1 <=> n < Len(q) /\ q[n + 1].index = i /\ q[n + 1].term = t
    BY GetProposalSplits
  <2>3. GetProposal(q, i, t).rest \in Seq(Waiter)
    BY GetProposalSplits
  <2> QED
    BY <2>1, <2>2, <2>3
<1>2. CASE ~p.isLeader
  <2>1. g = CallbackAll(q)
    BY <1>2 DEF Lookup
  <2>2. CallbackAll(q).rest \in Seq(Waiter) /\ Splits(q, CallbackAll(q), Len(q), Len(q))
    BY CallbackAllSplits
  <2>3. Len(q) \in Nat
    OBVIOUS
  <2> QED
    BY <2>1, <2>2, <2>3
<1> QED
  BY <1>1, <1>2

\* What ProcessNormal does not pass over is a client's request.
LEMMA SkipsFacts ==
    ASSUME NEW d \in Request \cup {NoOp}
    PROVE  /\ ~Skips(d) => d \in Request /\ d # NoOp
           /\ \A k : Sets(d, k) => ~Skips(d)
BY DEF Skips, TypeOf, Sets

LEMMA ApplyType ==
    ASSUME NEW d \in Request, NEW db \in Db
    PROVE  Apply(db, Cmd[d]) \in Db
<1>1. Cmd[d] \in Command
  BY CmdAssumption
<1> QED
  BY <1>1 DEF Apply, Db, Command, CmdType

LEMMA DoneType ==
    ASSUME NEW d \in Request, NEW db \in Db
    PROVE  Done(db, Cmd[d]) \in Response /\ Rejected \in Response
<1>1. Cmd[d] \in Command
  BY CmdAssumption
<1> QED
  BY <1>1 DEF Done, Rejected, Response, Db, Command

\* The answers given for an entry: those the lookup g rejects, and the one it
\* found for the executed command d on database db.
Refuses(g) ==
    resp' = [r \in Request |->
                IF r \in g.rejected THEN Append(resp[r], Rejected) ELSE resp[r]]
Replies(g, db, d) ==
    resp' = [r \in Request |->
                IF r \in g.rejected THEN Append(resp[r], Rejected)
                ELSE IF r = g.hit THEN Append(resp[r], Done(db, Cmd[d]))
                ELSE resp[r]]

LEMMA ProcessFacts ==
    ASSUME ClusterTypes, ClusterBounds, NEW h \in Host, ProcessEntry(h),
           NEW p, p = peer[h], NEW e, e = p.log[p.cur + 1],
           NEW g, g = Lookup(p, p.cur + 1, e.term)
    PROVE  /\ peer' \in [Host -> PeerState] /\ Only(h) /\ RaftSame(h)
           /\ peer'[h].applied = p.applied /\ peer'[h].storage = p.storage
           /\ peer'[h].isLeader = p.isLeader /\ peer'[h].proposals = g.rest
           /\ lead' = lead /\ acked' = acked /\ asked' = asked
           /\ busy = h /\ p.cur < p.committed
           /\ p.cur + 1 \in 1..Len(p.log) /\ e \in Entry
           /\ \/ /\ e.data \in Request /\ ~Skips(e.data) /\ Aborts(p.kv_db, Cmd[e.data])
                 /\ ~peer'[h].alive /\ busy' = NoHost
                 /\ peer'[h].cur = p.cur /\ peer'[h].kv_db = p.kv_db
                 /\ Refuses(g)
              \/ /\ Skips(e.data)
                 /\ peer'[h].alive /\ busy' = h
                 /\ peer'[h].cur = p.cur + 1 /\ peer'[h].kv_db = p.kv_db
                 /\ Refuses(g)
              \/ /\ e.data \in Request /\ ~Skips(e.data) /\ ~Aborts(p.kv_db, Cmd[e.data])
                 /\ peer'[h].alive /\ busy' = h
                 /\ peer'[h].cur = p.cur + 1 /\ peer'[h].kv_db = Apply(p.kv_db, Cmd[e.data])
                 /\ Replies(g, p.kv_db, e.data)
<1>1. /\ peer \in [Host -> PeerState] /\ p.cur \in Nat /\ p.committed \in Nat
      /\ p.kv_db \in Db /\ p.proposals \in Seq(Waiter) /\ p.log \in Seq(Entry)
      /\ Len(p.log) \in Nat /\ p.committed <= Len(p.log)
  BY PeerFields DEF ClusterTypes, ClusterBounds
<1>2. busy = h /\ p.cur < p.committed
  BY DEF ProcessEntry, Upto
<1>3. p.cur + 1 \in 1..Len(p.log) /\ e \in Entry
  <2>1. p.cur + 1 \in 1..Len(p.log)
    BY <1>1, <1>2
  <2> QED
    BY <1>1, <2>1
<1>4. e.data \in Request \cup {NoOp}
  BY <1>3 DEF Entry
<1>5. g.rest \in Seq(Waiter)
  BY <1>1, LookupSplits
<1> DEFINE ab == ~Skips(e.data) /\ Aborts(p.kv_db, Cmd[e.data])
           dn == ~Skips(e.data) /\ ~ab
<1>6. /\ peer' = [peer EXCEPT
            ![h].proposals = g.rest, ![h].alive = ~ab,
            ![h].kv_db = IF dn THEN Apply(@, Cmd[e.data]) ELSE @,
            ![h].cur = IF ab THEN @ ELSE @ + 1]
      /\ resp' = [r \in Request |->
            IF r \in g.rejected THEN Append(resp[r], Rejected)
            ELSE IF r = g.hit /\ dn THEN Append(resp[r], Done(p.kv_db, Cmd[e.data]))
            ELSE resp[r]]
      /\ busy' = IF ab THEN NoHost ELSE h
      /\ lead' = lead /\ acked' = acked /\ asked' = asked
  BY DEF ProcessEntry
<1>7. PICK db \in Db : db = IF dn THEN Apply(p.kv_db, Cmd[e.data]) ELSE p.kv_db
  BY <1>1, <1>4, ApplyType, SkipsFacts
<1>8. PICK c \in Nat : c = IF ab THEN p.cur ELSE p.cur + 1
  BY <1>1
<1>9. PICK al \in BOOLEAN : al = ~ab
  OBVIOUS
<1>10. peer' = [peer EXCEPT ![h].proposals = g.rest, ![h].alive = al,
                            ![h].kv_db = db, ![h].cur = c]
  BY <1>6, <1>7, <1>8, <1>9
<1>11. /\ peer' \in [Host -> PeerState] /\ Only(h) /\ RaftSame(h)
       /\ peer'[h].applied = p.applied /\ peer'[h].storage = p.storage
       /\ peer'[h].isLeader = p.isLeader /\ peer'[h].proposals = g.rest
       /\ peer'[h].alive = al /\ peer'[h].kv_db = db /\ peer'[h].cur = c
  <2> HIDE DEF ab, dn
  <2>1. /\ peer'[h] = [p EXCEPT !.proposals = g.rest, !.alive = al, !.kv_db = db, !.cur = c]
        /\ Only(h) /\ peer' = [q \in Host |-> peer'[q]]
    <3>1. peer \in [Host -> PeerState]
      BY <1>1
    <3> QED
      BY <1>10, <3>1 DEF Only
  <2>2. p \in PeerState
    BY <1>1
  <2>3. /\ peer'[h] \in PeerState /\ RaftSame(h)
        /\ peer'[h].applied = p.applied /\ peer'[h].storage = p.storage
        /\ peer'[h].isLeader = p.isLeader /\ peer'[h].proposals = g.rest
        /\ peer'[h].alive = al /\ peer'[h].kv_db = db /\ peer'[h].cur = c
    BY <1>5, <2>1, <2>2 DEF PeerState, RaftSame
  <2>4. \A q \in Host : peer'[q] \in PeerState
    BY <1>1, <2>1, <2>3 DEF Only
  <2> QED
    BY <2>1, <2>3, <2>4
<1>12. CASE Skips(e.data)
  <2>1. ~ab /\ ~dn
    BY <1>12
  <2>2. Refuses(g)
    BY <1>6, <2>1 DEF Refuses
  <2> QED
    BY <1>2, <1>3, <1>6, <1>7, <1>8, <1>9, <1>11, <1>12, <2>1, <2>2
<1>13. CASE ~Skips(e.data) /\ Aborts(p.kv_db, Cmd[e.data])
  <2>1. ab /\ ~dn /\ e.data \in Request
    BY <1>4, <1>13, SkipsFacts
  <2>2. Refuses(g)
    BY <1>6, <2>1 DEF Refuses
  <2> QED
    BY <1>2, <1>3, <1>6, <1>7, <1>8, <1>9, <1>11, <1>13, <2>1, <2>2
<1>14. CASE ~Skips(e.data) /\ ~Aborts(p.kv_db, Cmd[e.data])
  <2>1. ~ab /\ dn /\ e.data \in Request
    BY <1>4, <1>14, SkipsFacts
  <2>2. Replies(g, p.kv_db, e.data)
    BY <1>6, <2>1 DEF Replies
  <2> QED
    BY <1>2, <1>3, <1>6, <1>7, <1>8, <1>9, <1>11, <1>14, <2>1, <2>2
<1> QED
  BY <1>12, <1>13, <1>14

LEMMA ProcessAnswers ==
    ASSUME ClusterTypes, ClusterBounds, NEW h \in Host, ProcessEntry(h),
           NEW p, p = peer[h], NEW e, e = p.log[p.cur + 1],
           NEW g, g = Lookup(p, p.cur + 1, e.term)
    PROVE  /\ peer'[h].proposals = g.rest
           /\ \/ Refuses(g)
              \/ /\ e.data \in Request /\ ~Aborts(p.kv_db, Cmd[e.data])
                 /\ peer'[h].cur = p.cur + 1 /\ Replies(g, p.kv_db, e.data)
BY ProcessFacts

-----------------------------------------------------------------------------
LEMMA RejectedType == Rejected \in Response
BY DEF Rejected, Response

LEMMA TypesStep ==
    ASSUME ClusterTypes, ClusterBounds, LeaderInv, [Next]_vars
    PROVE  ClusterTypes'
<1> USE ConstantFacts
<1>1. ASSUME NEW r \in Request, KvOpCb(r) PROVE ClusterTypes'
  <2>1. CASE ~peer[Home[r]].isLeader
    <3>1. [resp EXCEPT ![r] = Append(@, Rejected)] \in [Request -> Seq(Response)]
      BY RejectedType DEF ClusterTypes
    <3> QED
      BY <1>1, <2>1, <3>1, RejectFacts DEF ClusterTypes
  <2>2. CASE peer[Home[r]].isLeader
    <3>1. PICK h \in Host, t \in Term, m \in Seq(Entry), e \in Entry, l \in Seq(Entry) :
            Proposes(r, h, t, m, e, l)
      BY <1>1, <2>2, ProposeFacts
    <3>2. peer' \in [Host -> PeerState] /\ busy' = busy /\ acked' = acked
      BY <3>1 DEF Proposes
    <3>3. lead' \in [Term -> [log : Seq(Entry), commit : Nat]]
      BY <3>1 DEF Proposes
    <3>4. resp' = resp /\ asked' = asked \cup {r}
      BY <3>1 DEF Proposes
    <3> QED
      BY <3>2, <3>3, <3>4 DEF ClusterTypes
  <2> QED
    BY <2>1, <2>2
<1>2. ASSUME NEW t \in Term, NEW Q \in SUBSET Host, Elected(t, Q) PROVE ClusterTypes'
  <2>1. PICK h \in Host, m \in Seq(Entry), e \in Entry, l \in Seq(Entry) :
          Elects(t, Q, h, m, e, l)
    BY <1>2, ElectedFacts
  <2>2. /\ peer' \in [Host -> PeerState] /\ busy' = busy /\ acked' = acked
        /\ lead' \in [Term -> [log : Seq(Entry), commit : Nat]]
        /\ resp' = resp /\ asked' = asked
    BY <2>1 DEF Elects
  <2> QED
    BY <2>2 DEF ClusterTypes
<1>3. ASSUME NEW h \in Host, NEW t \in Term, NewTerm(h, t) PROVE ClusterTypes'
  BY <1>3, NewTermFacts DEF ClusterTypes
<1>4. ASSUME NEW h \in Host, NEW t \in Term, NEW n \in 0..MaxLog, NEW c \in 0..MaxLog,
             Deliver(h, t, n, c)
      PROVE  ClusterTypes'
  <2>1. /\ peer' \in [Host -> PeerState] /\ lead' = lead
        /\ acked' \in [Term -> [Host -> Nat]]
        /\ busy' = busy /\ asked' = asked /\ resp' = resp
    BY <1>4, DeliverFacts DEF Delivers
  <2> QED
    BY <2>1 DEF ClusterTypes
<1>5. ASSUME NEW h \in Host, NEW n \in 1..MaxLog, Commit(h, n) PROVE ClusterTypes'
  <2>1. PICK t \in Term : Commits(h, n, t)
    BY <1>5, CommitFacts
  <2> QED
    BY <2>1 DEF Commits, ClusterTypes
<1>6. ASSUME NEW h \in Host, Tick(h) PROVE ClusterTypes'
  BY <1>6, TickFacts DEF ClusterTypes
<1>7. ASSUME NEW h \in Host, ProcessEntry(h) PROVE ClusterTypes'
  <2> DEFINE p == peer[h]
             e == p.log[p.cur + 1]
             g == Lookup(p, p.cur + 1, e.term)
  <2>1. p.kv_db \in Db
    BY PeerFields
  <2>0. p = peer[h] /\ e = p.log[p.cur + 1] /\ g = Lookup(p, p.cur + 1, e.term)
    OBVIOUS
  <2> HIDE DEF p, e, g
  <2>2. /\ peer' \in [Host -> PeerState] /\ lead' = lead /\ acked' = acked
        /\ asked' = asked /\ busy' \in {h, NoHost}
    BY <1>7, <2>0, ProcessFacts
  <2>3. Refuses(g) \/ (e.data \in Request /\ Replies(g, p.kv_db, e.data))
    BY <1>7, <2>0, ProcessAnswers
  <2>4. resp' \in [Request -> Seq(Response)]
    <3>1. ASSUME NEW r \in Request PROVE resp[r] \in Seq(Response)
      BY DEF ClusterTypes
    <3>2. ASSUME NEW r \in Request PROVE Append(resp[r], Rejected) \in Seq(Response)
      BY <3>1, RejectedType
    <3>3. ASSUME NEW r \in Request, e.data \in Request
          PROVE  Append(resp[r], Done(p.kv_db, Cmd[e.data])) \in Seq(Response)
      <4>1. Done(p.kv_db, Cmd[e.data]) \in Response
        BY <2>1, <3>3, DoneType
      <4> QED
        BY <3>1, <4>1
    <3>4. CASE Refuses(g)
      BY <3>1, <3>2, <3>4 DEF Refuses
    <3>5. CASE e.data \in Request /\ Replies(g, p.kv_db, e.data)
      BY <3>1, <3>2, <3>3, <3>5 DEF Replies
    <3> QED
      BY <2>3, <3>4, <3>5
  <2> QED
    BY <2>2, <2>4 DEF ClusterTypes
<1>8. ASSUME NEW h \in Host, Advance(h) PROVE ClusterTypes'
  BY <1>8, AdvanceFacts DEF ClusterTypes
<1>9. CASE UNCHANGED vars
  BY <1>9 DEF vars, ClusterTypes
<1> QED
  BY <1>1, <1>2, <1>3, <1>4, <1>5, <1>6, <1>7, <1>8, <1>9 DEF Next

-----------------------------------------------------------------------------
(***************************************************************************)
(* Raft.  Terms, acknowledgements and the logs of leaders only grow, and   *)
(* nobody acknowledges anything in a term it has passed.                   *)
(***************************************************************************)
Grows ==
    /\ \A q \in Host : peer'[q].term >= peer[q].term
    /\ \A t \in Term, q \in Host :
          /\ acked'[t][q] >= acked[t][q]
          /\ acked'[t][q] # acked[t][q] => peer[q].term <= t
    /\ \A t \in Term : Agree(lead'[t].log, lead[t].log, Len(lead[t].log))

LEMMA OwnEntryStable ==
    ASSUME ClusterTypes, ClusterTypes', Grows, NEW t \in Term, NEW n, OwnEntry(t, n)
    PROVE  /\ OwnEntry(t, n)' /\ n \in Nat
           /\ lead'[t].log[n] = lead[t].log[n]
           /\ Agree(lead'[t].log, lead[t].log, n)
<1>1. /\ Len(lead[t].log) \in Nat /\ Len(lead'[t].log) \in Nat
      /\ Agree(lead'[t].log, lead[t].log, Len(lead[t].log))
      /\ n \in 1..Len(lead[t].log) /\ lead[t].log[n].term = t
  BY LeadFields DEF Grows, OwnEntry, ClusterTypes
<1>2. PICK k \in Nat : k = Len(lead[t].log)
  BY <1>1
<1>3. /\ Len(lead'[t].log) >= k /\ \A i \in 1..k : lead'[t].log[i] = lead[t].log[i]
  BY <1>1, <1>2 DEF Agree
<1>4. n \in 1..k /\ n \in Nat /\ n \in 1..Len(lead'[t].log) /\ Len(lead[t].log) >= n
  BY <1>1, <1>2, <1>3
<1>5. lead'[t].log[n] = lead[t].log[n] /\ \A i \in 1..n : i \in 1..k
  BY <1>3, <1>4
<1>6. Agree(lead'[t].log, lead[t].log, n)
  BY <1>3, <1>4, <1>5 DEF Agree
<1> QED
  BY <1>1, <1>4, <1>5, <1>6 DEF OwnEntry

LEMMA ChosenStable ==
    ASSUME ClusterTypes, ClusterTypes', Grows, NEW t \in Term, NEW n, Chosen(t, n)
    PROVE  Chosen(t, n)'
<1>1. PICK Q \in SUBSET Host : Quorum(Q) /\ \A q \in Q : Has(t, q, n)
  BY DEF Chosen
<1>2. OwnEntry(t, n) /\ OwnEntry(t, n)' /\ n \in Nat
  BY OwnEntryStable DEF Chosen
<1>3. \A q \in Q : Has(t, q, n)'
  <2>1. ASSUME NEW q \in Q PROVE acked[t][q] \in Nat /\ acked'[t][q] \in Nat /\ acked'[t][q] >= acked[t][q]
    BY DEF ClusterTypes, Grows
  <2> QED
    BY <1>1, <1>2, <2>1 DEF Has
<1> QED
  BY <1>1, <1>2, <1>3 DEF Chosen

LEMMA NotChosenStable ==
    ASSUME ClusterTypes, ClusterTypes', Grows, NEW t \in Term, NEW n, NotChosen(t, n)
    PROVE  NotChosen(t, n)'
<1>1. PICK Q \in SUBSET Host :
        Quorum(Q) /\ \A q \in Q : peer[q].term > t /\ ~Has(t, q, n)
  BY DEF NotChosen
<1>2. ASSUME NEW q \in Q PROVE peer'[q].term > t /\ ~Has(t, q, n)'
  <2>1. /\ peer[q].term \in Nat /\ peer'[q].term \in Nat /\ t \in Nat
        /\ peer'[q].term >= peer[q].term
    BY PeerFields, ConstantFacts DEF ClusterTypes, PeerState, Grows
  <2>2. acked'[t][q] = acked[t][q]
    BY <1>1, <2>1 DEF Grows
  <2> QED
    BY <1>1, <2>1, <2>2 DEF Has
<1> QED
  BY <1>1, <1>2 DEF NotChosen

\* What a majority has, no majority can have passed.
LEMMA ChosenNotNotChosen ==
    ASSUME NEW t \in Term, NEW n, Chosen(t, n), NotChosen(t, n)
    PROVE  FALSE
<1>1. PICK P \in SUBSET Host : Quorum(P) /\ \A q \in P : Has(t, q, n)
  BY DEF Chosen
<1>2. PICK Q \in SUBSET Host : Quorum(Q) /\ \A q \in Q : ~Has(t, q, n)
  BY DEF NotChosen
<1> QED
  BY <1>1, <1>2, QuorumsMeet

LEMMA SeenStable ==
    ASSUME ClusterTypes, ClusterTypes', Grows, NEW u \in Term, Seen(u)
    PROVE  Seen(u)'
<1>1. PICK Q \in SUBSET Host : Quorum(Q) /\ \A q \in Q : peer[q].term >= u
  BY DEF Seen
<1>2. ASSUME NEW q \in Q PROVE peer'[q].term >= u
  <2>1. /\ peer[q].term \in Nat /\ peer'[q].term \in Nat /\ u \in Nat
        /\ peer'[q].term >= peer[q].term
    BY PeerFields, ConstantFacts DEF ClusterTypes, PeerState, Grows
  <2> QED
    BY <1>1, <2>1
<1> QED
  BY <1>1, <1>2 DEF Seen

\* The leader of u has every chosen entry of an earlier term, or its own.
LEMMA ChosenIsLed ==
    ASSUME ClusterTypes, ClusterBounds, SafeInv, NEW s \in Term, NEW u \in Term, s <= u,
           NEW n, Chosen(s, n), Held(u)
    PROVE  Agree(lead[u].log, lead[s].log, n)
<1>1. /\ OwnEntry(s, n) /\ n \in 1..Len(lead[s].log) /\ n \in 1..MaxLog
      /\ lead[s].log \in Seq(Entry) /\ s \in Nat /\ u \in Nat /\ n \in Nat
  BY LeadFields, ConstantFacts DEF Chosen, OwnEntry, ClusterBounds
<1>2. CASE s = u
  BY <1>1, <1>2, AgreeFacts
<1>3. CASE s < u
  BY <1>1, <1>3, ChosenNotNotChosen DEF SafeInv
<1> QED
  BY <1>1, <1>2, <1>3

\* Logs stay tied while the logs of leaders grow, and one that grows by an
\* entry of its leader's term stays in order.
LEMMA TiedStable ==
    ASSUME ClusterTypes, ClusterTypes', Grows, NEW l \in Seq(Entry), Tied(l),
           NEW i \in 1..Len(l)
    PROVE  Agree(l, lead'[l[i].term].log, i)
<1>1. l[i] \in Entry /\ l[i].term \in Term /\ i \in Nat
  BY EntryOf
<1>2. PICK u \in Term : u = l[i].term
  BY <1>1
<1>3. /\ lead[u].log \in Seq(Entry) /\ lead'[u].log \in Seq(Entry)
      /\ Agree(l, lead[u].log, i) /\ Agree(lead'[u].log, lead[u].log, Len(lead[u].log))
  BY <1>2, LeadFields DEF Tied, Grows, ClusterTypes
<1> QED
  BY <1>1, <1>2, <1>3 DEF Agree

LEMMA TiedAppend ==
    ASSUME ClusterTypes, ClusterTypes', Grows, NEW m \in Seq(Entry), Tied(m),
           NEW e \in Entry, NEW l, l = Append(m, e), lead'[e.term].log = l,
           NEW i \in 1..Len(l)
    PROVE  Agree(l, lead'[l[i].term].log, i)
<1>1. /\ l \in Seq(Entry) /\ Len(l) = Len(m) + 1 /\ l[Len(m) + 1] = e
      /\ \A j \in 1..Len(m) : l[j] = m[j]
      /\ Len(m) \in Nat /\ i \in Nat
  BY AppendFacts
<1>2. CASE i = Len(m) + 1
  <2>1. Agree(l, l, i)
    BY <1>1, <1>2 DEF Agree
  <2>2. lead'[l[i].term].log = l
    BY <1>1, <1>2
  <2> QED
    BY <2>1, <2>2
<1>3. CASE i \in 1..Len(m)
  <2>1. Agree(m, lead'[m[i].term].log, i) /\ m[i] = l[i]
    BY <1>1, <1>3, TiedStable
  <2>2. \A j \in 1..i : l[j] = m[j]
    BY <1>1, <1>3
  <2> QED
    BY <1>1, <1>3, <2>1, <2>2 DEF Agree
<1> QED
  BY <1>1, <1>2, <1>3

LEMMA RisingAppend ==
    ASSUME NEW m \in Seq(Entry), NEW t \in Term, NEW e \in Entry, e.term = t,
           Rising(m), Within(m, t), NEW l, l = Append(m, e)
    PROVE  Rising(l) /\ Within(l, t)
<1>1. /\ l \in Seq(Entry) /\ Len(l) = Len(m) + 1 /\ l[Len(m) + 1] = e
      /\ \A j \in 1..Len(m) : l[j] = m[j] /\ l[j].term <= t
      /\ Len(m) \in Nat /\ t \in Nat
  BY AppendFacts, ConstantFacts DEF Within
<1>2. \A i \in 1..Len(l) : i \in 1..Len(m) \/ i = Len(m) + 1
  BY <1>1
<1>3. Within(l, t)
  BY <1>1, <1>2 DEF Within
<1>4. ASSUME NEW i \in 1..Len(l), NEW j \in 1..Len(l), i <= j PROVE l[i].term <= l[j].term
  <2>1. CASE j = Len(m) + 1
    BY <1>1, <1>3, <2>1 DEF Within
  <2>2. CASE j \in 1..Len(m)
    <3>1. i \in 1..Len(m)
      BY <1>1, <1>4, <2>2
    <3> QED
      BY <1>1, <1>4, <2>2, <3>1 DEF Rising
  <2> QED
    BY <1>2, <2>1, <2>2
<1> QED
  BY <1>3, <1>4 DEF Rising

\* What is settled stays so, in any log that keeps it.
LEMMA SettledStable ==
    ASSUME ClusterTypes, ClusterTypes', Grows,
           NEW l \in Seq(Entry), NEW x \in Seq(Entry), NEW c \in Nat,
           NEW t, Settled(l, c, t), Agree(x, l, c)
    PROVE  c = 0 \/ \E s \in Term, n \in 1..MaxLog :
                       s <= t /\ Chosen(s, n)' /\ c <= n /\ Agree(x, lead'[s].log, c)
<1> SUFFICES ASSUME c # 0
             PROVE  \E s \in Term, n \in 1..MaxLog :
                       s <= t /\ Chosen(s, n)' /\ c <= n /\ Agree(x, lead'[s].log, c)
  OBVIOUS
<1>1. PICK s \in Term, n \in 1..MaxLog :
        s <= t /\ Chosen(s, n) /\ c <= n /\ Agree(l, lead[s].log, c)
  BY DEF Settled
<1>2. Chosen(s, n)' /\ Agree(lead'[s].log, lead[s].log, n) /\ n \in Nat
  BY <1>1, ChosenStable, OwnEntryStable DEF Chosen
<1>3. \A i \in 1..c : i \in 1..n
  BY <1>1, <1>2
<1>4. Len(lead'[s].log) \in Nat /\ Len(lead'[s].log) >= c
  <2>1. lead'[s].log \in Seq(Entry) /\ Len(lead'[s].log) >= n
    BY <1>2 DEF ClusterTypes, Agree
  <2> QED
    BY <1>1, <1>2, <2>1
<1>5. Agree(x, lead'[s].log, c)
  BY <1>1, <1>2, <1>3, <1>4 DEF Agree
<1> QED
  BY <1>1, <1>2, <1>5

LEMMA LeadSettledStable ==
    ASSUME ClusterTypes, ClusterBounds, ClusterTypes', Grows, RaftInv,
           NEW u \in Term, lead'[u].commit = lead[u].commit
    PROVE  Settled(lead[u].log, lead[u].commit, u)'
<1>1. /\ lead[u].log \in Seq(Entry) /\ lead'[u].log \in Seq(Entry)
      /\ lead[u].commit \in Nat /\ Len(lead[u].log) \in Nat
      /\ lead[u].commit <= Len(lead[u].log)
      /\ Settled(lead[u].log, lead[u].commit, u) /\ u \in Nat
      /\ Agree(lead'[u].log, lead[u].log, Len(lead[u].log))
  BY LeadFields, ConstantFacts DEF ClusterTypes, ClusterBounds, RaftInv, CommitInv, Grows
<1>2. Agree(lead'[u].log, lead[u].log, lead[u].commit)
  BY <1>1, AgreeFacts
<1>3. \/ lead[u].commit = 0
      \/ \E s \in Term, n \in 1..MaxLog :
            /\ s <= u /\ Chosen(s, n)' /\ lead[u].commit <= n
            /\ Agree(lead'[u].log, lead'[s].log, lead[u].commit)
  BY <1>1, <1>2, SettledStable
<1> QED
  BY <1>3 DEF Settled

LEMMA HostSettledStable ==
    ASSUME ClusterTypes, ClusterTypes', Grows, RaftInv, NEW q \in Host,
           peer'[q].committed = peer[q].committed,
           Agree(peer'[q].log, peer[q].log, peer[q].committed)
    PROVE  Settled(peer[q].log, peer[q].committed, peer[q].term)'
<1>1. /\ Settled(peer[q].log, peer[q].committed, peer[q].term)
      /\ peer[q].log \in Seq(Entry) /\ peer'[q].log \in Seq(Entry)
      /\ peer[q].committed \in Nat
      /\ peer[q].term \in Nat /\ peer'[q].term \in Nat /\ peer'[q].term >= peer[q].term
  BY PeerFields, ConstantFacts DEF RaftInv, CommitInv, ClusterTypes, PeerState, Grows
<1>2. \/ peer[q].committed = 0
      \/ \E s \in Term, n \in 1..MaxLog :
            /\ s <= peer[q].term /\ Chosen(s, n)' /\ peer[q].committed <= n
            /\ Agree(peer'[q].log, lead'[s].log, peer[q].committed)
  BY <1>1, SettledStable
<1>3. ASSUME NEW s \in Term, s <= peer[q].term PROVE s <= peer'[q].term
  BY <1>1, <1>3, ConstantFacts
<1> QED
  BY <1>1, <1>2, <1>3 DEF Settled

-----------------------------------------------------------------------------
\* A step that leaves logs and acknowledgements alone, and one that leaves the
\* commit indexes alone as well.
Still ==
    /\ \A q \in Host :
          /\ peer'[q].log = peer[q].log
          /\ peer'[q].term >= peer[q].term
          /\ peer'[q].isLeader => peer[q].isLeader /\ peer'[q].term = peer[q].term
    /\ \A t \in Term : lead'[t].log = lead[t].log
    /\ acked' = acked
Quiet ==
    /\ Still
    /\ \A q \in Host : peer'[q].committed = peer[q].committed
    /\ \A t \in Term : lead'[t].commit = lead[t].commit

LEMMA StillKeeps ==
    ASSUME ClusterTypes, ClusterTypes', RaftInv, Still
    PROVE  Grows /\ LogInv' /\ LeaderInv' /\ VoteInv' /\ SafeInv' /\ KeepInv'
<1>1. Grows
  <2>1. \A t \in Term : Agree(lead'[t].log, lead[t].log, Len(lead[t].log))
    BY LeadFields, AgreeFacts DEF Still
  <2>2. \A t \in Term, q \in Host : acked'[t][q] >= acked[t][q]
    BY LeadFields DEF Still
  <2> QED
    BY <2>1, <2>2 DEF Still, Grows
<1>2. \A q \in Host : /\ peer[q].term \in Nat /\ peer'[q].term \in Nat
                      /\ peer'[q].term >= peer[q].term
  BY PeerFields, ConstantFacts DEF ClusterTypes, PeerState, Still
<1>3. LogInv'
  <2>1. ASSUME NEW q \in Host
        PROVE  Tied(peer[q].log)' /\ Rising(peer[q].log)' /\ Within(peer[q].log, peer[q].term)'
    <3>1. /\ peer'[q].log = peer[q].log /\ peer[q].log \in Seq(Entry)
          /\ Tied(peer[q].log) /\ Rising(peer[q].log) /\ Within(peer[q].log, peer[q].term)
      BY PeerFields DEF Still, RaftInv, LogInv
    <3>2. ASSUME NEW i \in 1..Len(peer[q].log) PROVE peer[q].log[i].term <= peer'[q].term
      <4>1. peer[q].log[i].term \in Nat /\ peer[q].log[i].term <= peer[q].term
        BY <3>1, EntryOf DEF Within
      <4> QED
        BY <1>2, <4>1
    <3>3. \A i \in 1..Len(peer[q].log) : Agree(peer[q].log, lead'[peer[q].log[i].term].log, i)
      BY <1>1, <3>1, TiedStable
    <3> QED
      BY <3>1, <3>2, <3>3 DEF Tied, Rising, Within
  <2>2. ASSUME NEW t \in Term
        PROVE  Tied(lead[t].log)' /\ Rising(lead[t].log)' /\ Within(lead[t].log, t)'
    <3>1. /\ lead'[t].log = lead[t].log /\ lead[t].log \in Seq(Entry)
          /\ Tied(lead[t].log) /\ Rising(lead[t].log) /\ Within(lead[t].log, t)
      BY LeadFields DEF Still, RaftInv, LogInv
    <3>2. \A i \in 1..Len(lead[t].log) : Agree(lead[t].log, lead'[lead[t].log[i].term].log, i)
      BY <1>1, <3>1, TiedStable
    <3> QED
      BY <3>1, <3>2 DEF Tied, Rising, Within
  <2> QED
    BY <2>1, <2>2 DEF LogInv
<1>4. LeaderInv'
  <2>1. ASSUME NEW q \in Host, peer'[q].isLeader
        PROVE  peer'[q].term \in Term /\ Leader[peer'[q].term] = q /\ Held(peer[q].term)'
    BY <2>1 DEF Still, RaftInv, LeaderInv, Held
  <2>2. ASSUME NEW t \in Term, Held(t)'
        PROVE  /\ peer'[Leader[t]].term >= t
               /\ peer'[Leader[t]].term = t => peer'[Leader[t]].log = lead'[t].log
    <3>1. Held(t) /\ lead'[t].log = lead[t].log /\ Leader[t] \in Host /\ t \in Nat
      BY <2>2, ConstantFacts DEF Still, Held
    <3>2. /\ peer[Leader[t]].term >= t
          /\ peer[Leader[t]].term = t => peer[Leader[t]].log = lead[t].log
          /\ peer'[Leader[t]].log = peer[Leader[t]].log
      BY <3>1 DEF RaftInv, LeaderInv, Still
    <3> QED
      BY <1>2, <3>1, <3>2
  <2>3. ASSUME NEW t \in Term, NEW q \in Host, acked'[t][q] > 0 PROVE peer'[q].term >= t
    <3>1. peer[q].term >= t /\ t \in Nat
      BY <2>3, ConstantFacts DEF Still, RaftInv, LeaderInv
    <3> QED
      BY <1>2, <3>1
  <2> QED
    BY <2>1, <2>2, <2>3 DEF LeaderInv
<1>5. VoteInv'
  BY <1>1, SeenStable DEF Still, RaftInv, VoteInv, Held
<1>6. SafeInv'
  <2> SUFFICES ASSUME NEW t \in Term, NEW u \in Term, NEW n \in 1..MaxLog,
                      OwnEntry(t, n)', t < u, Held(u)'
               PROVE  Agree(lead'[u].log, lead'[t].log, n) \/ NotChosen(t, n)'
    BY DEF SafeInv
  <2>1. /\ OwnEntry(t, n) /\ Held(u)
        /\ lead'[t].log = lead[t].log /\ lead'[u].log = lead[u].log
    BY DEF Still, OwnEntry, Held
  <2> QED
    BY <1>1, <2>1, NotChosenStable DEF RaftInv, SafeInv
<1>7. KeepInv'
  <2> SUFFICES ASSUME NEW t \in Term, NEW q \in Host, NEW n \in 1..MaxLog,
                      OwnEntry(t, n)', Has(t, q, n)'
               PROVE  Agree(peer'[q].log, lead'[t].log, n) \/ NotChosen(t, n)'
    BY DEF KeepInv
  <2>1. /\ OwnEntry(t, n) /\ Has(t, q, n)
        /\ lead'[t].log = lead[t].log /\ peer'[q].log = peer[q].log
    BY DEF Still, OwnEntry, Has
  <2> QED
    BY <1>1, <2>1, NotChosenStable DEF RaftInv, KeepInv
<1> QED
  BY <1>1, <1>3, <1>4, <1>5, <1>6, <1>7

\* In a still step host q keeps what is settled.
LEMMA StillSettled ==
    ASSUME ClusterTypes, ClusterBounds, ClusterTypes', RaftInv, Still, NEW q \in Host,
           peer'[q].committed = peer[q].committed
    PROVE  Settled(peer[q].log, peer[q].committed, peer[q].term)'
<1>1. /\ peer[q].log \in Seq(Entry) /\ peer'[q].log = peer[q].log
      /\ peer[q].committed \in Nat /\ peer[q].committed <= Len(peer[q].log)
  BY PeerFields DEF Still, ClusterBounds
<1>2. Agree(peer[q].log, peer[q].log, peer[q].committed) /\ Grows
  BY <1>1, AgreeFacts, StillKeeps
<1> QED
  BY <1>1, <1>2, HostSettledStable

LEMMA QuietKeeps ==
    ASSUME ClusterTypes, ClusterBounds, ClusterTypes', RaftInv, Quiet
    PROVE  Grows /\ RaftInv'
<1>1. /\ Still /\ Grows /\ LogInv' /\ LeaderInv' /\ VoteInv' /\ SafeInv' /\ KeepInv'
  BY StillKeeps DEF Quiet
<1>2. CommitInv'
  BY <1>1, StillSettled, LeadSettledStable DEF Quiet, CommitInv
<1> QED
  BY <1>1, <1>2 DEF RaftInv

\* A leader's log is the log of its term.
LEMMA LeadersLog ==
    ASSUME ClusterTypes, RaftInv, NEW h \in Host, peer[h].isLeader
    PROVE  /\ peer[h].term \in Term /\ Leader[peer[h].term] = h
           /\ Held(peer[h].term) /\ lead[peer[h].term].log = peer[h].log
BY DEF RaftInv, LeaderInv

\* A leader commits what a majority of the group has.
LEMMA CommitKeeps ==
    ASSUME ClusterTypes, ClusterBounds, ClusterTypes', RaftInv,
           NEW h \in Host, NEW n \in 1..MaxLog, Commit(h, n)
    PROVE  Grows /\ RaftInv'
<1>0. PICK t \in Term : Commits(h, n, t)
  BY CommitFacts DEF RaftInv
<1>1. t = peer[h].term /\ Leader[t] = h /\ lead[t].log = peer[h].log
  BY <1>0, LeadersLog DEF Commits
<1>2. /\ Only(h) /\ peer'[h].isLeader = peer[h].isLeader /\ peer'[h].term = peer[h].term
      /\ peer'[h].committed = n /\ peer'[h].log = peer[h].log
      /\ lead'[t].log = lead[t].log /\ lead'[t].commit = n
      /\ \A u \in Term \ {t} : lead'[u] = lead[u]
      /\ acked' = acked /\ peer[h].log[n].term = t
      /\ n \in (peer[h].committed + 1)..Len(peer[h].log)
      /\ \E Q \in SUBSET Host : Quorum(Q) /\ \A q \in Q : q = h \/ acked[t][q] >= n
  BY <1>0 DEF Commits
<1>3. Still
  <2>1. \A q \in Host : peer'[q].term >= peer[q].term
    BY <1>2, PeerFields DEF Only
  <2> QED
    BY <1>2, <2>1 DEF Still, Only
<1>4. /\ Grows /\ LogInv' /\ LeaderInv' /\ VoteInv' /\ SafeInv' /\ KeepInv'
  BY <1>3, StillKeeps
<1>5. /\ n \in 1..Len(peer[h].log) /\ n \in Nat /\ peer[h].log \in Seq(Entry)
      /\ peer[h].term \in Nat
  BY <1>2, PeerFields, ConstantFacts
<1>6. Chosen(t, n)'
  <2>1. OwnEntry(t, n)
    BY <1>1, <1>2, <1>5 DEF OwnEntry
  <2>2. Chosen(t, n)
    BY <1>1, <1>2, <2>1 DEF Chosen, Has
  <2> QED
    BY <1>4, <2>2, ChosenStable
<1>7. Agree(peer[h].log, peer[h].log, n)
  BY <1>5, AgreeFacts
<1>8. t <= t /\ n <= n
  BY <1>1, <1>5
<1>9. Settled(peer[h].log, peer[h].committed, peer[h].term)' /\ Settled(lead[t].log, lead[t].commit, t)'
  BY <1>1, <1>2, <1>6, <1>7, <1>8 DEF Settled
<1>10. ASSUME NEW q \in Host, q # h
       PROVE  Settled(peer[q].log, peer[q].committed, peer[q].term)'
  <2>1. peer'[q].committed = peer[q].committed
    BY <1>2, <1>10 DEF Only
  <2> QED
    BY <1>3, <2>1, StillSettled
<1>11. ASSUME NEW u \in Term, u # t PROVE Settled(lead[u].log, lead[u].commit, u)'
  <2>1. lead'[u].commit = lead[u].commit
    BY <1>2, <1>11
  <2> QED
    BY <1>4, <2>1, LeadSettledStable
<1>12. CommitInv'
  BY <1>9, <1>10, <1>11 DEF CommitInv
<1> QED
  BY <1>4, <1>12 DEF RaftInv

-----------------------------------------------------------------------------
\* A leader appends the entry of a request.
LEMMA ProposeKeeps ==
    ASSUME ClusterTypes, ClusterBounds, ClusterTypes', RaftInv,
           NEW r \in Request, KvOpCb(r), peer[Home[r]].isLeader
    PROVE  Grows /\ RaftInv'
<1>0. PICK h \in Host, t \in Term, m \in Seq(Entry), e \in Entry, l \in Seq(Entry) :
         Proposes(r, h, t, m, e, l)
  BY ProposeFacts DEF RaftInv
<1>t. t = peer[h].term /\ m = peer[h].log /\ l = Append(m, e) /\ e.term = t /\ peer[h].isLeader
  BY <1>0 DEF Proposes
<1>1. Leader[t] = h /\ Held(t) /\ lead[t].log = m
  BY <1>t, LeadersLog
<1>2. /\ Only(h) /\ peer'[h].isLeader = peer[h].isLeader /\ peer'[h].term = t
      /\ peer'[h].committed = peer[h].committed /\ peer'[h].log = l
      /\ lead'[t].log = l /\ lead'[t].commit = lead[t].commit
      /\ \A u \in Term \ {t} : lead'[u] = lead[u]
      /\ acked' = acked /\ Len(m) < MaxLog
  BY <1>0 DEF Proposes
<1>3. /\ Len(m) \in Nat /\ Len(l) = Len(m) + 1 /\ e.term = t
      /\ l[Len(m) + 1] = e /\ \A i \in 1..Len(m) : l[i] = m[i]
  BY <1>t, AppendFacts
<1>4. /\ Agree(l, m, Len(m)) /\ Agree(m, l, Len(m))
      /\ \A x \in Seq(Entry), n \in Nat : Agree(x, m, n) => Agree(x, l, n)
      /\ \A x \in Seq(Entry), n \in Nat : Agree(m, x, n) => Agree(l, x, n)
  BY <1>3 DEF Agree
<1>5. \A q \in Host : /\ peer'[q].term = peer[q].term /\ peer[q].term \in Nat
                      /\ peer'[q].isLeader = peer[q].isLeader
                      /\ peer'[q].committed = peer[q].committed
                      /\ q # h => peer'[q].log = peer[q].log
  BY <1>2, <1>t, PeerFields DEF Only
<1>6. Grows
  <2>1. ASSUME NEW u \in Term PROVE Agree(lead'[u].log, lead[u].log, Len(lead[u].log))
    <3>1. CASE u = t
      BY <1>1, <1>2, <1>4, <3>1
    <3>2. CASE u # t
      BY <1>2, <3>2, LeadFields, AgreeFacts
    <3> QED
      BY <3>1, <3>2
  <2>2. \A u \in Term, q \in Host : acked'[u][q] >= acked[u][q]
    BY <1>2, LeadFields
  <2> QED
    BY <1>2, <1>5, <2>1, <2>2 DEF Grows
<1>7. LogInv'
  <2>1. /\ \A i \in 1..Len(l) : Agree(l, lead'[l[i].term].log, i)
        /\ Rising(l) /\ Within(l, t)
    <3>1. Tied(m) /\ Rising(m) /\ Within(m, t)
      BY <1>t DEF RaftInv, LogInv
    <3> QED
      <4>1. \A i \in 1..Len(l) : Agree(l, lead'[l[i].term].log, i)
        <5>1. lead'[e.term].log = l
          BY <1>2, <1>3
        <5> QED
          BY <5>1, <1>6, <3>1, <1>t, TiedAppend
      <4>2. Rising(l) /\ Within(l, t)
        BY <1>3, <3>1, <1>t, RisingAppend
      <4> QED
        BY <4>1, <4>2
  <2>2. ASSUME NEW q \in Host
        PROVE  Tied(peer[q].log)' /\ Rising(peer[q].log)' /\ Within(peer[q].log, peer[q].term)'
    <3>1. CASE q = h
      BY <1>2, <2>1, <3>1 DEF Tied, Rising, Within
    <3>2. CASE q # h
      <4>1. /\ peer'[q].log = peer[q].log /\ peer'[q].term = peer[q].term
            /\ peer[q].log \in Seq(Entry)
            /\ Tied(peer[q].log) /\ Rising(peer[q].log) /\ Within(peer[q].log, peer[q].term)
        BY <1>5, <3>2, PeerFields DEF RaftInv, LogInv
      <4> QED
        BY <1>6, <4>1, TiedStable DEF Tied, Rising, Within
    <3> QED
      BY <3>1, <3>2
  <2>3. ASSUME NEW u \in Term
        PROVE  Tied(lead[u].log)' /\ Rising(lead[u].log)' /\ Within(lead[u].log, u)'
    <3>1. CASE u = t
      BY <1>2, <2>1, <3>1 DEF Tied, Rising, Within
    <3>2. CASE u # t
      <4>1. /\ lead'[u].log = lead[u].log /\ lead[u].log \in Seq(Entry)
            /\ Tied(lead[u].log) /\ Rising(lead[u].log) /\ Within(lead[u].log, u)
        BY <1>2, <3>2, LeadFields DEF RaftInv, LogInv
      <4> QED
        BY <1>6, <4>1, TiedStable DEF Tied, Rising, Within
    <3> QED
      BY <3>1, <3>2
  <2> QED
    BY <2>2, <2>3 DEF LogInv
<1>8. \A u \in Term : Held(u)' => Held(u)
  BY <1>1, <1>2 DEF Held
<1>9. LeaderInv'
  <2>1. ASSUME NEW q \in Host, peer'[q].isLeader
        PROVE  peer'[q].term \in Term /\ Leader[peer'[q].term] = q /\ Held(peer[q].term)'
    <3>1. /\ peer[q].term \in Term /\ Leader[peer[q].term] = q
          /\ Held(peer[q].term) /\ peer'[q].term = peer[q].term
      BY <1>5, <2>1 DEF RaftInv, LeaderInv
    <3>2. PICK u \in Term : u = peer[q].term
      BY <3>1
    <3>3. Held(u)'
      <4>1. CASE u = t
        BY <1>2, <1>3, <4>1 DEF Held
      <4>2. CASE u # t
        BY <1>2, <3>1, <3>2, <4>2 DEF Held
      <4> QED
        BY <4>1, <4>2
    <3> QED
      BY <3>1, <3>2, <3>3 DEF Held
  <2>2. ASSUME NEW u \in Term, Held(u)'
        PROVE  /\ peer'[Leader[u]].term >= u
               /\ peer'[Leader[u]].term = u => peer'[Leader[u]].log = lead'[u].log
    <3>1. /\ Leader[u] \in Host /\ peer[Leader[u]].term >= u
          /\ peer[Leader[u]].term = u => peer[Leader[u]].log = lead[u].log
          /\ peer'[Leader[u]].term = peer[Leader[u]].term
      BY <1>5, <1>8, <2>2, ConstantFacts DEF RaftInv, LeaderInv
    <3>2. CASE u = t
      BY <1>1, <1>2, <3>1, <3>2
    <3>3. CASE u # t
      <4>1. peer[Leader[u]].term = u => Leader[u] # h
        BY <1>t, <3>3
      <4> QED
        BY <1>2, <1>5, <3>1, <3>3, <4>1
    <3> QED
      BY <3>2, <3>3
  <2>3. \A u \in Term, q \in Host : acked'[u][q] > 0 => peer'[q].term >= u
    BY <1>2, <1>5 DEF RaftInv, LeaderInv
  <2> QED
    BY <2>1, <2>2, <2>3 DEF LeaderInv
<1>10. VoteInv'
  BY <1>6, <1>8, SeenStable DEF RaftInv, VoteInv
<1>11. ASSUME NEW u \in Term, NEW n \in 1..MaxLog, OwnEntry(u, n)'
       PROVE  OwnEntry(u, n) \/ (u = t /\ n = Len(m) + 1)
  <2>1. CASE u = t
    BY <1>1, <1>2, <1>3, <1>11, <2>1 DEF OwnEntry
  <2>2. CASE u # t
    BY <1>2, <1>11, <2>2 DEF OwnEntry
  <2> QED
    BY <2>1, <2>2
<1>12. SafeInv'
  <2> SUFFICES ASSUME NEW s \in Term, NEW u \in Term, NEW n \in 1..MaxLog,
                      OwnEntry(s, n)', s < u, Held(u)'
               PROVE  Agree(lead'[u].log, lead'[s].log, n) \/ NotChosen(s, n)'
    BY DEF SafeInv
  <2>1. CASE OwnEntry(s, n)
    <3>1. Agree(lead[u].log, lead[s].log, n) \/ NotChosen(s, n)
      BY <1>8, <2>1 DEF RaftInv, SafeInv
    <3>2. ASSUME Agree(lead[u].log, lead[s].log, n)
          PROVE  Agree(lead'[u].log, lead'[s].log, n)
      <4>1. lead[u].log \in Seq(Entry) /\ lead[s].log \in Seq(Entry) /\ n \in Nat
        BY LeadFields, ConstantFacts
      <4>2. CASE u = t
        BY <1>1, <1>2, <1>4, <3>2, <4>1, <4>2
      <4>3. CASE s = t
        BY <1>1, <1>2, <1>4, <3>2, <4>1, <4>3
      <4>4. CASE s # t /\ u # t
        BY <1>2, <3>2, <4>4
      <4> QED
        BY <4>2, <4>3, <4>4
    <3> QED
      BY <1>6, <3>1, <3>2, NotChosenStable
  <2>2. CASE s = t /\ n = Len(m) + 1
    <3>1. PICK Q \in SUBSET Host : Quorum(Q) /\ \A q \in Q : peer[q].term >= u
      BY <1>8 DEF RaftInv, VoteInv, Seen
    <3>2. ASSUME NEW q \in Q PROVE peer'[q].term > s /\ ~Has(s, q, n)'
      <4>1. /\ peer[q].term >= u /\ peer[q].term \in Nat /\ u \in Nat /\ t \in Nat
            /\ acked[t][q] \in Nat /\ acked[t][q] <= Len(m)
        BY <1>1, <3>1, PeerFields, LeadFields, ConstantFacts DEF ClusterBounds
      <4>2. peer'[q].term > s
        BY <1>5, <2>2, <4>1
      <4>3. q # h
        BY <1>2, <1>5, <2>2, <4>1, <4>2, <1>t
      <4> QED
        BY <1>1, <1>2, <1>3, <2>2, <4>1, <4>2, <4>3 DEF Has
    <3> QED
      BY <3>1, <3>2 DEF NotChosen
  <2> QED
    BY <1>11, <2>1, <2>2
<1>13. KeepInv'
  <2> SUFFICES ASSUME NEW u \in Term, NEW q \in Host, NEW n \in 1..MaxLog,
                      OwnEntry(u, n)', Has(u, q, n)'
               PROVE  Agree(peer'[q].log, lead'[u].log, n) \/ NotChosen(u, n)'
    BY DEF KeepInv
  <2>1. Has(u, q, n) /\ n \in Nat
    BY <1>2 DEF Has
  <2>2. CASE OwnEntry(u, n)
    <3>1. Agree(peer[q].log, lead[u].log, n) \/ NotChosen(u, n)
      BY <2>1, <2>2 DEF RaftInv, KeepInv
    <3>2. ASSUME Agree(peer[q].log, lead[u].log, n)
          PROVE  Agree(peer'[q].log, lead'[u].log, n)
      <4>1. Agree(lead'[u].log, lead[u].log, n)
        BY <1>6, <2>2, OwnEntryStable
      <4>2. Agree(peer'[q].log, peer[q].log, n)
        <5>1. CASE q = h
          <6>1. peer'[q].log = l /\ peer[q].log = m /\ Len(m) >= n
            BY <1>2, <1>t, <3>2, <5>1 DEF Agree
          <6> QED
            BY <1>3, <2>1, <6>1 DEF Agree
        <5>2. CASE q # h
          BY <1>5, <3>2, <5>2 DEF Agree
        <5> QED
          BY <5>1, <5>2
      <4> QED
        BY <3>2, <4>1, <4>2 DEF Agree
    <3> QED
      BY <1>6, <3>1, <3>2, NotChosenStable
  <2>3. CASE u = t /\ n = Len(m) + 1
    <3>1. q = h
      <4>1. acked[t][q] \in Nat /\ acked[t][q] <= Len(m)
        BY <1>1, LeadFields DEF ClusterBounds
      <4> QED
        BY <1>1, <1>3, <2>1, <2>3, <4>1 DEF Has
    <3>2. Agree(l, l, n)
      BY <1>3, <2>3 DEF Agree
    <3> QED
      BY <1>2, <2>3, <3>1, <3>2
  <2> QED
    BY <1>11, <2>2, <2>3
<1>14. CommitInv'
  <2>1. ASSUME NEW q \in Host PROVE Settled(peer[q].log, peer[q].committed, peer[q].term)'
    <3>1. /\ peer'[q].committed = peer[q].committed /\ peer[q].committed \in Nat
          /\ peer[q].log \in Seq(Entry) /\ peer[q].committed <= Len(peer[q].log)
      BY <1>5, PeerFields DEF ClusterBounds
    <3>2. Agree(peer'[q].log, peer[q].log, peer[q].committed)
      <4>1. CASE q = h
        <5>1. peer'[q].log = l /\ peer[q].log = m
          BY <1>2, <1>t, <4>1
        <5> QED
          BY <1>3, <3>1, <5>1 DEF Agree
      <4>2. CASE q # h
        BY <1>5, <3>1, <4>2, AgreeFacts
      <4> QED
        BY <4>1, <4>2
    <3> QED
      BY <1>6, <3>1, <3>2, HostSettledStable
  <2>2. ASSUME NEW u \in Term PROVE Settled(lead[u].log, lead[u].commit, u)'
    <3>1. lead'[u].commit = lead[u].commit
      BY <1>2
    <3> QED
      BY <1>6, <3>1, LeadSettledStable
  <2> QED
    BY <2>1, <2>2 DEF CommitInv
<1> QED
  BY <1>6, <1>7, <1>9, <1>10, <1>12, <1>13, <1>14 DEF RaftInv

-----------------------------------------------------------------------------
\* A follower takes entries from the leader of t.  Nothing is lost that its log
\* shares with that leader's, and so nothing that is committed.
LEMMA DeliverKeeps ==
    ASSUME ClusterTypes, ClusterBounds, ClusterTypes', RaftInv,
           NEW h \in Host, NEW t \in Term, NEW n \in 0..MaxLog, NEW c \in 0..MaxLog,
           Deliver(h, t, n, c)
    PROVE  /\ Grows /\ RaftInv'
           /\ Agree(peer'[h].log, peer[h].log, peer[h].committed)
<1>1. /\ Only(h) /\ ~peer'[h].isLeader /\ peer'[h].term = t /\ peer[h].term <= t
      /\ peer'[h].committed = IF c > peer[h].committed THEN c ELSE peer[h].committed
      /\ lead' = lead
      /\ acked'[t][h] = IF n > acked[t][h] THEN n ELSE acked[t][h]
      /\ \A u \in Term, q \in Host : (u # t \/ q # h) => acked'[u][q] = acked[u][q]
      /\ h # Leader[t] /\ n \in 1..Len(lead[t].log) /\ c <= lead[t].commit /\ c <= n
  BY DeliverFacts DEF Delivers
<1>2. PICK old \in Seq(Entry), new \in Seq(Entry), ll \in Seq(Entry) :
        old = peer[h].log /\ new = peer'[h].log /\ ll = lead[t].log
  <2>1. peer[h].log \in Seq(Entry) /\ peer'[h].log \in Seq(Entry) /\ lead[t].log \in Seq(Entry)
    BY PeerFields, LeadFields DEF ClusterTypes, PeerState
  <2> QED
    BY <2>1
<1>d. \/ Agree(old, ll, n) /\ new = old
      \/ ~Agree(old, ll, n) /\ Len(new) = n /\ \A i \in 1..n : new[i] = ll[i]
  <2>1. Delivers(h, t, n, c)
    BY DeliverFacts
  <2>2. \/ Agree(peer[h].log, lead[t].log, n) /\ peer'[h].log = peer[h].log
        \/ /\ ~Agree(peer[h].log, lead[t].log, n) /\ Len(peer'[h].log) = n
           /\ \A i \in 1..n : peer'[h].log[i] = lead[t].log[i]
    BY <2>1 DEF Delivers
  <2> QED
    BY <1>2, <2>2
<1>3. n \in Nat /\ c \in Nat /\ Len(ll) \in Nat /\ n \in 1..Len(ll) /\ t \in Nat /\ Held(t)
  <2>1. n \in Nat /\ c \in Nat /\ Len(ll) \in Nat /\ n \in 1..Len(ll) /\ t \in Nat
    BY <1>1, <1>2, ConstantFacts
  <2>2. ll # << >>
    BY <2>1
  <2> QED
    BY <1>2, <2>1, <2>2 DEF Held
<1>4. new # old => Len(new) = n /\ \A i \in 1..n : new[i] = ll[i]
  BY <1>d
<1>5. Agree(new, ll, n)
  BY <1>3, <1>d DEF Agree
<1>6. ASSUME NEW k \in Nat, Agree(old, ll, k) PROVE Agree(new, ll, k)
  <2>1. CASE k <= n
    BY <1>3, <1>5, <2>1, AgreeFacts
  <2>2. CASE k > n
    <3>1. Agree(old, ll, n)
      BY <1>3, <1>6, <2>2, AgreeFacts
    <3> QED
      BY <1>6, <1>d, <3>1
  <2> QED
    BY <1>3, <2>1, <2>2
<1>7. ASSUME NEW k \in Nat, NEW y \in Seq(Entry), Agree(old, y, k), Agree(ll, y, k)
      PROVE  Agree(new, y, k)
  <2>1. Agree(old, ll, k)
    BY <1>7, AgreeFacts
  <2>2. Agree(new, ll, k)
    BY <1>6, <2>1
  <2> QED
    BY <1>7, <2>2, AgreeFacts
<1>8. \A q \in Host : /\ peer[q].term \in Nat /\ peer'[q].term \in Nat
                      /\ peer'[q].term >= peer[q].term
                      /\ q # h => peer'[q] = peer[q]
  <2>1. ASSUME NEW q \in Host PROVE peer[q].term \in Nat /\ peer'[q].term \in Nat
    BY PeerFields, NextFields
  <2> QED
    BY <1>1, <2>1 DEF Only
<1>9. Grows
  <2>1. \A u \in Term : Agree(lead'[u].log, lead[u].log, Len(lead[u].log))
    BY <1>1, LeadFields, AgreeFacts
  <2>2. ASSUME NEW u \in Term, NEW q \in Host
        PROVE  /\ acked'[u][q] >= acked[u][q]
               /\ acked'[u][q] # acked[u][q] => peer[q].term <= u
    <3>1. acked[u][q] \in Nat
      BY LeadFields
    <3>2. CASE u = t /\ q = h
      BY <1>1, <1>3, <3>1, <3>2
    <3>3. CASE u # t \/ q # h
      BY <1>1, <3>1, <3>3
    <3> QED
      BY <3>2, <3>3
  <2> QED
    BY <1>8, <2>1, <2>2 DEF Grows
<1>10. LogInv'
  <2>1. (\A i \in 1..Len(new) : Agree(new, lead[new[i].term].log, i)) /\ Rising(new) /\ Within(new, t)
    <3>1. CASE new = old
      <4>1. Tied(old) /\ Rising(old) /\ Within(old, peer[h].term)
        BY <1>2 DEF RaftInv, LogInv
      <4>2. ASSUME NEW i \in 1..Len(old) PROVE old[i].term <= t
        <5>1. old[i].term \in Nat /\ old[i].term <= peer[h].term
          BY <4>1, EntryOf DEF Within
        <5> QED
          BY <1>1, <1>3, <1>8, <5>1
      <4> QED
        BY <3>1, <4>1, <4>2 DEF Tied, Within
    <3>2. CASE new # old
      <4>1. Tied(ll) /\ Rising(ll) /\ Within(ll, t)
        BY <1>2 DEF RaftInv, LogInv
      <4>2. ASSUME NEW i \in 1..Len(new) PROVE i \in 1..Len(ll) /\ i <= n /\ new[i] = ll[i] /\ i \in Nat
        BY <1>3, <1>4, <3>2
      <4>3. ASSUME NEW i \in 1..Len(new) PROVE Agree(new, lead[new[i].term].log, i)
        <5>1. PICK u \in Term : u = new[i].term
          BY EntryOf
        <5>2. Agree(ll, lead[u].log, i) /\ lead[u].log \in Seq(Entry)
          BY <4>1, <4>2, <5>1, LeadFields DEF Tied
        <5>3. Agree(new, ll, i)
          BY <1>3, <1>5, <4>2, AgreeFacts
        <5> QED
          BY <4>2, <5>1, <5>2, <5>3, AgreeFacts
      <4> QED
        BY <4>1, <4>2, <4>3 DEF Rising, Within
    <3> QED
      BY <3>1, <3>2
  <2>2. ASSUME NEW q \in Host
        PROVE  Tied(peer[q].log)' /\ Rising(peer[q].log)' /\ Within(peer[q].log, peer[q].term)'
    <3>1. CASE q = h
      BY <1>1, <1>2, <2>1, <3>1 DEF Tied, Rising, Within
    <3>2. CASE q # h
      <4>1. peer'[q] = peer[q] /\ lead' = lead
        BY <1>1, <1>8, <3>2
      <4> QED
        BY <4>1 DEF RaftInv, LogInv, Tied, Rising, Within
    <3> QED
      BY <3>1, <3>2
  <2>3. ASSUME NEW u \in Term
        PROVE  Tied(lead[u].log)' /\ Rising(lead[u].log)' /\ Within(lead[u].log, u)'
    BY <1>1 DEF RaftInv, LogInv, Tied, Rising, Within
  <2> QED
    BY <2>2, <2>3 DEF LogInv
<1>11. LeaderInv'
  <2>1. ASSUME NEW q \in Host, peer'[q].isLeader
        PROVE  peer'[q].term \in Term /\ Leader[peer'[q].term] = q /\ Held(peer[q].term)'
    <3>1. peer'[q] = peer[q]
      BY <1>1, <1>8, <2>1
    <3> QED
      BY <1>1, <2>1, <3>1 DEF RaftInv, LeaderInv, Held
  <2>2. ASSUME NEW u \in Term, Held(u)'
        PROVE  /\ peer'[Leader[u]].term >= u
               /\ peer'[Leader[u]].term = u => peer'[Leader[u]].log = lead'[u].log
    <3>1. /\ Leader[u] \in Host /\ u \in Nat /\ peer[Leader[u]].term >= u
          /\ peer[Leader[u]].term = u => peer[Leader[u]].log = lead[u].log
      BY <1>1, <2>2, ConstantFacts DEF RaftInv, LeaderInv, Held
    <3>2. CASE Leader[u] = h
      <4>1. peer'[h].term >= u
        BY <1>8, <3>1, <3>2
      <4>2. u # t
        BY <1>1, <3>2
      <4> QED
        BY <1>1, <3>2, <4>1, <4>2
    <3>3. CASE Leader[u] # h
      BY <1>1, <1>8, <3>1, <3>3
    <3> QED
      BY <3>2, <3>3
  <2>3. ASSUME NEW u \in Term, NEW q \in Host, acked'[u][q] > 0 PROVE peer'[q].term >= u
    <3>1. CASE u = t /\ q = h
      BY <1>1, <1>3, <3>1
    <3>2. CASE u # t \/ q # h
      <4>1. peer[q].term >= u /\ u \in Nat
        BY <1>1, <2>3, <3>2, ConstantFacts DEF RaftInv, LeaderInv
      <4> QED
        BY <1>8, <4>1
    <3> QED
      BY <3>1, <3>2
  <2> QED
    BY <2>1, <2>2, <2>3 DEF LeaderInv
<1>12. VoteInv'
  BY <1>1, <1>9, SeenStable DEF RaftInv, VoteInv, Held
<1>13. SafeInv'
  <2> SUFFICES ASSUME NEW s \in Term, NEW u \in Term, NEW k \in 1..MaxLog,
                      OwnEntry(s, k)', s < u, Held(u)'
               PROVE  Agree(lead'[u].log, lead'[s].log, k) \/ NotChosen(s, k)'
    BY DEF SafeInv
  <2>1. OwnEntry(s, k) /\ Held(u)
    BY <1>1 DEF OwnEntry, Held
  <2> QED
    BY <1>1, <1>9, <2>1, NotChosenStable DEF RaftInv, SafeInv
<1>14. KeepInv'
  <2> SUFFICES ASSUME NEW u \in Term, NEW q \in Host, NEW k \in 1..MaxLog,
                      OwnEntry(u, k)', Has(u, q, k)'
               PROVE  Agree(peer'[q].log, lead'[u].log, k) \/ NotChosen(u, k)'
    BY DEF KeepInv
  <2>1. /\ OwnEntry(u, k) /\ k \in Nat /\ k > 0 /\ u \in Nat
        /\ lead[u].log \in Seq(Entry) /\ acked[u][q] \in Nat /\ Held(u)
    <3>1. OwnEntry(u, k) /\ k \in Nat /\ k > 0 /\ u \in Nat
      BY <1>1, ConstantFacts DEF OwnEntry
    <3>2. lead[u].log \in Seq(Entry) /\ acked[u][q] \in Nat
      BY LeadFields
    <3>3. lead[u].log # << >>
      BY <3>1, <3>2 DEF OwnEntry
    <3> QED
      BY <3>1, <3>2, <3>3 DEF Held
  <2>2. ASSUME Has(u, q, k)
        PROVE  Agree(peer[q].log, lead[u].log, k) \/ NotChosen(u, k)'
    BY <1>9, <2>1, <2>2, NotChosenStable DEF RaftInv, KeepInv
  <2>3. CASE q # h
    <3>1. Has(u, q, k)
      BY <1>1, <2>3 DEF Has
    <3> QED
      BY <1>1, <1>8, <2>2, <2>3, <3>1
  <2>4. CASE q = h /\ u = t
    <3>1. CASE k <= n
      <4>1. Agree(new, ll, k)
        BY <1>3, <1>5, <2>1, <3>1, AgreeFacts
      <4> QED
        BY <1>1, <1>2, <2>4, <4>1
    <3>2. CASE k > n
      <4>1. Has(u, q, k)
        BY <1>1, <1>3, <2>1, <2>4, <3>2 DEF Has
      <4>2. Agree(old, ll, k) => Agree(new, ll, k)
        BY <1>6, <2>1
      <4> QED
        BY <1>1, <1>2, <2>2, <2>4, <4>1, <4>2
    <3> QED
      BY <1>3, <2>1, <3>1, <3>2
  <2>5. CASE q = h /\ u # t
    <3>1. Has(u, q, k)
      BY <1>1, <2>5 DEF Has
    <3>2. peer[h].term >= u
      BY <2>1, <2>5, <3>1 DEF Has, RaftInv, LeaderInv
    <3>3. u < t
      BY <1>1, <1>3, <1>8, <2>1, <2>5, <3>2
    <3>4. Agree(ll, lead[u].log, k) \/ NotChosen(u, k)'
      BY <1>2, <1>3, <1>9, <2>1, <3>3, NotChosenStable DEF RaftInv, SafeInv
    <3>5. Agree(old, lead[u].log, k) \/ NotChosen(u, k)'
      BY <1>2, <2>2, <2>5, <3>1
    <3>6. Agree(new, lead[u].log, k) \/ NotChosen(u, k)'
      BY <1>7, <2>1, <3>4, <3>5
    <3> QED
      BY <1>1, <1>2, <2>5, <3>6
  <2> QED
    BY <2>3, <2>4, <2>5
<1>15. PICK d \in Nat : d = peer[h].committed
  BY PeerFields
<1>16. \A s \in Term, k \in 1..MaxLog :
          Chosen(s, k) /\ s <= t => Agree(ll, lead[s].log, k) /\ k \in Nat
  BY <1>2, <1>3, ChosenIsLed DEF RaftInv
<1>17. ASSUME NEW s \in Term, NEW k \in 1..MaxLog, s <= t, Chosen(s, k), d <= k,
              Agree(old, lead[s].log, d)
       PROVE  Agree(new, lead[s].log, d)
  <2>1. Agree(ll, lead[s].log, d) /\ lead[s].log \in Seq(Entry)
    BY <1>16, <1>17, LeadFields, AgreeFacts
  <2> QED
    BY <1>7, <1>17, <2>1
<1>18. d = 0 \/ \E s \in Term, k \in 1..MaxLog :
          s <= t /\ Chosen(s, k) /\ d <= k /\ Agree(old, lead[s].log, d)
  <2>1. ASSUME NEW s \in Term, s <= peer[h].term PROVE s <= t
    <3>1. s \in Nat /\ peer[h].term \in Nat /\ peer[h].term <= t
      BY <1>1, <1>8, ConstantFacts
    <3> QED
      BY <1>3, <2>1, <3>1
  <2> QED
    BY <1>2, <1>15, <2>1 DEF RaftInv, CommitInv, Settled
<1>19. Agree(new, old, d)
  <2>1. CASE d = 0
    BY <2>1 DEF Agree
  <2>2. CASE d # 0
    <3>1. PICK s \in Term, k \in 1..MaxLog :
            s <= t /\ Chosen(s, k) /\ d <= k /\ Agree(old, lead[s].log, d)
      BY <1>18, <2>2
    <3>2. Agree(new, lead[s].log, d) /\ lead[s].log \in Seq(Entry)
      BY <1>17, <3>1, LeadFields
    <3> QED
      BY <3>1, <3>2, AgreeFacts
  <2> QED
    BY <2>1, <2>2
<1>20. Settled(peer[h].log, peer[h].committed, peer[h].term)'
  <2>1. CASE c > d
    <3>1. peer'[h].committed = c /\ Settled(ll, lead[t].commit, t) /\ lead[t].commit \in Nat
      BY <1>1, <1>2, <1>15, <2>1, LeadFields DEF RaftInv, CommitInv
    <3>2. PICK s \in Term, k \in 1..MaxLog :
            /\ s <= t /\ Chosen(s, k) /\ lead[t].commit <= k
            /\ Agree(ll, lead[s].log, lead[t].commit)
      BY <1>1, <1>3, <2>1, <3>1 DEF Settled
    <3>3. Agree(new, ll, c) /\ k \in Nat /\ c <= k
      BY <1>1, <1>3, <1>5, <1>16, <3>1, <3>2, AgreeFacts
    <3>4. Agree(ll, lead[s].log, c) /\ lead[s].log \in Seq(Entry)
      <4>1. c \in Nat /\ c <= lead[t].commit /\ lead[t].commit \in Nat
        BY <1>1, <1>3, <3>1
      <4>2. lead[s].log \in Seq(Entry) /\ ll \in Seq(Entry)
        BY <1>3, <3>2, LeadFields
      <4> QED
        BY <3>2, <4>1, <4>2, AgreeFacts
    <3>5. Agree(new, lead[s].log, c) /\ Chosen(s, k)'
      BY <1>3, <1>9, <3>2, <3>3, <3>4, AgreeFacts, ChosenStable
    <3> QED
      BY <1>1, <1>2, <3>1, <3>2, <3>3, <3>5 DEF Settled
  <2>2. CASE ~(c > d)
    <3>1. peer'[h].committed = peer[h].committed
      BY <1>1, <1>15, <2>2
    <3> QED
      BY <1>2, <1>9, <1>15, <1>19, <3>1, HostSettledStable
  <2> QED
    BY <2>1, <2>2
<1>21. CommitInv'
  <2>1. ASSUME NEW q \in Host, q # h PROVE Settled(peer[q].log, peer[q].committed, peer[q].term)'
    <3>1. /\ peer'[q] = peer[q] /\ peer[q].log \in Seq(Entry) /\ peer[q].committed \in Nat
          /\ peer[q].committed <= Len(peer[q].log)
      BY <1>8, <2>1, PeerFields DEF ClusterBounds
    <3>2. Agree(peer'[q].log, peer[q].log, peer[q].committed)
      BY <3>1, AgreeFacts
    <3> QED
      BY <1>9, <3>1, <3>2, HostSettledStable
  <2>2. \A u \in Term : Settled(lead[u].log, lead[u].commit, u)'
    BY <1>1, <1>9, LeadSettledStable
  <2> QED
    BY <1>20, <2>1, <2>2 DEF CommitInv
<1> QED
  BY <1>2, <1>9, <1>10, <1>11, <1>12, <1>13, <1>14, <1>15, <1>19, <1>21 DEF RaftInv

-----------------------------------------------------------------------------
\* A log that is up to date with one that has an entry which may be chosen has
\* that entry as well.
LEMMA UpToDateHas ==
    ASSUME ClusterTypes, ClusterBounds, RaftInv,
           NEW m \in Seq(Entry), NEW x \in Seq(Entry), Tied(m), Rising(x), UpToDate(m, x),
           NEW t \in Term, NEW n \in 1..MaxLog, OwnEntry(t, n),
           Agree(x, lead[t].log, n), ~NotChosen(t, n)
    PROVE  Agree(m, lead[t].log, n)
<1>1. /\ lead[t].log \in Seq(Entry) /\ n \in Nat /\ n >= 1 /\ t \in Nat /\ t > 0
      /\ Len(x) \in Nat /\ Len(m) \in Nat
  BY LeadFields, ConstantFacts
<1>2. n \in 1..Len(x) /\ x[n].term = t /\ Len(x) >= n /\ Len(x) \in 1..Len(x)
  BY <1>1 DEF Agree, OwnEntry
<1>3. LastTerm(x) = x[Len(x)].term /\ LastTerm(x) >= t /\ LastTerm(x) \in Nat
  <2>1. x # << >> /\ x[Len(x)].term \in Nat
    BY <1>1, <1>2, EntryOf
  <2> QED
    BY <1>1, <1>2, <2>1 DEF LastTerm, Rising
<1>4. m # << >>
  <2> SUFFICES ASSUME m = << >> PROVE FALSE
    OBVIOUS
  <2>1. LastTerm(m) = 0
    BY DEF LastTerm
  <2> QED
    BY <1>1, <1>3, <2>1 DEF UpToDate
<1>5. Len(m) \in 1..Len(m)
  BY <1>1, <1>4
<1>6. PICK s \in Term : s = m[Len(m)].term
  BY <1>5, EntryOf
<1>7. /\ LastTerm(m) = s /\ s \in Nat /\ lead[s].log \in Seq(Entry)
      /\ Agree(m, lead[s].log, Len(m))
  BY <1>4, <1>5, <1>6, LeadFields, ConstantFacts DEF LastTerm, Tied
<1>8. s >= t
  BY <1>1, <1>3, <1>7 DEF UpToDate
<1>9. CASE s = t
  <2>1. Len(m) >= n
    BY <1>1, <1>2, <1>3, <1>7, <1>9 DEF UpToDate
  <2> QED
    BY <1>1, <1>7, <1>9, <2>1, AgreeFacts
<1>10. CASE s > t
  <2>1. Len(lead[s].log) \in Nat /\ Len(lead[s].log) >= Len(m) /\ lead[s].log[Len(m)].term = s
    BY <1>5, <1>6, <1>7 DEF Agree
  <2>2. Held(s)
    <3>1. lead[s].log # << >>
      BY <1>1, <1>5, <1>7, <2>1
    <3> QED
      BY <3>1 DEF Held
  <2>3. Agree(lead[s].log, lead[t].log, n)
    BY <1>10, <2>2 DEF RaftInv, SafeInv
  <2>4. n \in 1..Len(lead[s].log) /\ lead[s].log[n].term = t
    <3>1. Len(lead[s].log) >= n /\ n \in 1..n
      BY <1>1, <2>3 DEF Agree
    <3>2. lead[s].log[n] = lead[t].log[n]
      BY <2>3, <3>1 DEF Agree
    <3> QED
      BY <1>1, <2>1, <3>1, <3>2 DEF OwnEntry
  <2>5. Len(m) >= n
    <3> SUFFICES ASSUME Len(m) < n PROVE FALSE
      BY <1>1
    <3>1. Len(m) \in 1..Len(lead[s].log) /\ Len(m) <= n
      BY <1>1, <1>5, <2>1
    <3>2. s <= t
      BY <2>1, <2>4, <3>1 DEF RaftInv, LogInv, Rising
    <3> QED
      BY <1>1, <1>7, <1>10, <3>2
  <2>6. Agree(m, lead[s].log, n)
    BY <1>1, <1>7, <2>5, AgreeFacts
  <2> QED
    BY <1>1, <1>7, <2>3, <2>6, AgreeFacts
<1> QED
  BY <1>1, <1>7, <1>8, <1>9, <1>10

\* A majority elects the leader of u.  One of it has whatever may be chosen, and
\* the new leader's log is up to date with that host's.
LEMMA ElectedKeeps ==
    ASSUME ClusterTypes, ClusterBounds, ClusterTypes', RaftInv,
           NEW u \in Term, NEW Q \in SUBSET Host, Elected(u, Q)
    PROVE  /\ Grows /\ RaftInv'
           /\ \A q \in Host : Agree(peer'[q].log, peer[q].log, peer[q].committed)
<1>0. PICK h \in Host, m \in Seq(Entry), e \in Entry, l \in Seq(Entry) :
         Elects(u, Q, h, m, e, l)
  BY ElectedFacts
<1>1. /\ h = Leader[u] /\ m = peer[h].log /\ e.term = u /\ l = Append(m, e)
      /\ \A q \in Host : peer'[q].committed = peer[q].committed
      /\ \A q \in Q : peer'[q].term = u /\ peer[q].term < u
      /\ \A q \in Host \ Q : peer'[q] = peer[q]
      /\ peer'[h].isLeader /\ peer'[h].log = l
      /\ lead'[u].log = l /\ lead'[u].commit = peer[h].committed
      /\ \A v \in Term \ {u} : lead'[v] = lead[v]
      /\ acked' = acked /\ h \in Q /\ Quorum(Q) /\ Len(l) <= MaxLog
  BY <1>0 DEF Elects
<1>2. /\ \A q \in Host \ {h} : /\ peer'[q].log = peer[q].log
                               /\ peer'[q].isLeader => peer[q].isLeader /\ q \notin Q
      /\ \A q \in Q : UpToDate(m, peer[q].log)
  BY <1>0 DEF Elects
<1>3. /\ Len(m) \in Nat /\ Len(l) = Len(m) + 1 /\ l[Len(m) + 1] = e /\ u \in Nat
      /\ \A i \in 1..Len(m) : l[i] = m[i]
      /\ \A x \in Seq(Entry), k \in Nat : Agree(m, x, k) => Agree(l, x, k)
  <2>1. /\ Len(m) \in Nat /\ Len(l) = Len(m) + 1 /\ l[Len(m) + 1] = e
        /\ \A i \in 1..Len(m) : l[i] = m[i]
    BY <1>1, AppendFacts
  <2> QED
    BY <2>1, ConstantFacts DEF Agree
<1>4. \A q \in Host : /\ peer[q].term \in Nat /\ peer'[q].term \in Nat
                      /\ peer'[q].term >= peer[q].term
  <2>1. ASSUME NEW q \in Host PROVE peer[q].term \in Nat /\ peer'[q].term \in Nat
    BY PeerFields, NextFields
  <2> QED
    BY <1>1, <1>3, <2>1
<1>5. ASSUME NEW v \in Term, v >= u, Held(v) PROVE FALSE
  <2>1. PICK P \in SUBSET Host : Quorum(P) /\ \A q \in P : peer[q].term >= v
    BY <1>5 DEF RaftInv, VoteInv, Seen
  <2>2. PICK q \in Host : q \in P /\ q \in Q
    BY <1>1, <2>1, QuorumsMeet
  <2>3. v \in Nat
    BY ConstantFacts
  <2> QED
    BY <1>1, <1>3, <1>4, <1>5, <2>1, <2>2, <2>3
<1>6. lead[u].log = << >> /\ \A q \in Host : acked[u][q] = 0
  <2>1. lead[u].log = << >>
    BY <1>3, <1>5 DEF Held
  <2>2. ASSUME NEW q \in Host PROVE acked[u][q] \in Nat /\ acked[u][q] <= Len(lead[u].log)
    BY LeadFields DEF ClusterBounds
  <2> QED
    BY <2>1, <2>2
<1>7. Grows
  <2>1. ASSUME NEW v \in Term PROVE Agree(lead'[v].log, lead[v].log, Len(lead[v].log))
    <3>1. CASE v = u
      BY <1>1, <1>3, <1>6, <3>1 DEF Agree
    <3>2. CASE v # u
      BY <1>1, <3>2, LeadFields, AgreeFacts
    <3> QED
      BY <3>1, <3>2
  <2>2. \A v \in Term, q \in Host : acked'[v][q] >= acked[v][q]
    BY <1>1, LeadFields
  <2> QED
    BY <1>1, <1>4, <2>1, <2>2 DEF Grows
<1>8. /\ \A v \in Term : Held(v)' /\ v # u => Held(v) /\ v < u
      /\ \A v \in Term : \A k : OwnEntry(v, k)' /\ v # u => OwnEntry(v, k)
  <2>1. ASSUME NEW v \in Term, Held(v)', v # u PROVE Held(v) /\ v < u
    <3>1. Held(v) /\ v \in Nat
      BY <1>1, <2>1, ConstantFacts DEF Held
    <3> QED
      BY <1>3, <1>5, <2>1, <3>1
  <2> QED
    BY <1>1, <2>1 DEF OwnEntry
<1>9. LogInv'
  <2>1. /\ \A i \in 1..Len(l) : Agree(l, lead'[l[i].term].log, i)
        /\ Rising(l) /\ Within(l, u)
    <3>1. Tied(m) /\ Rising(m) /\ Within(m, peer[h].term)
      BY <1>1 DEF RaftInv, LogInv
    <3>2. Within(m, u)
      <4>1. ASSUME NEW i \in 1..Len(m) PROVE m[i].term <= u
        <5>1. m[i].term \in Nat /\ m[i].term <= peer[h].term
          BY <3>1, EntryOf DEF Within
        <5> QED
          BY <1>1, <1>3, <1>4, <5>1
      <4> QED
        BY <4>1 DEF Within
    <3>3. \A i \in 1..Len(l) : Agree(l, lead'[l[i].term].log, i)
      BY <1>1, <1>7, <3>1, TiedAppend
    <3>4. Rising(l) /\ Within(l, u)
      <4>1. e.term = u /\ l = Append(m, e)
        BY <1>1
      <4> QED
        BY <3>1, <3>2, <4>1, RisingAppend
    <3> QED
      BY <3>3, <3>4
  <2>2. ASSUME NEW q \in Host
        PROVE  Tied(peer[q].log)' /\ Rising(peer[q].log)' /\ Within(peer[q].log, peer[q].term)'
    <3>1. CASE q = h
      <4>1. peer'[q].log = l /\ peer'[q].term = u
        BY <1>1, <3>1
      <4> QED
        BY <2>1, <4>1 DEF Tied, Rising, Within
    <3>2. CASE q # h
      <4>1. /\ peer'[q].log = peer[q].log /\ peer[q].log \in Seq(Entry)
            /\ Tied(peer[q].log) /\ Rising(peer[q].log) /\ Within(peer[q].log, peer[q].term)
        BY <1>2, <3>2, PeerFields DEF RaftInv, LogInv
      <4>2. ASSUME NEW i \in 1..Len(peer[q].log) PROVE peer[q].log[i].term <= peer'[q].term
        <5>1. peer[q].log[i].term \in Nat /\ peer[q].log[i].term <= peer[q].term
          BY <4>1, EntryOf DEF Within
        <5> QED
          BY <1>4, <5>1
      <4>3. \A i \in 1..Len(peer[q].log) : Agree(peer[q].log, lead'[peer[q].log[i].term].log, i)
        BY <1>7, <4>1, TiedStable
      <4> QED
        BY <4>1, <4>2, <4>3 DEF Tied, Rising, Within
    <3> QED
      BY <3>1, <3>2
  <2>3. ASSUME NEW v \in Term
        PROVE  Tied(lead[v].log)' /\ Rising(lead[v].log)' /\ Within(lead[v].log, v)'
    <3>1. CASE v = u
      BY <1>1, <2>1, <3>1 DEF Tied, Rising, Within
    <3>2. CASE v # u
      <4>1. /\ lead'[v].log = lead[v].log /\ lead[v].log \in Seq(Entry)
            /\ Tied(lead[v].log) /\ Rising(lead[v].log) /\ Within(lead[v].log, v)
        BY <1>1, <3>2, LeadFields DEF RaftInv, LogInv
      <4> QED
        BY <1>7, <4>1, TiedStable DEF Tied, Rising, Within
    <3> QED
      BY <3>1, <3>2
  <2> QED
    BY <2>2, <2>3 DEF LogInv
<1>10. Held(u)'
  <2>1. l # << >>
    BY <1>3
  <2> QED
    BY <1>1, <2>1 DEF Held
<1>11. LeaderInv'
  <2>1. ASSUME NEW q \in Host, peer'[q].isLeader
        PROVE  peer'[q].term \in Term /\ Leader[peer'[q].term] = q /\ Held(peer[q].term)'
    <3>1. CASE q = h
      BY <1>1, <1>10, <3>1 DEF Held
    <3>2. CASE q # h
      <4>1. peer[q].isLeader /\ peer'[q] = peer[q]
        BY <1>1, <1>2, <2>1, <3>2
      <4>2. PICK v \in Term : v = peer[q].term /\ Leader[v] = q /\ Held(v)
        BY <4>1 DEF RaftInv, LeaderInv
      <4>3. v # u
        BY <1>3, <1>5, <4>2
      <4> QED
        BY <1>1, <4>1, <4>2, <4>3 DEF Held
    <3> QED
      BY <3>1, <3>2
  <2>2. ASSUME NEW v \in Term, Held(v)'
        PROVE  /\ peer'[Leader[v]].term >= v
               /\ peer'[Leader[v]].term = v => peer'[Leader[v]].log = lead'[v].log
    <3>1. CASE v = u
      <4>1. peer'[h].term = u /\ u >= u /\ peer'[h].log = lead'[u].log /\ h = Leader[u]
        BY <1>1, <1>3
      <4> QED
        BY <3>1, <4>1
    <3>2. CASE v # u
      <4>1. PICK g \in Host : g = Leader[v]
        BY ConstantFacts
      <4>2. /\ v < u /\ v \in Nat /\ peer[g].term >= v
            /\ peer[g].term = v => peer[g].log = lead[v].log
        BY <1>8, <2>2, <3>2, <4>1, ConstantFacts DEF RaftInv, LeaderInv
      <4>3. CASE g \in Q
        BY <1>1, <1>3, <4>1, <4>2, <4>3
      <4>4. CASE g \notin Q
        BY <1>1, <3>2, <4>1, <4>2, <4>4
      <4> QED
        BY <4>3, <4>4
    <3> QED
      BY <3>1, <3>2
  <2>3. ASSUME NEW v \in Term, NEW q \in Host, acked'[v][q] > 0 PROVE peer'[q].term >= v
    <3>1. peer[q].term >= v /\ v \in Nat
      BY <1>1, <2>3, ConstantFacts DEF RaftInv, LeaderInv
    <3> QED
      BY <1>4, <3>1
  <2> QED
    BY <2>1, <2>2, <2>3 DEF LeaderInv
<1>12. VoteInv'
  <2>1. Seen(u)'
    BY <1>1, <1>3 DEF Seen
  <2> QED
    BY <1>7, <1>8, <2>1, SeenStable DEF RaftInv, VoteInv
<1>13. ASSUME NEW t \in Term, NEW n \in 1..MaxLog, OwnEntry(t, n), t < u
       PROVE  Agree(l, lead[t].log, n) \/ NotChosen(t, n)'
  <2>1. CASE \E q \in Q : Has(t, q, n)
    <3>1. PICK q \in Q : Has(t, q, n)
      BY <2>1
    <3>2. CASE NotChosen(t, n)
      BY <1>7, <3>2, NotChosenStable
    <3>3. CASE ~NotChosen(t, n)
      <4>1. /\ Agree(peer[q].log, lead[t].log, n) /\ peer[q].log \in Seq(Entry)
            /\ Rising(peer[q].log) /\ Tied(m)
        BY <1>1, <1>13, <3>1, <3>3, PeerFields DEF RaftInv, KeepInv, LogInv
      <4>2. Agree(m, lead[t].log, n)
        BY <1>2, <1>13, <3>3, <4>1, UpToDateHas
      <4>3. lead[t].log \in Seq(Entry) /\ n \in Nat
        BY LeadFields, ConstantFacts
      <4> QED
        BY <1>3, <4>2, <4>3
    <3> QED
      BY <3>2, <3>3
  <2>2. CASE \A q \in Q : ~Has(t, q, n)
    <3>1. \A q \in Q : peer'[q].term > t /\ ~Has(t, q, n)'
      BY <1>1, <1>3, <1>13, <2>2, ConstantFacts DEF Has
    <3> QED
      BY <1>1, <3>1 DEF NotChosen
  <2> QED
    BY <2>1, <2>2
<1>14. SafeInv'
  <2> SUFFICES ASSUME NEW s \in Term, NEW v \in Term, NEW k \in 1..MaxLog,
                      OwnEntry(s, k)', s < v, Held(v)'
               PROVE  Agree(lead'[v].log, lead'[s].log, k) \/ NotChosen(s, k)'
    BY DEF SafeInv
  <2>1. s # u /\ OwnEntry(s, k)
    <3>1. s # u
      BY <1>3, <1>8, ConstantFacts
    <3> QED
      BY <1>8, <3>1
  <2>2. lead'[s].log = lead[s].log
    BY <1>1, <2>1
  <2>3. CASE v = u
    BY <1>1, <1>13, <2>1, <2>2, <2>3
  <2>4. CASE v # u
    <3>1. Held(v) /\ lead'[v].log = lead[v].log
      BY <1>1, <1>8, <2>4
    <3> QED
      BY <1>7, <2>1, <2>2, <3>1, NotChosenStable DEF RaftInv, SafeInv
  <2> QED
    BY <2>3, <2>4
<1>15. KeepInv'
  <2> SUFFICES ASSUME NEW v \in Term, NEW q \in Host, NEW k \in 1..MaxLog,
                      OwnEntry(v, k)', Has(v, q, k)'
               PROVE  Agree(peer'[q].log, lead'[v].log, k) \/ NotChosen(v, k)'
    BY DEF KeepInv
  <2>1. k \in Nat /\ k > 0
    BY ConstantFacts
  <2>2. CASE v = u
    <3>1. q = h
      BY <1>1, <1>6, <2>1, <2>2 DEF Has
    <3>2. Len(l) >= k
      BY <1>1, <1>3, <2>1, <2>2 DEF OwnEntry
    <3>3. Agree(l, l, k)
      BY <1>3, <2>1, <3>2, AgreeFacts
    <3> QED
      BY <1>1, <2>2, <3>1, <3>3
  <2>3. CASE v # u
    <3>1. /\ OwnEntry(v, k) /\ Has(v, q, k) /\ lead'[v].log = lead[v].log
          /\ lead[v].log \in Seq(Entry)
      BY <1>1, <1>8, <2>3, LeadFields DEF Has
    <3>2. Agree(peer[q].log, lead[v].log, k) \/ NotChosen(v, k)'
      BY <1>7, <3>1, NotChosenStable DEF RaftInv, KeepInv
    <3>3. CASE q = h
      <4>1. Agree(m, lead[v].log, k) => Agree(l, lead[v].log, k)
        BY <1>3, <2>1, <3>1
      <4> QED
        BY <1>1, <3>1, <3>2, <3>3, <4>1
    <3>4. CASE q # h
      BY <1>2, <3>1, <3>2, <3>4
    <3> QED
      BY <3>3, <3>4
  <2> QED
    BY <2>2, <2>3
<1>16. ASSUME NEW q \in Host PROVE Agree(peer'[q].log, peer[q].log, peer[q].committed)
  <2>1. /\ peer[q].committed \in Nat /\ peer[q].log \in Seq(Entry)
        /\ peer[q].committed <= Len(peer[q].log)
    BY PeerFields DEF ClusterBounds
  <2>2. Agree(peer[q].log, peer[q].log, peer[q].committed)
    BY <2>1, AgreeFacts
  <2>3. CASE q = h
    <3>1. peer'[q].log = l /\ peer[q].log = m
      BY <1>1, <2>3
    <3>2. Agree(m, m, peer[q].committed) => Agree(l, m, peer[q].committed)
      BY <1>3, <2>1
    <3> QED
      BY <2>2, <3>1, <3>2
  <2>4. CASE q # h
    BY <1>2, <2>2, <2>4
  <2> QED
    BY <2>3, <2>4
<1>17. CommitInv'
  <2>1. ASSUME NEW q \in Host PROVE Settled(peer[q].log, peer[q].committed, peer[q].term)'
    BY <1>1, <1>7, <1>16, HostSettledStable
  <2>2. Settled(lead[u].log, lead[u].commit, u)'
    <3>1. Settled(peer[h].log, peer[h].committed, peer[h].term)'
      BY <2>1
    <3>2. /\ peer'[h].log = lead'[u].log /\ peer'[h].committed = lead'[u].commit
          /\ peer'[h].term = u
      BY <1>1
    <3> QED
      BY <3>1, <3>2 DEF Settled
  <2>3. ASSUME NEW v \in Term, v # u PROVE Settled(lead[v].log, lead[v].commit, v)'
    <3>1. lead'[v].commit = lead[v].commit
      BY <1>1, <2>3
    <3> QED
      BY <1>7, <3>1, LeadSettledStable
  <2> QED
    BY <2>1, <2>2, <2>3 DEF CommitInv
<1> QED
  BY <1>7, <1>9, <1>11, <1>12, <1>14, <1>15, <1>16, <1>17 DEF RaftInv

-----------------------------------------------------------------------------
\* Every host keeps what it has committed; no log outgrows the bound, and nobody
\* acknowledges what the leader does not have.
Kept ==
    \A q \in Host : /\ peer'[q].committed >= peer[q].committed
                    /\ Agree(peer'[q].log, peer[q].log, peer[q].committed)
Sizes ==
    /\ \A q \in Host : Len(peer'[q].log) <= MaxLog
    /\ \A t \in Term : /\ Len(lead'[t].log) <= MaxLog
                       /\ \A q \in Host : acked'[t][q] <= Len(lead'[t].log)

LEMMA QuietKept ==
    ASSUME ClusterTypes, ClusterBounds, Quiet
    PROVE  Kept /\ Sizes
<1>1. ASSUME NEW q \in Host
      PROVE  /\ peer'[q].committed >= peer[q].committed
             /\ Agree(peer'[q].log, peer[q].log, peer[q].committed)
             /\ Len(peer'[q].log) <= MaxLog
  <2>1. /\ peer'[q].committed = peer[q].committed /\ peer'[q].log = peer[q].log
        /\ peer[q].committed \in Nat /\ peer[q].log \in Seq(Entry)
        /\ peer[q].committed <= Len(peer[q].log) /\ Len(peer[q].log) <= MaxLog
    BY PeerFields DEF Quiet, Still, ClusterBounds
  <2>2. Agree(peer[q].log, peer[q].log, peer[q].committed)
    BY <2>1, AgreeFacts
  <2> QED
    BY <2>1, <2>2
<1> QED
  BY <1>1 DEF Kept, Sizes, Quiet, Still, ClusterBounds

\* The logs of leaders grow, so acknowledgements stay within them.
LEMMA AckedWithin ==
    ASSUME ClusterTypes, ClusterTypes', ClusterBounds, Grows, acked' = acked,
           NEW t \in Term, NEW q \in Host
    PROVE  acked'[t][q] <= Len(lead'[t].log)
<1>1. /\ acked[t][q] \in Nat /\ acked[t][q] <= Len(lead[t].log)
      /\ Len(lead[t].log) \in Nat
      /\ Agree(lead'[t].log, lead[t].log, Len(lead[t].log))
  BY LeadFields DEF ClusterBounds, Grows
<1>2. Len(lead'[t].log) \in Nat /\ Len(lead'[t].log) >= Len(lead[t].log)
  BY <1>1 DEF Agree, ClusterTypes
<1> QED
  BY <1>1, <1>2

LEMMA RaftStep ==
    ASSUME ClusterTypes, ClusterBounds, ClusterTypes', RaftInv, [Next]_vars
    PROVE  Grows /\ RaftInv' /\ Kept /\ Sizes
<1>0. ASSUME Quiet PROVE Grows /\ RaftInv' /\ Kept /\ Sizes
  BY <1>0, QuietKeeps, QuietKept
<1>a. ASSUME NEW q \in Host
      PROVE  /\ peer[q].term \in Nat /\ peer[q].committed \in Nat
             /\ peer[q].term >= peer[q].term /\ peer[q].committed >= peer[q].committed
             /\ Agree(peer[q].log, peer[q].log, peer[q].committed)
             /\ Len(peer[q].log) <= MaxLog
  <2>1. /\ peer[q].term \in Nat /\ peer[q].committed \in Nat /\ peer[q].log \in Seq(Entry)
        /\ peer[q].committed <= Len(peer[q].log) /\ Len(peer[q].log) <= MaxLog
    BY PeerFields DEF ClusterBounds
  <2> QED
    BY <2>1, AgreeFacts
<1>1. ASSUME NEW r \in Request, KvOpCb(r) PROVE Grows /\ RaftInv' /\ Kept /\ Sizes
  <2>1. CASE ~peer[Home[r]].isLeader
    <3>1. peer' = peer /\ lead' = lead /\ acked' = acked
      BY <1>1, <2>1, RejectFacts
    <3>2. Quiet
      BY <1>a, <3>1 DEF Quiet, Still
    <3> QED
      BY <1>0, <3>2
  <2>2. CASE peer[Home[r]].isLeader
    <3>1. Grows /\ RaftInv'
      BY <1>1, <2>2, ProposeKeeps
    <3>2. PICK h \in Host, t \in Term, m \in Seq(Entry), e \in Entry, l \in Seq(Entry) :
            Proposes(r, h, t, m, e, l)
      BY <1>1, <2>2, ProposeFacts DEF RaftInv
    <3>3. /\ Only(h) /\ m = peer[h].log /\ peer'[h].log = l /\ l = Append(m, e)
          /\ peer'[h].committed = peer[h].committed /\ Len(m) < MaxLog
          /\ lead'[t].log = l /\ \A u \in Term \ {t} : lead'[u] = lead[u]
          /\ acked' = acked
      BY <3>2 DEF Proposes
    <3>4. Len(l) = Len(m) + 1 /\ Len(m) \in Nat /\ \A i \in 1..Len(m) : l[i] = m[i]
      BY <3>3, AppendFacts
    <3>5. Len(l) <= MaxLog
      BY <3>3, <3>4, ConstantFacts
    <3>6. Kept
      <4>1. Agree(l, m, peer[h].committed)
        <5>1. Agree(m, m, peer[h].committed) /\ peer[h].committed \in Nat
          BY <1>a, <3>3
        <5> QED
          BY <3>4, <5>1 DEF Agree
      <4> QED
        BY <1>a, <3>3, <4>1 DEF Kept, Only
    <3>7. Sizes
      <4>1. \A q \in Host : Len(peer'[q].log) <= MaxLog
        BY <1>a, <3>3, <3>5 DEF Only
      <4>2. \A u \in Term : Len(lead'[u].log) <= MaxLog
        BY <3>3, <3>5 DEF ClusterBounds
      <4> QED
        BY <3>1, <3>3, <4>1, <4>2, AckedWithin DEF Sizes
    <3> QED
      BY <3>1, <3>6, <3>7
  <2> QED
    BY <2>1, <2>2
<1>2. ASSUME NEW t \in Term, NEW Q \in SUBSET Host, Elected(t, Q)
      PROVE  Grows /\ RaftInv' /\ Kept /\ Sizes
  <2>1. Grows /\ RaftInv' /\ \A q \in Host : Agree(peer'[q].log, peer[q].log, peer[q].committed)
    BY <1>2, ElectedKeeps
  <2>2. PICK h \in Host, m \in Seq(Entry), e \in Entry, l \in Seq(Entry) :
          Elects(t, Q, h, m, e, l)
    BY <1>2, ElectedFacts
  <2>3. /\ \A q \in Host : peer'[q].committed = peer[q].committed
        /\ \A q \in Host \ {h} : peer'[q].log = peer[q].log
        /\ peer'[h].log = l /\ lead'[t].log = l /\ Len(l) <= MaxLog
        /\ \A u \in Term \ {t} : lead'[u] = lead[u]
        /\ acked' = acked
    BY <2>2 DEF Elects
  <2>4. Kept
    BY <1>a, <2>1, <2>3 DEF Kept
  <2>5. /\ \A q \in Host : Len(peer'[q].log) <= MaxLog
        /\ \A u \in Term : Len(lead'[u].log) <= MaxLog
    BY <1>a, <2>3 DEF ClusterBounds
  <2> QED
    BY <2>1, <2>3, <2>4, <2>5, AckedWithin DEF Sizes
<1>3. ASSUME NEW h \in Host, NEW t \in Term, NewTerm(h, t)
      PROVE  Grows /\ RaftInv' /\ Kept /\ Sizes
  <2>1. /\ Only(h) /\ ~peer'[h].isLeader /\ peer'[h].term = t /\ peer[h].term < t
        /\ peer'[h].committed = peer[h].committed /\ peer'[h].log = peer[h].log
        /\ lead' = lead /\ acked' = acked
    BY <1>3, NewTermFacts
  <2>2. peer'[h].term >= peer[h].term
    BY <1>a, <2>1, ConstantFacts
  <2>3. Quiet
    BY <1>a, <2>1, <2>2 DEF Quiet, Still, Only
  <2> QED
    BY <1>0, <2>3
<1>4. ASSUME NEW h \in Host, NEW t \in Term, NEW n \in 0..MaxLog, NEW c \in 0..MaxLog,
             Deliver(h, t, n, c)
      PROVE  Grows /\ RaftInv' /\ Kept /\ Sizes
  <2>1. Grows /\ RaftInv' /\ Agree(peer'[h].log, peer[h].log, peer[h].committed)
    BY <1>4, DeliverKeeps
  <2>2. Delivers(h, t, n, c)
    BY <1>4, DeliverFacts
  <2>3. /\ Only(h) /\ lead' = lead
        /\ peer'[h].committed = IF c > peer[h].committed THEN c ELSE peer[h].committed
        /\ peer'[h].log = peer[h].log \/ Len(peer'[h].log) = n
        /\ acked'[t][h] = IF n > acked[t][h] THEN n ELSE acked[t][h]
        /\ \A u \in Term, q \in Host : (u # t \/ q # h) => acked'[u][q] = acked[u][q]
        /\ n \in 1..Len(lead[t].log)
    BY <2>2 DEF Delivers
  <2>4. n \in Nat /\ c \in Nat /\ n <= MaxLog /\ n <= Len(lead[t].log)
    BY <2>3, ConstantFacts
  <2>5. Kept
    <3>1. peer'[h].committed >= peer[h].committed
      BY <1>a, <2>3, <2>4
    <3> QED
      BY <1>a, <2>1, <2>3, <3>1 DEF Kept, Only
  <2>6. Sizes
    <3>1. \A q \in Host : Len(peer'[q].log) <= MaxLog
      BY <1>a, <2>3, <2>4 DEF Only
    <3>2. ASSUME NEW u \in Term, NEW q \in Host PROVE acked'[u][q] <= Len(lead[u].log)
      <4>1. acked[u][q] <= Len(lead[u].log)
        BY DEF ClusterBounds
      <4>2. CASE u = t /\ q = h
        BY <2>3, <2>4, <4>1, <4>2
      <4>3. CASE u # t \/ q # h
        BY <2>3, <4>1, <4>3
      <4> QED
        BY <4>2, <4>3
    <3> QED
      BY <2>3, <3>1, <3>2 DEF Sizes, ClusterBounds
  <2> QED
    BY <2>1, <2>5, <2>6
<1>5. ASSUME NEW h \in Host, NEW n \in 1..MaxLog, Commit(h, n)
      PROVE  Grows /\ RaftInv' /\ Kept /\ Sizes
  <2>1. Grows /\ RaftInv'
    BY <1>5, CommitKeeps
  <2>2. PICK t \in Term : Commits(h, n, t)
    BY <1>5, CommitFacts DEF RaftInv
  <2>3. /\ Only(h) /\ peer'[h].committed = n /\ peer'[h].log = peer[h].log
        /\ lead'[t].log = lead[t].log /\ \A u \in Term \ {t} : lead'[u] = lead[u]
        /\ n \in (peer[h].committed + 1)..Len(peer[h].log)
        /\ acked' = acked
    BY <2>2 DEF Commits
  <2>4. Kept
    <3>1. n \in Nat /\ n >= peer[h].committed
      BY <1>a, <2>3, ConstantFacts
    <3> QED
      BY <1>a, <2>3, <3>1 DEF Kept, Only
  <2>5. /\ \A q \in Host : Len(peer'[q].log) <= MaxLog
        /\ \A u \in Term : Len(lead'[u].log) <= MaxLog
    BY <1>a, <2>3 DEF ClusterBounds, Only
  <2> QED
    BY <2>1, <2>3, <2>4, <2>5, AckedWithin DEF Sizes
<1>6. ASSUME NEW h \in Host, Only(h), RaftSame(h), peer'[h].isLeader => peer[h].isLeader,
             lead' = lead, acked' = acked
      PROVE  Quiet
  BY <1>a, <1>6 DEF Quiet, Still, Only, RaftSame
<1>7. ASSUME NEW h \in Host, Tick(h) PROVE Grows /\ RaftInv' /\ Kept /\ Sizes
  BY <1>0, <1>6, <1>7, TickFacts
<1>8. ASSUME NEW h \in Host, ProcessEntry(h) PROVE Grows /\ RaftInv' /\ Kept /\ Sizes
  <2>1. /\ Only(h) /\ RaftSame(h) /\ peer'[h].isLeader = peer[h].isLeader
        /\ lead' = lead /\ acked' = acked
    BY <1>8, ProcessFacts
  <2> QED
    BY <1>0, <1>6, <2>1
<1>9. ASSUME NEW h \in Host, Advance(h) PROVE Grows /\ RaftInv' /\ Kept /\ Sizes
  <2>1. /\ Only(h) /\ RaftSame(h) /\ peer'[h].isLeader = peer[h].isLeader
        /\ lead' = lead /\ acked' = acked
    BY <1>9, AdvanceFacts
  <2> QED
    BY <1>0, <1>6, <2>1
<1>10. CASE UNCHANGED vars
  <2>1. peer' = peer /\ lead' = lead /\ acked' = acked
    BY <1>10 DEF vars
  <2>2. Quiet
    BY <1>a, <2>1 DEF Quiet, Still
  <2> QED
    BY <1>0, <2>2
<1> QED
  BY <1>1, <1>2, <1>3, <1>4, <1>5, <1>7, <1>8, <1>9, <1>10 DEF Next

-----------------------------------------------------------------------------
(***************************************************************************)
(* Execution.                                                              *)
(***************************************************************************)
\* A prefix leaves one value.
LEMMA ValueUnique ==
    ASSUME NEW h, NEW n \in Nat, NEW k, NEW v, NEW w,
           ValueAfter(h, n, k, v), ValueAfter(h, n, k, w)
    PROVE  v = w
<1>1. CASE \A i \in 1..n : ~Sets(h[i], k)
  BY <1>1 DEF ValueAfter
<1>2. ASSUME NEW i \in 1..n, Sets(h[i], k) PROVE v = w
  <2>1. PICK a \in 1..n :
          /\ Sets(h[a], k) /\ \A j \in (a + 1)..n : ~Sets(h[j], k)
          /\ v = IF Cmd[h[a]].type = "kPut" THEN Cmd[h[a]].val ELSE NoVal
    BY <1>2 DEF ValueAfter
  <2>2. PICK b \in 1..n :
          /\ Sets(h[b], k) /\ \A j \in (b + 1)..n : ~Sets(h[j], k)
          /\ w = IF Cmd[h[b]].type = "kPut" THEN Cmd[h[b]].val ELSE NoVal
    BY <1>2 DEF ValueAfter
  <2>3. ~(a < b) /\ ~(b < a)
    <3>1. a < b => b \in (a + 1)..n
      OBVIOUS
    <3>2. b < a => a \in (b + 1)..n
      OBVIOUS
    <3> QED
      BY <2>1, <2>2, <3>1, <3>2
  <2>4. a = b
    BY <2>3
  <2> QED
    BY <2>1, <2>2, <2>4
<1> QED
  BY <1>1, <1>2

\* A prefix's value depends on the prefix only.
LEMMA ValueOfPrefix ==
    ASSUME NEW h, NEW g, NEW n \in Nat, NEW k, NEW v,
           \A i \in 1..n : h[i] = g[i], ValueAfter(h, n, k, v)
    PROVE  ValueAfter(g, n, k, v)
<1>1. CASE v = NoVal /\ \A i \in 1..n : ~Sets(h[i], k)
  BY <1>1 DEF ValueAfter
<1>2. ASSUME NEW i \in 1..n, Sets(h[i], k), \A j \in (i + 1)..n : ~Sets(h[j], k),
             v = IF Cmd[h[i]].type = "kPut" THEN Cmd[h[i]].val ELSE NoVal
      PROVE  ValueAfter(g, n, k, v)
  <2>1. \A j \in (i + 1)..n : j \in 1..n
    OBVIOUS
  <2> QED
    BY <1>2, <2>1 DEF ValueAfter
<1> QED
  BY <1>1, <1>2 DEF ValueAfter

\* An entry that does not write k leaves its value alone.
LEMMA ValueUnchanged ==
    ASSUME NEW h, NEW n \in Nat, NEW k, NEW v, ValueAfter(h, n, k, v),
           ~Sets(h[n + 1], k)
    PROVE  ValueAfter(h, n + 1, k, v)
<1>1. \A i \in 1..(n + 1) : i \in 1..n \/ i = n + 1
  OBVIOUS
<1>2. CASE v = NoVal /\ \A i \in 1..n : ~Sets(h[i], k)
  BY <1>1, <1>2 DEF ValueAfter
<1>3. ASSUME NEW i \in 1..n, Sets(h[i], k), \A j \in (i + 1)..n : ~Sets(h[j], k),
             v = IF Cmd[h[i]].type = "kPut" THEN Cmd[h[i]].val ELSE NoVal
      PROVE  ValueAfter(h, n + 1, k, v)
  <2>1. \A j \in (i + 1)..(n + 1) : j \in (i + 1)..n \/ j = n + 1
    OBVIOUS
  <2>2. i \in 1..(n + 1)
    OBVIOUS
  <2> QED
    BY <1>3, <2>1, <2>2 DEF ValueAfter
<1> QED
  BY <1>2, <1>3 DEF ValueAfter

\* An entry that writes k determines its value.
LEMMA ValueWritten ==
    ASSUME NEW h, NEW n \in Nat, NEW k \in Key, NEW db \in Db,
           Sets(h[n + 1], k), h[n + 1] \in Request
    PROVE  ValueAfter(h, n + 1, k, Apply(db, Cmd[h[n + 1]])[k])
<1>1. Cmd[h[n + 1]] \in Command
  BY CmdAssumption
<1>2. /\ Cmd[h[n + 1]].type \in {"kPut", "kDel"} /\ Cmd[h[n + 1]].key = k
  BY DEF Sets
<1>3. Apply(db, Cmd[h[n + 1]])[k]
        = IF Cmd[h[n + 1]].type = "kPut" THEN Cmd[h[n + 1]].val ELSE NoVal
  BY <1>1, <1>2 DEF Apply, Db
<1>4. n + 1 \in 1..(n + 1) /\ \A j \in ((n + 1) + 1)..(n + 1) : FALSE
  OBVIOUS
<1> QED
  BY <1>3, <1>4 DEF ValueAfter

\* A command leaves the keys it does not write alone.
LEMMA ApplyElsewhere ==
    ASSUME NEW d \in Request, NEW db \in Db, NEW k \in Key, ~Sets(d, k)
    PROVE  Apply(db, Cmd[d])[k] = db[k]
<1>1. Cmd[d] \in Command
  BY CmdAssumption
<1>2. Cmd[d].type \notin {"kPut", "kDel"} \/ Cmd[d].key # k
  BY ConstantFacts DEF Sets
<1> QED
  BY <1>1, <1>2 DEF Apply, Db, Command, CmdType

-----------------------------------------------------------------------------
\* Nobody executes anything.
Idle ==
    \A q \in Host : /\ peer'[q].cur = peer[q].cur /\ peer'[q].applied = peer[q].applied
                    /\ peer'[q].kv_db = peer[q].kv_db

LEMMA ExecSplit ==
    ASSUME ClusterTypes, ClusterBounds, LeaderInv, [Next]_vars
    PROVE  Idle \/ \E h \in Host : ProcessEntry(h) \/ Advance(h)
<1>1. ASSUME NEW r \in Request, KvOpCb(r) PROVE Idle
  <2>1. CASE ~peer[Home[r]].isLeader
    BY <1>1, <2>1, RejectFacts DEF Idle
  <2>2. CASE peer[Home[r]].isLeader
    <3>1. PICK h \in Host, t \in Term, m \in Seq(Entry), e \in Entry, l \in Seq(Entry) :
            Proposes(r, h, t, m, e, l)
      BY <1>1, <2>2, ProposeFacts
    <3>2. Only(h) /\ KvSame(h)
      BY <3>1 DEF Proposes
    <3> QED
      BY <3>2 DEF Only, KvSame, Idle
  <2> QED
    BY <2>1, <2>2
<1>2. ASSUME NEW t \in Term, NEW Q \in SUBSET Host, Elected(t, Q) PROVE Idle
  <2>1. PICK h \in Host, m \in Seq(Entry), e \in Entry, l \in Seq(Entry) :
          Elects(t, Q, h, m, e, l)
    BY <1>2, ElectedFacts
  <2>2. \A q \in Host : KvSame(q)
    BY <2>1 DEF Elects
  <2> QED
    BY <2>2 DEF KvSame, Idle
<1>3. ASSUME NEW h \in Host, NEW t \in Term, NewTerm(h, t) PROVE Idle
  BY <1>3, NewTermFacts DEF Only, KvSame, Idle
<1>4. ASSUME NEW h \in Host, NEW t \in Term, NEW n \in 0..MaxLog, NEW c \in 0..MaxLog,
             Deliver(h, t, n, c)
      PROVE  Idle
  <2>1. Only(h) /\ KvSame(h)
    BY <1>4, DeliverFacts DEF Delivers
  <2> QED
    BY <2>1 DEF Only, KvSame, Idle
<1>5. ASSUME NEW h \in Host, NEW n \in 1..MaxLog, Commit(h, n) PROVE Idle
  <2>1. Only(h) /\ KvSame(h)
    BY <1>5, CommitFacts DEF Commits
  <2> QED
    BY <2>1 DEF Only, KvSame, Idle
<1>6. ASSUME NEW h \in Host, Tick(h) PROVE Idle
  BY <1>6, TickFacts DEF Only, Idle
<1>7. CASE UNCHANGED vars
  BY <1>7 DEF vars, Idle
<1> QED
  BY <1>1, <1>2, <1>3, <1>4, <1>5, <1>6, <1>7 DEF Next

LEMMA BoundsStep ==
    ASSUME ClusterTypes, ClusterBounds, ClusterTypes', RaftInv, [Next]_vars
    PROVE  ClusterBounds'
<1>1. RaftInv' /\ Kept /\ Sizes
  BY RaftStep
<1>2. ASSUME NEW q \in Host
      PROVE  /\ peer'[q].applied <= peer'[q].cur /\ peer'[q].cur <= peer'[q].committed
             /\ peer'[q].committed <= Len(peer'[q].log)
  <2>1. /\ peer[q].applied \in Nat /\ peer[q].cur \in Nat /\ peer[q].committed \in Nat
        /\ peer'[q].committed \in Nat /\ peer'[q].committed >= peer[q].committed
        /\ peer[q].applied <= peer[q].cur /\ peer[q].cur <= peer[q].committed
        /\ Len(peer'[q].log) \in Nat
    BY <1>1, PeerFields, NextFields DEF Kept, ClusterBounds
  <2>2. peer'[q].committed <= Len(peer'[q].log)
    BY <1>1, <2>1 DEF RaftInv, CommitInv, Settled, Agree
  <2>3. peer'[q].applied <= peer'[q].cur /\ peer'[q].cur <= peer'[q].committed
    <3>1. CASE Idle
      BY <2>1, <3>1 DEF Idle
    <3>2. ASSUME NEW h \in Host, ProcessEntry(h)
          PROVE  peer'[q].applied <= peer'[q].cur /\ peer'[q].cur <= peer'[q].committed
      <4>1. /\ Only(h) /\ RaftSame(h) /\ peer'[h].applied = peer[h].applied
            /\ peer[h].cur < peer[h].committed
            /\ peer'[h].cur = peer[h].cur \/ peer'[h].cur = peer[h].cur + 1
        BY <3>2, ProcessFacts
      <4> QED
        BY <2>1, <4>1 DEF Only, RaftSame
    <3>3. ASSUME NEW h \in Host, Advance(h)
          PROVE  peer'[q].applied <= peer'[q].cur /\ peer'[q].cur <= peer'[q].committed
      <4>1. /\ Only(h) /\ peer'[h].applied = peer[h].cur /\ peer'[h].cur = peer[h].cur
        BY <3>3, AdvanceFacts
      <4> QED
        BY <2>1, <4>1 DEF Only
    <3> QED
      BY <3>1, <3>2, <3>3, ExecSplit DEF RaftInv
  <2> QED
    BY <2>2, <2>3
<1>3. ASSUME NEW t \in Term PROVE lead'[t].commit <= Len(lead'[t].log)
  <2>1. lead'[t].commit \in Nat /\ Len(lead'[t].log) \in Nat
    BY DEF ClusterTypes
  <2> QED
    BY <1>1, <2>1 DEF RaftInv, CommitInv, Settled, Agree
<1> QED
  BY <1>1, <1>2, <1>3 DEF ClusterBounds, Sizes

\* What was executed stays in the log, so the database stays its outcome.
LEMMA DbStep ==
    ASSUME ClusterTypes, ClusterBounds, ClusterTypes', RaftInv, DbInv, [Next]_vars
    PROVE  DbInv'
<1>1. Kept
  BY RaftStep
<1> SUFFICES ASSUME NEW q \in Host, NEW k \in Key
             PROVE  ValueAfter(Data(peer'[q].log), peer'[q].cur, k, peer'[q].kv_db[k])
  BY DEF DbInv
<1>2. PICK old \in Seq(Entry), new \in Seq(Entry), n \in Nat, db \in Db :
        old = peer[q].log /\ new = peer'[q].log /\ n = peer[q].cur /\ db = peer[q].kv_db
  <2>1. /\ peer[q].log \in Seq(Entry) /\ peer'[q].log \in Seq(Entry)
        /\ peer[q].cur \in Nat /\ peer[q].kv_db \in Db
    BY PeerFields, NextFields
  <2> QED
    BY <2>1
<1>3. ValueAfter(Data(old), n, k, db[k])
  BY <1>2 DEF DbInv
<1>4. Agree(new, old, n)
  <2>1. /\ peer[q].committed \in Nat /\ n <= peer[q].committed
        /\ Agree(new, old, peer[q].committed)
    BY <1>1, <1>2, PeerFields DEF Kept, ClusterBounds
  <2> QED
    BY <2>1, AgreeFacts
<1>5. ValueAfter(Data(new), n, k, db[k])
  <2>1. \A i \in 1..n : Data(old)[i] = Data(new)[i]
    BY <1>4 DEF Data, Agree
  <2> QED
    BY <1>3, <2>1, ValueOfPrefix
<1>6. CASE peer'[q].cur = peer[q].cur /\ peer'[q].kv_db = peer[q].kv_db
  BY <1>2, <1>5, <1>6
<1>7. ASSUME ProcessEntry(q), ~(peer'[q].cur = peer[q].cur /\ peer'[q].kv_db = peer[q].kv_db)
      PROVE  ValueAfter(Data(peer'[q].log), peer'[q].cur, k, peer'[q].kv_db[k])
  <2>1. /\ RaftSame(q) /\ n + 1 \in 1..Len(old) /\ old[n + 1] \in Entry
        /\ peer'[q].cur = n + 1
        /\ \/ Skips(old[n + 1].data) /\ peer'[q].kv_db = db
           \/ /\ old[n + 1].data \in Request
              /\ peer'[q].kv_db = Apply(db, Cmd[old[n + 1].data])
    BY <1>2, <1>7, ProcessFacts
  <2>2. new = old
    BY <1>2, <2>1 DEF RaftSame
  <2>3. PICK d : d = old[n + 1].data /\ Data(new)[n + 1] = d
    BY <2>1, <2>2 DEF Data
  <2>4. ValueAfter(Data(new), n + 1, k, peer'[q].kv_db[k])
    <3>1. CASE Skips(d) /\ peer'[q].kv_db = db
      <4>0. d \in Request \cup {NoOp}
        BY <2>1, <2>3 DEF Entry
      <4>1. ~Sets(d, k)
        BY <3>1, <4>0, SkipsFacts
      <4> QED
        BY <1>5, <2>3, <3>1, <4>1, ValueUnchanged
    <3>2. CASE d \in Request /\ peer'[q].kv_db = Apply(db, Cmd[d])
      <4>1. CASE Sets(d, k)
        BY <2>3, <3>2, <4>1, ValueWritten
      <4>2. CASE ~Sets(d, k)
        <5>1. peer'[q].kv_db[k] = db[k]
          BY <3>2, <4>2, ApplyElsewhere
        <5> QED
          BY <1>5, <2>3, <4>2, <5>1, ValueUnchanged
      <4> QED
        BY <4>1, <4>2
    <3> QED
      BY <2>1, <2>3, <3>1, <3>2
  <2> QED
    BY <1>2, <2>1, <2>4
<1>8. \/ peer'[q].cur = peer[q].cur /\ peer'[q].kv_db = peer[q].kv_db
      \/ ProcessEntry(q)
  <2>1. ASSUME NEW h \in Host, ProcessEntry(h), h # q PROVE peer'[q] = peer[q]
    <3>1. Only(h)
      BY <2>1, ProcessFacts
    <3> QED
      BY <2>1, <3>1 DEF Only
  <2>2. ASSUME NEW h \in Host, Advance(h)
        PROVE  peer'[q].cur = peer[q].cur /\ peer'[q].kv_db = peer[q].kv_db
    BY <2>2, AdvanceFacts DEF Only
  <2> QED
    BY <2>1, <2>2, ExecSplit DEF Idle, RaftInv
<1> QED
  BY <1>6, <1>7, <1>8

-----------------------------------------------------------------------------
LEMMA ClusterInit == Init => ClusterInv
<1> SUFFICES ASSUME Init PROVE ClusterInv
  OBVIOUS
<1>1. EmptyDb \in Db /\ 0 \in Nat /\ 0 \in 0..MaxTerm /\ 0 <= MaxLog
  BY ConstantFacts DEF EmptyDb, Db
<1>2. \A h \in Host : /\ peer[h] \in PeerState /\ peer[h].log = << >> /\ ~peer[h].isLeader
                      /\ peer[h].term = 0 /\ peer[h].committed = 0 /\ peer[h].cur = 0
                      /\ peer[h].applied = 0 /\ peer[h].kv_db = EmptyDb
  BY <1>1 DEF Init, PeerState
<1>3. \A t \in Term : lead[t].log = << >> /\ lead[t].commit = 0 /\ \A h \in Host : acked[t][h] = 0
  BY DEF Init
<1>4. ClusterTypes
  <2>1. peer \in [Host -> PeerState]
    BY <1>2 DEF Init
  <2>2. lead \in [Term -> [log : Seq(Entry), commit : Nat]] /\ acked \in [Term -> [Host -> Nat]]
    BY DEF Init
  <2>3. resp \in [Request -> Seq(Response)] /\ asked \subseteq Request
    BY DEF Init
  <2>4. busy \in Host \cup {NoHost}
    BY DEF Init
  <2> QED
    BY <2>1, <2>2, <2>3, <2>4 DEF ClusterTypes
<1>5. ClusterBounds
  BY <1>1, <1>2, <1>3 DEF ClusterBounds
<1>6. LogInv
  BY <1>2, <1>3 DEF LogInv, Tied, Rising, Within
<1>7. LeaderInv /\ VoteInv
  BY <1>2, <1>3 DEF LeaderInv, VoteInv, Held
<1>8. SafeInv /\ KeepInv /\ CommitInv
  BY <1>2, <1>3 DEF SafeInv, KeepInv, CommitInv, Settled, OwnEntry
<1>9. DbInv
  <2>1. \A l, k : ValueAfter(l, 0, k, NoVal)
    BY DEF ValueAfter
  <2>2. \A k \in Key : EmptyDb[k] = NoVal
    BY DEF EmptyDb
  <2> QED
    BY <1>2, <2>1, <2>2 DEF DbInv
<1> QED
  BY <1>4, <1>5, <1>6, <1>7, <1>8, <1>9 DEF ClusterInv, ClusterTypeOK, RaftInv

LEMMA ClusterStep == ClusterInv /\ [Next]_vars => ClusterInv'
<1> SUFFICES ASSUME ClusterInv, [Next]_vars PROVE ClusterInv'
  OBVIOUS
<1>1. ClusterTypes /\ ClusterBounds /\ RaftInv /\ DbInv /\ LeaderInv
  BY DEF ClusterInv, ClusterTypeOK, RaftInv
<1>2. ClusterTypes'
  BY <1>1, TypesStep
<1>3. RaftInv' /\ ClusterBounds' /\ DbInv'
  BY <1>1, <1>2, RaftStep, BoundsStep, DbStep
<1> QED
  BY <1>2, <1>3 DEF ClusterInv, ClusterTypeOK

\* Whatever is lost, repeated, delayed or overtaken between the hosts, the logs,
\* the commit indexes and the databases of HandleRaftReady stay consistent.
THEOREM ClusterInvariance == Spec => []ClusterInv
BY ClusterInit, ClusterStep, PTL DEF Spec

\* What one host has executed, a host that has executed as much or more has
\* executed too.
LEMMA CommonLog ==
    ASSUME ClusterInv, NEW g \in Host, NEW h \in Host, peer[g].cur <= peer[h].cur
    PROVE  Agree(peer[g].log, peer[h].log, peer[g].cur)
<1>1. ClusterTypes /\ ClusterBounds /\ RaftInv
  BY DEF ClusterInv, ClusterTypeOK
<1>2. PICK lg \in Seq(Entry), lh \in Seq(Entry), n \in Nat, a \in Nat, b \in Nat :
        /\ lg = peer[g].log /\ lh = peer[h].log /\ n = peer[g].cur
        /\ a = peer[g].committed /\ b = peer[h].committed
  BY <1>1, PeerFields
<1>3. n <= a /\ n <= b
  <2>1. peer[h].cur \in Nat /\ n <= peer[h].cur /\ peer[h].cur <= b /\ n <= a
    BY <1>1, <1>2, PeerFields DEF ClusterBounds
  <2> QED
    BY <2>1
<1>4. CASE n = 0
  BY <1>2, <1>4 DEF Agree
<1>5. CASE n # 0
  <2>1. PICK s \in Term, i \in 1..MaxLog : Chosen(s, i) /\ a <= i /\ Agree(lg, lead[s].log, a)
    BY <1>1, <1>2, <1>3, <1>5 DEF RaftInv, CommitInv, Settled
  <2>2. PICK u \in Term, j \in 1..MaxLog : Chosen(u, j) /\ b <= j /\ Agree(lh, lead[u].log, b)
    BY <1>1, <1>2, <1>3, <1>5 DEF RaftInv, CommitInv, Settled
  <2>3. PICK x \in Seq(Entry), y \in Seq(Entry) : x = lead[s].log /\ y = lead[u].log
    BY <1>1, LeadFields
  <2>4. Agree(lg, x, n) /\ Agree(lh, y, n) /\ n <= i /\ n <= j /\ i \in Nat /\ j \in Nat
    <3>1. i \in Nat /\ j \in Nat
      BY ConstantFacts
    <3> QED
      BY <1>3, <2>1, <2>2, <2>3, <3>1, AgreeFacts
  <2>5. Held(s) /\ Held(u) /\ s \in Nat /\ u \in Nat
    <3>1. x # << >> /\ y # << >>
      BY <2>1, <2>2, <2>3 DEF Chosen, OwnEntry
    <3> QED
      BY <2>3, <3>1, ConstantFacts DEF Held
  <2>6. Agree(x, y, n)
    <3>1. CASE s <= u
      <4>1. Agree(y, x, i)
        BY <1>1, <2>1, <2>3, <2>5, <3>1, ChosenIsLed DEF RaftInv
      <4> QED
        BY <2>4, <4>1, AgreeFacts
    <3>2. CASE u <= s
      <4>1. Agree(x, y, j)
        BY <1>1, <2>2, <2>3, <2>5, <3>2, ChosenIsLed DEF RaftInv
      <4> QED
        BY <2>4, <4>1, AgreeFacts
    <3> QED
      BY <2>5, <3>1, <3>2
  <2>7. Agree(lg, y, n)
    BY <2>4, <2>6, AgreeFacts
  <2>8. Agree(y, lh, n)
    BY <2>4, AgreeFacts
  <2>9. Agree(lg, lh, n)
    BY <2>7, <2>8, AgreeFacts
  <2> QED
    BY <1>2, <2>9
<1> QED
  BY <1>4, <1>5

\* The hosts of a group execute one log: HandleRaftReady hands ProcessEntry the
\* same entries on every host, whoever led in the meantime and whatever was lost,
\* and hosts that have executed as much hold the same database.
THEOREM HostsAgree == Spec => []ReplicasAgree
<1>1. ClusterInv => ReplicasAgree
  <2> SUFFICES ASSUME ClusterInv, NEW g \in Host, NEW h \in Host, peer[g].cur <= peer[h].cur
               PROVE  /\ Agree(peer[g].log, peer[h].log, peer[g].cur)
                      /\ peer[g].cur = peer[h].cur => peer[g].kv_db = peer[h].kv_db
    BY DEF ReplicasAgree
  <2>1. Agree(peer[g].log, peer[h].log, peer[g].cur)
    BY CommonLog
  <2>2. ASSUME peer[g].cur = peer[h].cur PROVE peer[g].kv_db = peer[h].kv_db
    <3>1. ClusterTypes /\ DbInv
      BY DEF ClusterInv, ClusterTypeOK
    <3>2. PICK lg \in Seq(Entry), lh \in Seq(Entry), n \in Nat, dg \in Db, dh \in Db :
            /\ lg = peer[g].log /\ lh = peer[h].log /\ n = peer[g].cur
            /\ dg = peer[g].kv_db /\ dh = peer[h].kv_db
      BY <3>1, PeerFields
    <3>3. \A i \in 1..n : Data(lg)[i] = Data(lh)[i]
      BY <2>1, <3>2 DEF Data, Agree
    <3>4. ASSUME NEW k \in Key PROVE dg[k] = dh[k]
      <4>1. ValueAfter(Data(lg), n, k, dg[k]) /\ ValueAfter(Data(lh), n, k, dh[k])
        BY <2>2, <3>1, <3>2 DEF DbInv
      <4>2. ValueAfter(Data(lh), n, k, dg[k])
        BY <3>3, <4>1, ValueOfPrefix
      <4> QED
        BY <4>1, <4>2, ValueUnique
    <3> QED
      BY <3>2, <3>4 DEF Db
  <2> QED
    BY <2>1, <2>2
<1> QED
  BY <1>1, ClusterInvariance, PTL

-----------------------------------------------------------------------------
(***************************************************************************)
(* Requests and who waits for them.                                        *)
(***************************************************************************)
\* No host's deque changes, and nobody is answered.
Silent ==
    /\ \A q \in Host : peer'[q].proposals = peer[q].proposals
    /\ asked' = asked /\ resp' = resp

\* The only new entries of leaders are empty ones.
NoNewEntry ==
    \A t \in Term, n \in 1..MaxLog : OwnEntry(t, n)' =>
        \/ OwnEntry(t, n) /\ lead'[t].log[n] = lead[t].log[n]
        \/ lead'[t].log[n].data = NoOp

LEMMA ClientSplit ==
    ASSUME ClusterTypes, ClusterBounds, RaftInv, [Next]_vars
    PROVE  \/ Silent /\ NoNewEntry
           \/ \E r \in Request : KvOpCb(r)
           \/ \E h \in Host : ProcessEntry(h)
<1>1. ASSUME \A t \in Term : lead'[t].log = lead[t].log PROVE NoNewEntry
  BY <1>1 DEF NoNewEntry, OwnEntry
<1>2. ASSUME NEW t \in Term, NEW Q \in SUBSET Host, Elected(t, Q) PROVE Silent /\ NoNewEntry
  <2>1. PICK h \in Host, m \in Seq(Entry), e \in Entry, l \in Seq(Entry) :
          Elects(t, Q, h, m, e, l)
    BY <1>2, ElectedFacts
  <2>2. /\ \A q \in Host : peer'[q].proposals = peer[q].proposals
        /\ asked' = asked /\ resp' = resp
        /\ m = peer[h].log /\ e.data = NoOp /\ l = Append(m, e) /\ lead'[t].log = l
        /\ \A u \in Term \ {t} : lead'[u] = lead[u]
        /\ h \in Q /\ peer[h].term < t
    BY <2>1 DEF Elects
  <2>3. ASSUME NEW n \in 1..MaxLog, OwnEntry(t, n)' PROVE lead'[t].log[n].data = NoOp
    <3>1. n \in 1..Len(l) /\ l[n].term = t
      BY <2>2, <2>3 DEF OwnEntry
    <3>2. /\ Len(l) = Len(m) + 1 /\ Len(m) \in Nat /\ l[Len(m) + 1] = e
          /\ \A i \in 1..Len(m) : l[i] = m[i]
      BY <2>2, AppendFacts
    <3>3. ASSUME NEW i \in 1..Len(m) PROVE m[i].term # t
      <4>1. m[i].term \in Nat /\ m[i].term <= peer[h].term /\ peer[h].term \in Nat /\ t \in Nat
        BY <2>2, EntryOf, PeerFields, ConstantFacts DEF RaftInv, LogInv, Within
      <4> QED
        BY <2>2, <4>1
    <3>4. n = Len(m) + 1
      BY <3>1, <3>2, <3>3
    <3> QED
      BY <2>2, <3>2, <3>4
  <2> QED
    BY <2>2, <2>3 DEF Silent, NoNewEntry, OwnEntry
<1>3. ASSUME NEW h \in Host, NEW t \in Term, NewTerm(h, t) PROVE Silent /\ NoNewEntry
  BY <1>1, <1>3, NewTermFacts DEF Only, Silent
<1>4. ASSUME NEW h \in Host, NEW t \in Term, NEW n \in 0..MaxLog, NEW c \in 0..MaxLog,
             Deliver(h, t, n, c)
      PROVE  Silent /\ NoNewEntry
  <2>1. /\ Only(h) /\ peer'[h].proposals = peer[h].proposals
        /\ lead' = lead /\ asked' = asked /\ resp' = resp
    BY <1>4, DeliverFacts DEF Delivers
  <2> QED
    BY <1>1, <2>1 DEF Only, Silent
<1>5. ASSUME NEW h \in Host, NEW n \in 1..MaxLog, Commit(h, n) PROVE Silent /\ NoNewEntry
  <2>1. PICK t \in Term : Commits(h, n, t)
    BY <1>5, CommitFacts DEF RaftInv
  <2>2. /\ Only(h) /\ peer'[h].proposals = peer[h].proposals
        /\ lead'[t].log = lead[t].log /\ \A u \in Term \ {t} : lead'[u] = lead[u]
        /\ asked' = asked /\ resp' = resp
    BY <2>1 DEF Commits
  <2> QED
    BY <1>1, <2>2 DEF Only, Silent
<1>6. ASSUME NEW h \in Host, Tick(h) PROVE Silent /\ NoNewEntry
  BY <1>1, <1>6, TickFacts DEF Only, Silent
<1>7. ASSUME NEW h \in Host, Advance(h) PROVE Silent /\ NoNewEntry
  BY <1>1, <1>7, AdvanceFacts DEF Only, Silent
<1>8. CASE UNCHANGED vars
  BY <1>1, <1>8 DEF vars, Silent
<1> QED
  BY <1>2, <1>3, <1>4, <1>5, <1>6, <1>7, <1>8 DEF Next

\* Requests keep their places while only empty entries are added.
LEMMA RequestsKept ==
    ASSUME RequestInv, NoNewEntry, asked \subseteq asked'
    PROVE  RequestInv'
<1>1. ASSUME NEW t \in Term, NEW n \in 1..MaxLog, OwnEntry(t, n)', lead'[t].log[n].data # NoOp
      PROVE  OwnEntry(t, n) /\ lead'[t].log[n] = lead[t].log[n]
  BY <1>1 DEF NoNewEntry
<1>2. ASSUME NEW t \in Term, NEW n \in 1..MaxLog, OwnEntry(t, n)', lead'[t].log[n].data # NoOp
      PROVE  lead'[t].log[n].data \in asked' /\ Home[lead'[t].log[n].data] = Leader[t]
  <2>1. OwnEntry(t, n) /\ lead'[t].log[n] = lead[t].log[n]
    BY <1>1, <1>2
  <2> QED
    BY <1>2, <2>1 DEF RequestInv
<1>3. ASSUME NEW t \in Term, NEW u \in Term, NEW n \in 1..MaxLog, NEW m \in 1..MaxLog,
             OwnEntry(t, n)', OwnEntry(u, m)',
             lead'[t].log[n].data = lead'[u].log[m].data, lead'[t].log[n].data # NoOp
      PROVE  t = u /\ n = m
  <2>1. /\ OwnEntry(t, n) /\ lead'[t].log[n] = lead[t].log[n]
        /\ OwnEntry(u, m) /\ lead'[u].log[m] = lead[u].log[m]
    BY <1>1, <1>3
  <2> QED
    BY <1>3, <2>1 DEF RequestInv
<1> QED
  BY <1>2, <1>3 DEF RequestInv

\* A new request gets a new place.
LEMMA RequestProposed ==
    ASSUME ClusterTypes, RaftInv, RequestInv, NEW r \in Request, KvOpCb(r)
    PROVE  RequestInv'
<1>1. CASE ~peer[Home[r]].isLeader
  <2>1. lead' = lead /\ asked \subseteq asked'
    BY <1>1, RejectFacts
  <2>2. NoNewEntry
    BY <2>1 DEF NoNewEntry, OwnEntry
  <2> QED
    BY <2>1, <2>2, RequestsKept
<1>2. CASE peer[Home[r]].isLeader
  <2>1. PICK h \in Host, t \in Term, m \in Seq(Entry), e \in Entry, l \in Seq(Entry) :
          Proposes(r, h, t, m, e, l)
    BY <1>2, ProposeFacts DEF RaftInv
  <2>2. /\ h = Home[r] /\ t = peer[h].term /\ m = peer[h].log /\ peer[h].isLeader
        /\ e.data = r /\ l = Append(m, e) /\ lead'[t].log = l
        /\ \A u \in Term \ {t} : lead'[u] = lead[u]
        /\ r \notin asked /\ asked' = asked \cup {r}
    BY <2>1 DEF Proposes
  <2>3. Leader[t] = h /\ lead[t].log = m
    BY <2>2, LeadersLog
  <2>4. /\ Len(l) = Len(m) + 1 /\ Len(m) \in Nat /\ l[Len(m) + 1] = e
        /\ \A i \in 1..Len(m) : l[i] = m[i]
    BY <2>2, AppendFacts
  <2>5. ASSUME NEW u \in Term, NEW n \in 1..MaxLog, OwnEntry(u, n)'
        PROVE  \/ OwnEntry(u, n) /\ lead'[u].log[n] = lead[u].log[n]
               \/ u = t /\ n = Len(m) + 1 /\ lead'[u].log[n].data = r
    <3>1. CASE u = t
      <4>1. n \in 1..Len(l) /\ l[n].term = t
        BY <2>2, <2>5, <3>1 DEF OwnEntry
      <4>2. CASE n = Len(m) + 1
        <5>1. lead'[u].log[n] = e
          BY <2>2, <2>4, <3>1, <4>2
        <5> QED
          BY <2>2, <3>1, <4>2, <5>1
      <4>3. CASE n \in 1..Len(m)
        BY <2>2, <2>3, <2>4, <3>1, <4>1, <4>3 DEF OwnEntry
      <4> QED
        BY <2>4, <4>1, <4>2, <4>3
    <3>2. CASE u # t
      BY <2>2, <2>5, <3>2 DEF OwnEntry
    <3> QED
      BY <3>1, <3>2
  <2>6. ASSUME NEW u \in Term, NEW n \in 1..MaxLog, OwnEntry(u, n)', lead'[u].log[n].data # NoOp
        PROVE  lead'[u].log[n].data \in asked' /\ Home[lead'[u].log[n].data] = Leader[u]
    BY <2>2, <2>3, <2>5, <2>6 DEF RequestInv
  <2>7. ASSUME NEW u \in Term, NEW v \in Term, NEW n \in 1..MaxLog, NEW i \in 1..MaxLog,
               OwnEntry(u, n)', OwnEntry(v, i)',
               lead'[u].log[n].data = lead'[v].log[i].data, lead'[u].log[n].data # NoOp
        PROVE  u = v /\ n = i
    <3>1. CASE lead'[u].log[n].data = r
      <4>1. \A w \in Term, j \in 1..MaxLog : OwnEntry(w, j) => lead[w].log[j].data # r
        BY <2>2, ConstantFacts DEF RequestInv
      <4> QED
        BY <2>5, <2>7, <3>1, <4>1
    <3>2. CASE lead'[u].log[n].data # r
      <4>1. /\ OwnEntry(u, n) /\ lead'[u].log[n] = lead[u].log[n]
            /\ OwnEntry(v, i) /\ lead'[v].log[i] = lead[v].log[i]
        BY <2>5, <2>7, <3>2
      <4>2. lead[u].log[n].data = lead[v].log[i].data /\ lead[u].log[n].data # NoOp
        BY <2>7, <4>1
      <4> QED
        BY <4>1, <4>2 DEF RequestInv
    <3> QED
      BY <3>1, <3>2
  <2> QED
    BY <2>6, <2>7 DEF RequestInv
<1> QED
  BY <1>1, <1>2

\* Who waits goes on waiting unless it is answered.
LEMMA WaitsForStable ==
    ASSUME ClusterTypes, ClusterTypes', Grows, asked \subseteq asked',
           NEW h \in Host, NEW x \in Waiter, WaitsFor(h, x), resp'[x.req] = resp[x.req]
    PROVE  WaitsFor(h, x)'
<1>1. PICK t \in Term, n \in Nat, r \in Request : t = x.term /\ n = x.index /\ r = x.req
  BY DEF Waiter
<1>2. /\ r \in asked /\ resp[r] = << >> /\ Leader[t] = h /\ OwnEntry(t, n)
      /\ lead[t].log[n].data = r
  BY <1>1 DEF WaitsFor
<1>3. OwnEntry(t, n)' /\ lead'[t].log[n] = lead[t].log[n]
  BY <1>2, OwnEntryStable
<1>4. OwnEntry(x.term, x.index)' /\ lead'[x.term].log[x.index].data = x.req
  BY <1>1, <1>2, <1>3 DEF OwnEntry
<1> QED
  BY <1>1, <1>2, <1>4 DEF WaitsFor

\* No two hosts wait for one request.
LEMMA WaitsForUnique ==
    ASSUME ClusterTypes, ClusterBounds, RequestInv, NEW g \in Host, NEW h \in Host,
           NEW x \in Waiter, NEW y \in Waiter, WaitsFor(g, x), WaitsFor(h, y), x.req = y.req
    PROVE  g = h
<1>1. PICK t \in Term, n \in Nat, u \in Term, m \in Nat, r \in Request :
        t = x.term /\ n = x.index /\ u = y.term /\ m = y.index /\ r = x.req
  BY DEF Waiter
<1>2. /\ Leader[t] = g /\ OwnEntry(t, n) /\ lead[t].log[n].data = r
      /\ Leader[u] = h /\ OwnEntry(u, m) /\ lead[u].log[m].data = r
  BY <1>1 DEF WaitsFor
<1>3. n \in 1..MaxLog /\ m \in 1..MaxLog
  <2>1. /\ n \in 1..Len(lead[t].log) /\ m \in 1..Len(lead[u].log)
        /\ Len(lead[t].log) \in Nat /\ Len(lead[u].log) \in Nat
        /\ Len(lead[t].log) <= MaxLog /\ Len(lead[u].log) <= MaxLog
    BY <1>2, LeadFields DEF OwnEntry, ClusterBounds
  <2> QED
    BY <2>1, ConstantFacts
<1>4. t = u
  BY <1>2, <1>3, ConstantFacts DEF RequestInv
<1> QED
  BY <1>2, <1>4

\* Host h, whose deque was q, rejects the first n of it, answers the next one if
\* m = n + 1 (its place is that of the entry executed), and keeps the rest.
Hits(h, x, r) ==
    LET p == peer[h]
        e == p.log[p.cur + 1]
    IN  /\ x.index = p.cur + 1 /\ x.term = e.term /\ e.data \in Request
        /\ peer'[h].cur = p.cur + 1 /\ ~Aborts(p.kv_db, Cmd[e.data])
        /\ resp'[r] = Append(resp[r], Done(p.kv_db, Cmd[e.data]))
Answers(h, q, n, m) ==
    /\ n <= m /\ m <= n + 1
    /\ Len(peer'[h].proposals) = Len(q) - m
    /\ \A i \in 1..Len(peer'[h].proposals) : peer'[h].proposals[i] = q[i + m]
    /\ \A j \in 1..n : resp'[q[j].req] = Append(resp[q[j].req], Rejected)
    /\ \A r \in Request : (\A j \in 1..n : q[j].req # r) =>
          \/ resp'[r] = resp[r]
          \/ m = n + 1 /\ r = q[m].req /\ Hits(h, q[m], r)

LEMMA AnswerFacts ==
    ASSUME ClusterTypes, ClusterBounds, NEW h \in Host, ProcessEntry(h),
           NEW q \in Seq(Waiter), q = peer[h].proposals
    PROVE  \E n, m \in 0..Len(q) : Answers(h, q, n, m)
<1> DEFINE p == peer[h]
           e == p.log[p.cur + 1]
           g == Lookup(p, p.cur + 1, e.term)
<1>0. p = peer[h] /\ e = p.log[p.cur + 1] /\ g = Lookup(p, p.cur + 1, e.term)
  OBVIOUS
<1> HIDE DEF p, e, g
<1>1. /\ peer'[h].proposals = g.rest
      /\ \/ Refuses(g)
         \/ /\ e.data \in Request /\ ~Aborts(p.kv_db, Cmd[e.data])
            /\ peer'[h].cur = p.cur + 1 /\ Replies(g, p.kv_db, e.data)
  BY <1>0, ProcessAnswers
<1>2. PICK n \in 0..Len(q), m \in 0..Len(q) :
        /\ Splits(q, g, n, m)
        /\ m = n + 1 => q[m].index = p.cur + 1 /\ q[m].term = e.term
  BY <1>0, LookupSplits
<1>3. /\ g.rejected = {q[j].req : j \in 1..n}
      /\ Len(g.rest) = Len(q) - m
      /\ \A i \in 1..Len(g.rest) : g.rest[i] = q[i + m]
      /\ \/ m = n /\ g.hit = NoReq
         \/ m = n + 1 /\ g.hit = q[m].req
  BY <1>2 DEF Splits
<1>4. n \in Nat /\ m \in Nat /\ n <= m /\ m <= n + 1 /\ Len(q) \in Nat
  BY <1>2, <1>3
<1>5. \A j \in 1..n : q[j].req \in Request
  <2>1. \A j \in 1..n : q[j] \in Waiter
    BY <1>4
  <2> QED
    BY <2>1 DEF Waiter
<1>6. \A j \in 1..n : resp'[q[j].req] = Append(resp[q[j].req], Rejected)
  <2> SUFFICES ASSUME NEW j \in 1..n PROVE resp'[q[j].req] = Append(resp[q[j].req], Rejected)
    OBVIOUS
  <2>1. PICK r \in Request : r = q[j].req
    BY <1>5
  <2>2. r \in g.rejected
    BY <1>3, <2>1
  <2>3. resp'[r] = Append(resp[r], Rejected)
    BY <1>1, <2>2 DEF Refuses, Replies
  <2> QED
    BY <2>1, <2>3
<1>7. ASSUME NEW r \in Request, \A j \in 1..n : q[j].req # r
      PROVE  \/ resp'[r] = resp[r]
             \/ m = n + 1 /\ r = q[m].req /\ Hits(h, q[m], r)
  <2>1. r \notin g.rejected
    BY <1>3, <1>7
  <2>2. r # NoReq
    BY ConstantFacts
  <2>3. CASE resp'[r] = resp[r]
    BY <2>3
  <2>4. CASE resp'[r] # resp[r]
    <3>1. /\ e.data \in Request /\ ~Aborts(p.kv_db, Cmd[e.data])
          /\ peer'[h].cur = p.cur + 1 /\ r = g.hit
          /\ resp'[r] = Append(resp[r], Done(p.kv_db, Cmd[e.data]))
      BY <1>1, <2>1, <2>4 DEF Refuses, Replies
    <3>2. m = n + 1 /\ r = q[m].req
      BY <1>3, <2>2, <3>1
    <3> QED
      BY <1>0, <1>2, <3>1, <3>2 DEF Hits
  <2> QED
    BY <2>3, <2>4
<1>8. Answers(h, q, n, m)
  BY <1>1, <1>3, <1>4, <1>6, <1>7 DEF Answers
<1> QED
  BY <1>8

LEMMA WaiterOf ==
    ASSUME ClusterTypes, NEW h \in Host, NEW i \in 1..Len(peer[h].proposals)
    PROVE  peer[h].proposals[i] \in Waiter /\ peer[h].proposals[i].req \in Request
<1>1. peer[h].proposals \in Seq(Waiter)
  BY PeerFields
<1>2. peer[h].proposals[i] \in Waiter
  BY <1>1
<1> QED
  BY <1>2 DEF Waiter

LEMMA SilentClient ==
    ASSUME ClusterTypes, ClusterTypes', Grows, ClientInv, Silent, NoNewEntry
    PROVE  ClientInv'
<1>1. RequestInv'
  BY RequestsKept DEF ClientInv, Silent
<1>2. AnsweredOnce'
  BY DEF ClientInv, AnsweredOnce, Silent
<1>3. ASSUME NEW h \in Host, NEW i \in 1..Len(peer[h].proposals)
      PROVE  WaitsFor(h, peer[h].proposals[i])'
  <2>1. PICK x \in Waiter : x = peer[h].proposals[i] /\ WaitsFor(h, x)
    BY WaiterOf DEF ClientInv, WaitInv
  <2>2. WaitsFor(h, x)'
    BY <2>1, WaitsForStable DEF Silent
  <2>3. x = peer'[h].proposals[i]
    BY <2>1 DEF Silent
  <2> QED
    BY <2>2, <2>3 DEF WaitsFor, OwnEntry
<1>4. WaitInv'
  BY <1>3 DEF WaitInv, ClientInv, Silent
<1> QED
  BY <1>1, <1>2, <1>4 DEF ClientInv

LEMMA RequestClient ==
    ASSUME ClusterTypes, ClusterBounds, RaftInv, ClusterTypes', Grows, ClientInv,
           NEW r \in Request, KvOpCb(r)
    PROVE  ClientInv'
<1>1. RequestInv'
  BY RequestProposed DEF ClientInv
<1>2. /\ r \notin asked /\ asked' = asked \cup {r} /\ resp[r] = << >>
      /\ resp \in [Request -> Seq(Response)]
  BY DEF KvOpCb, ClientInv, AnsweredOnce, ClusterTypes
<1>3. ASSUME NEW h \in Host, NEW x \in Waiter, WaitsFor(h, x) PROVE x.req # r
  BY <1>2, <1>3 DEF WaitsFor
<1>4. CASE ~peer[Home[r]].isLeader
  <2>1. peer' = peer /\ resp' = [resp EXCEPT ![r] = Append(@, Rejected)]
    BY <1>4, RejectFacts
  <2>2. /\ Len(resp'[r]) <= 1
        /\ \A s \in Request : s # r => resp'[s] = resp[s]
    <3>1. resp'[r] = Append(resp[r], Rejected)
      BY <1>2, <2>1
    <3>2. Append(resp[r], Rejected) = <<Rejected>>
      BY <1>2
    <3> QED
      BY <1>2, <2>1, <3>1, <3>2
  <2>3. AnsweredOnce'
    <3>1. ASSUME NEW s \in Request PROVE Len(resp'[s]) <= 1 /\ (s \notin asked' => resp'[s] = << >>)
      <4>1. CASE s = r
        BY <1>2, <2>2, <4>1
      <4>2. CASE s # r
        BY <1>2, <2>2, <4>2 DEF ClientInv, AnsweredOnce
      <4> QED
        BY <4>1, <4>2
    <3> QED
      BY <3>1 DEF AnsweredOnce
  <2>4. ASSUME NEW h \in Host, NEW i \in 1..Len(peer[h].proposals)
        PROVE  WaitsFor(h, peer[h].proposals[i])'
    <3>1. PICK x \in Waiter : x = peer[h].proposals[i] /\ WaitsFor(h, x) /\ x.req \in Request
      BY WaiterOf DEF ClientInv, WaitInv
    <3>2. WaitsFor(h, x)'
      BY <1>2, <1>3, <2>2, <3>1, WaitsForStable
    <3>3. x = peer'[h].proposals[i]
      BY <2>1, <3>1
    <3> QED
      BY <3>2, <3>3 DEF WaitsFor, OwnEntry
  <2>5. WaitInv'
    BY <2>1, <2>4 DEF WaitInv, ClientInv
  <2> QED
    BY <1>1, <2>3, <2>5 DEF ClientInv
<1>5. CASE peer[Home[r]].isLeader
  <2>1. PICK h \in Host, t \in Term, m \in Seq(Entry), e \in Entry, l \in Seq(Entry) :
          Proposes(r, h, t, m, e, l)
    BY <1>5, ProposeFacts DEF RaftInv
  <2>2. /\ Only(h) /\ t = peer[h].term /\ peer[h].isLeader /\ resp' = resp
        /\ e.term = t /\ e.data = r /\ l = Append(m, e) /\ lead'[t].log = l
    BY <2>1 DEF Proposes
  <2>3. PICK x \in Waiter :
          /\ x.index = Len(l) /\ x.term = t /\ x.req = r
          /\ peer'[h].proposals = Append(peer[h].proposals, x)
    BY <2>1 DEF Proposes
  <2>4. PICK q \in Seq(Waiter) : q = peer[h].proposals
    BY PeerFields
  <2>5. /\ Len(peer'[h].proposals) = Len(q) + 1 /\ Len(q) \in Nat
        /\ peer'[h].proposals[Len(q) + 1] = x
        /\ \A i \in 1..Len(q) : peer'[h].proposals[i] = q[i]
    BY <2>3, <2>4
  <2>6. WaitsFor(h, x)'
    <3>1. Len(l) \in 1..Len(l) /\ l[Len(l)] = e
      BY <2>2, AppendFacts
    <3>2. OwnEntry(t, Len(l))' /\ lead'[t].log[Len(l)].data = r
      BY <2>2, <3>1 DEF OwnEntry
    <3>3. OwnEntry(x.term, x.index)' /\ lead'[x.term].log[x.index].data = x.req
      BY <2>3, <3>2 DEF OwnEntry
    <3>4. Leader[t] = h
      BY <2>2, LeadersLog
    <3> QED
      BY <1>2, <2>2, <2>3, <3>3, <3>4 DEF WaitsFor
  <2>7. ASSUME NEW g \in Host, NEW i \in 1..Len(peer[g].proposals)
        PROVE  /\ peer'[g].proposals[i] = peer[g].proposals[i]
               /\ WaitsFor(g, peer[g].proposals[i])'
               /\ peer[g].proposals[i].req # r
    <3>1. PICK y \in Waiter : y = peer[g].proposals[i] /\ WaitsFor(g, y)
      BY WaiterOf DEF ClientInv, WaitInv
    <3>2. WaitsFor(g, y)' /\ y.req # r
      BY <1>2, <1>3, <2>2, <3>1, WaitsForStable
    <3>3. y = peer'[g].proposals[i]
      <4>1. CASE g = h
        BY <2>4, <2>5, <3>1, <4>1
      <4>2. CASE g # h
        BY <2>2, <3>1, <4>2 DEF Only
      <4> QED
        BY <4>1, <4>2
    <3> QED
      BY <3>1, <3>2, <3>3 DEF WaitsFor, OwnEntry
  <2>8. ASSUME NEW g \in Host, g # h PROVE peer'[g].proposals = peer[g].proposals
    BY <2>2, <2>8 DEF Only
  <2>9. ASSUME NEW i \in 1..Len(peer'[h].proposals)
        PROVE  i \in 1..Len(peer[h].proposals) \/ i = Len(q) + 1
    BY <2>4, <2>5
  <2>10. ASSUME NEW g \in Host, NEW i \in 1..Len(peer'[g].proposals)
         PROVE  WaitsFor(g, peer[g].proposals[i])'
    <3>1. CASE i \in 1..Len(peer[g].proposals)
      BY <2>7, <3>1
    <3>2. CASE g = h /\ i = Len(q) + 1
      BY <2>5, <2>6, <3>2 DEF WaitsFor, OwnEntry
    <3> QED
      BY <2>8, <2>9, <3>1, <3>2
  <2>11. ASSUME NEW g \in Host, NEW i \in 1..Len(peer'[g].proposals),
                NEW j \in 1..Len(peer'[g].proposals),
                peer'[g].proposals[i].req = peer'[g].proposals[j].req
         PROVE  i = j
    <3>1. CASE i \in 1..Len(peer[g].proposals) /\ j \in 1..Len(peer[g].proposals)
      <4>1. peer[g].proposals[i].req = peer[g].proposals[j].req
        BY <2>7, <2>11, <3>1
      <4> QED
        BY <3>1, <4>1 DEF ClientInv, WaitInv
    <3>2. ASSUME g = h, NEW n \in 1..Len(peer'[h].proposals)
          PROVE  peer'[h].proposals[n].req = r <=> n = Len(q) + 1
      <4>1. CASE n = Len(q) + 1
        BY <2>3, <2>5, <4>1
      <4>2. CASE n \in 1..Len(peer[h].proposals)
        <5>1. n # Len(q) + 1
          BY <2>4, <2>5, <4>2
        <5> QED
          BY <2>7, <4>2, <5>1
      <4> QED
        BY <2>9, <4>1, <4>2
    <3>3. CASE g = h /\ (i = Len(q) + 1 \/ j = Len(q) + 1)
      BY <2>11, <3>2, <3>3
    <3> QED
      BY <2>8, <2>9, <3>1, <3>3
  <2>12. WaitInv'
    BY <2>10, <2>11 DEF WaitInv
  <2>13. AnsweredOnce'
    BY <1>2, <2>2 DEF ClientInv, AnsweredOnce
  <2> QED
    BY <1>1, <2>12, <2>13 DEF ClientInv
<1> QED
  BY <1>4, <1>5

\* ProcessEntry answers only who waits, each once.
LEMMA ProcessClient ==
    ASSUME ClusterTypes, ClusterBounds, ClusterTypes', Grows, ClientInv,
           NEW h \in Host, ProcessEntry(h)
    PROVE  ClientInv'
<1>1. Only(h) /\ lead' = lead /\ asked' = asked
  BY ProcessFacts
<1>2. RequestInv'
  <2>1. NoNewEntry
    BY <1>1 DEF NoNewEntry, OwnEntry
  <2> QED
    BY <1>1, <2>1, RequestsKept DEF ClientInv
<1>3. PICK q \in Seq(Waiter) : q = peer[h].proposals
  BY PeerFields
<1>4. PICK n \in 0..Len(q), m \in 0..Len(q) : Answers(h, q, n, m)
  BY <1>3, AnswerFacts
<1>5. /\ n \in Nat /\ m \in Nat /\ n <= m /\ Len(q) \in Nat /\ m <= Len(q)
      /\ Len(peer'[h].proposals) = Len(q) - m
      /\ \A i \in 1..Len(peer'[h].proposals) : peer'[h].proposals[i] = q[i + m]
      /\ \A j \in 1..n : resp'[q[j].req] = Append(resp[q[j].req], Rejected)
      /\ \A r \in Request : (\A j \in 1..n : q[j].req # r) =>
            \/ resp'[r] = resp[r]
            \/ m = n + 1 /\ r = q[m].req /\ Hits(h, q[m], r)
  BY <1>4 DEF Answers
<1>6. ASSUME NEW j \in 1..Len(q)
      PROVE  /\ q[j] \in Waiter /\ WaitsFor(h, q[j]) /\ q[j].req \in Request
             /\ q[j].req \in asked /\ resp[q[j].req] = << >>
  BY <1>3, WaiterOf DEF ClientInv, WaitInv, WaitsFor
<1>7. ASSUME NEW r \in Request, \A j \in 1..m : q[j].req # r PROVE resp'[r] = resp[r]
  <2>1. \A j \in 1..n : j \in 1..m
    BY <1>5
  <2>2. m = n + 1 => m \in 1..m
    BY <1>5
  <2> QED
    BY <1>5, <1>7, <2>1, <2>2
<1>8. AnsweredOnce'
  <2>1. ASSUME NEW r \in Request PROVE Len(resp'[r]) <= 1 /\ (r \notin asked' => resp'[r] = << >>)
    <3>1. CASE \A j \in 1..m : q[j].req # r
      BY <1>1, <1>7, <3>1 DEF ClientInv, AnsweredOnce
    <3>2. CASE \E j \in 1..m : q[j].req = r
      <4>1. r \in asked /\ resp[r] = << >>
        BY <1>5, <1>6, <3>2
      <4>2. resp'[r] = << >> \/ \E x : resp'[r] = Append(<< >>, x)
        BY <1>5, <3>2, <4>1 DEF Hits
      <4>3. Len(resp'[r]) <= 1
        <5>1. CASE resp'[r] = << >>
          BY <5>1
        <5>2. ASSUME NEW x, resp'[r] = Append(<< >>, x) PROVE Len(resp'[r]) <= 1
          <6>1. Append(<< >>, x) = <<x>>
            OBVIOUS
          <6>2. resp'[r] = <<x>>
            BY <5>2, <6>1
          <6> QED
            BY <6>2
        <5> QED
          BY <4>2, <5>1, <5>2
      <4> QED
        BY <1>1, <4>1, <4>3
    <3> QED
      BY <3>1, <3>2
  <2> QED
    BY <2>1 DEF AnsweredOnce
<1>9. ASSUME NEW i \in 1..Len(peer'[h].proposals)
      PROVE  WaitsFor(h, peer[h].proposals[i])'
  <2>1. i + m \in 1..Len(q) /\ peer'[h].proposals[i] = q[i + m] /\ \A j \in 1..m : j # i + m /\ j \in 1..Len(q)
    BY <1>5
  <2>2. \A j \in 1..m : q[j].req # q[i + m].req
    BY <1>3, <2>1 DEF ClientInv, WaitInv
  <2>3. PICK x \in Waiter : x = q[i + m] /\ WaitsFor(h, x) /\ x.req \in Request
    BY <1>6, <2>1
  <2>4. resp'[x.req] = resp[x.req]
    BY <1>7, <2>2, <2>3
  <2>5. WaitsFor(h, x)'
    BY <1>1, <2>3, <2>4, WaitsForStable
  <2>6. x = peer'[h].proposals[i]
    BY <2>1, <2>3
  <2> QED
    BY <2>5, <2>6 DEF WaitsFor, OwnEntry
<1>10. ASSUME NEW g \in Host, g # h, NEW i \in 1..Len(peer[g].proposals)
       PROVE  WaitsFor(g, peer[g].proposals[i])'
  <2>1. PICK x \in Waiter : x = peer[g].proposals[i] /\ WaitsFor(g, x) /\ x.req \in Request
    BY WaiterOf DEF ClientInv, WaitInv
  <2>2. ASSUME NEW j \in 1..m PROVE q[j].req # x.req
    <3>1. q[j] \in Waiter /\ WaitsFor(h, q[j])
      BY <1>5, <1>6
    <3> QED
      BY <1>10, <2>1, <3>1, WaitsForUnique DEF ClientInv
  <2>3. WaitsFor(g, x)'
    BY <1>1, <1>7, <2>1, <2>2, WaitsForStable
  <2>4. x = peer'[g].proposals[i]
    BY <1>1, <1>10, <2>1 DEF Only
  <2> QED
    BY <2>3, <2>4 DEF WaitsFor, OwnEntry
<1>11. ASSUME NEW i \in 1..Len(peer'[h].proposals), NEW j \in 1..Len(peer'[h].proposals),
              peer'[h].proposals[i].req = peer'[h].proposals[j].req
       PROVE  i = j
  <2>1. /\ i + m \in 1..Len(q) /\ peer'[h].proposals[i] = q[i + m]
        /\ j + m \in 1..Len(q) /\ peer'[h].proposals[j] = q[j + m]
    BY <1>5
  <2>2. i + m = j + m
    BY <1>3, <1>11, <2>1 DEF ClientInv, WaitInv
  <2> QED
    BY <1>5, <2>2
<1>12. ASSUME NEW g \in Host, g # h PROVE peer'[g].proposals = peer[g].proposals
  BY <1>1, <1>12 DEF Only
<1>13. WaitInv'
  <2>1. ASSUME NEW g \in Host, NEW i \in 1..Len(peer'[g].proposals)
        PROVE  WaitsFor(g, peer[g].proposals[i])'
    BY <1>9, <1>10, <1>12
  <2>2. ASSUME NEW g \in Host, NEW i \in 1..Len(peer'[g].proposals),
               NEW j \in 1..Len(peer'[g].proposals),
               peer'[g].proposals[i].req = peer'[g].proposals[j].req
        PROVE  i = j
    <3>1. CASE g = h
      BY <1>11, <2>2, <3>1
    <3>2. CASE g # h
      BY <1>12, <2>2, <3>2 DEF ClientInv, WaitInv
    <3> QED
      BY <3>1, <3>2
  <2> QED
    BY <2>1, <2>2 DEF WaitInv
<1> QED
  BY <1>2, <1>8, <1>13 DEF ClientInv

LEMMA ClientStep == ClusterInv /\ ClientInv /\ [Next]_vars => ClientInv'
<1> SUFFICES ASSUME ClusterInv, ClientInv, [Next]_vars PROVE ClientInv'
  OBVIOUS
<1>1. ClusterTypes /\ ClusterBounds /\ RaftInv
  BY DEF ClusterInv, ClusterTypeOK
<1>2. ClusterTypes'
  BY ClusterStep DEF ClusterInv, ClusterTypeOK
<1>3. Grows
  BY <1>1, <1>2, RaftStep
<1> QED
  BY <1>1, <1>2, <1>3, ClientSplit, SilentClient, RequestClient, ProcessClient

LEMMA ClientInit == Init => ClientInv
<1> SUFFICES ASSUME Init PROVE ClientInv
  OBVIOUS
<1>1. \A h \in Host : peer[h].proposals = << >>
  BY DEF Init
<1>2. \A t \in Term : lead[t].log = << >>
  BY DEF Init
<1>3. RequestInv
  BY <1>2 DEF RequestInv, OwnEntry
<1>4. WaitInv
  BY <1>1 DEF WaitInv
<1>5. AnsweredOnce
  BY DEF Init, AnsweredOnce
<1> QED
  BY <1>3, <1>4, <1>5 DEF ClientInv

\* Each request sent to KvOpCb has at most one place in the logs of the group, is
\* waited for by one deque, and done->Run() is called for it at most once.
THEOREM ClientInvariance == Spec => []ClientInv
BY ClusterInvariance, ClientInit, ClientStep, PTL DEF Spec

-----------------------------------------------------------------------------
(***************************************************************************)
(* The group is one store.                                                 *)
(***************************************************************************)
\* Effects, of the peers p, and what it needs to be well defined.
EffectsIn(p) ==
    LET f == CHOOSE h \in Host : \A g \in Host : p[g].cur <= p[h].cur
    IN  [i \in 1..p[f].cur |-> p[f].log[i].data]
OneLog(p) ==
    /\ \A h \in Host : p[h].cur \in Nat /\ p[h].cur <= MaxLog
    /\ \A g, h \in Host : p[g].cur <= p[h].cur => Agree(p[g].log, p[h].log, p[g].cur)
Most(p, f) == \A g \in Host : p[g].cur <= p[f].cur

\* Some host has executed most, and any that has shows the same effects.
LEMMA MostExists ==
    ASSUME NEW p, OneLog(p)
    PROVE  \E f \in Host : Most(p, f)
<1> DEFINE T == {MaxLog - p[h].cur : h \in Host}
<1>1. \A h \in Host : p[h].cur \in Nat /\ p[h].cur <= MaxLog /\ MaxLog \in Nat
  BY ConstantFacts DEF OneLog
<1>2. T \in SUBSET Nat /\ T # {}
  <2>1. Host # {}
    BY ClusterAssumption
  <2> QED
    BY <1>1, <2>1
<1>3. PICK x \in T : \A y \in T : x <= y
  BY <1>2, LeastNat
<1>4. PICK f \in Host : x = MaxLog - p[f].cur
  BY <1>3
<1>5. ASSUME NEW g \in Host PROVE p[g].cur <= p[f].cur
  <2>1. MaxLog - p[f].cur <= MaxLog - p[g].cur
    BY <1>3, <1>4
  <2> QED
    BY <1>1, <2>1
<1> QED
  BY <1>5 DEF Most

LEMMA EffectsOf ==
    ASSUME NEW p, OneLog(p), NEW f \in Host, Most(p, f)
    PROVE  EffectsIn(p) = [i \in 1..p[f].cur |-> p[f].log[i].data]
<1> DEFINE x == CHOOSE h \in Host : \A g \in Host : p[g].cur <= p[h].cur
<1>1. x \in Host /\ \A g \in Host : p[g].cur <= p[x].cur
  <2>1. \E h \in Host : \A g \in Host : p[g].cur <= p[h].cur
    BY DEF Most
  <2> QED
    BY <2>1
<1>2. EffectsIn(p) = [i \in 1..p[x].cur |-> p[x].log[i].data]
  BY DEF EffectsIn
<1> HIDE DEF x
<1>3. p[x].cur \in Nat /\ p[f].cur \in Nat /\ p[x].cur = p[f].cur
  <2>1. p[x].cur \in Nat /\ p[f].cur \in Nat /\ p[x].cur <= p[f].cur /\ p[f].cur <= p[x].cur
    BY <1>1 DEF OneLog, Most
  <2> QED
    BY <2>1
<1>4. Agree(p[x].log, p[f].log, p[x].cur)
  BY <1>1, <1>3 DEF OneLog
<1>5. \A i \in 1..p[f].cur : p[x].log[i] = p[f].log[i]
  BY <1>3, <1>4 DEF Agree
<1> QED
  BY <1>2, <1>3, <1>5

\* Whatever a host has executed is among the effects, in its place.
LEMMA EffectsInclude ==
    ASSUME NEW p, OneLog(p), NEW g \in Host, NEW i \in 1..p[g].cur
    PROVE  i \in 1..Len(EffectsIn(p)) /\ EffectsIn(p)[i] = p[g].log[i].data
<1>1. PICK f \in Host : Most(p, f)
  BY MostExists
<1>2. EffectsIn(p) = [j \in 1..p[f].cur |-> p[f].log[j].data]
  BY <1>1, EffectsOf
<1>3. p[f].cur \in Nat /\ p[g].cur \in Nat /\ p[g].cur <= p[f].cur
  BY <1>1 DEF OneLog, Most
<1>4. i \in 1..p[f].cur /\ p[g].log[i] = p[f].log[i]
  <2>1. Agree(p[g].log, p[f].log, p[g].cur)
    BY <1>3 DEF OneLog
  <2> QED
    BY <1>3, <2>1 DEF Agree
<1>5. Len(EffectsIn(p)) = p[f].cur
  BY <1>2, <1>3
<1> QED
  BY <1>2, <1>4, <1>5

\* The effects stay while nobody executes; when a host executes an entry they
\* grow by it, or it is there already.
LEMMA EffectsStay ==
    ASSUME NEW p, NEW x, OneLog(p), OneLog(x),
           \A q \in Host : /\ x[q].cur = p[q].cur
                           /\ \A i \in 1..p[q].cur : x[q].log[i] = p[q].log[i]
    PROVE  EffectsIn(x) = EffectsIn(p)
<1>1. PICK f \in Host : Most(p, f)
  BY MostExists
<1>2. Most(x, f)
  BY <1>1 DEF Most
<1>3. /\ EffectsIn(p) = [i \in 1..p[f].cur |-> p[f].log[i].data]
      /\ EffectsIn(x) = [i \in 1..x[f].cur |-> x[f].log[i].data]
  BY <1>1, <1>2, EffectsOf
<1> QED
  BY <1>3

LEMMA EffectsMove ==
    ASSUME NEW p, NEW x, OneLog(p), OneLog(x), NEW h \in Host,
           \A q \in Host : x[q].log = p[q].log,
           \A q \in Host \ {h} : x[q].cur = p[q].cur,
           x[h].cur = p[h].cur + 1
    PROVE  \/ EffectsIn(x) = EffectsIn(p)
           \/ /\ Most(p, h)
              /\ EffectsIn(x) = Append(EffectsIn(p), p[h].log[p[h].cur + 1].data)
<1>0. \A q \in Host : p[q].cur \in Nat
  BY DEF OneLog
<1>1. CASE Most(p, h)
  <2>1. Most(x, h)
    <3>1. ASSUME NEW q \in Host PROVE x[q].cur <= x[h].cur
      <4>1. p[q].cur <= p[h].cur /\ p[q].cur \in Nat /\ p[h].cur \in Nat
        BY <1>0, <1>1 DEF Most
      <4>2. CASE q = h
        BY <4>1, <4>2
      <4>3. CASE q # h
        BY <4>1, <4>3
      <4> QED
        BY <4>2, <4>3
    <3> QED
      BY <3>1 DEF Most
  <2>l. PICK l : l = p[h].log
    OBVIOUS
  <2>2. PICK n \in Nat : n = p[h].cur
    BY <1>0
  <2>3. /\ EffectsIn(p) = [i \in 1..n |-> l[i].data]
        /\ EffectsIn(x) = [i \in 1..(n + 1) |-> l[i].data]
    <3>1. /\ EffectsIn(p) = [i \in 1..p[h].cur |-> p[h].log[i].data]
          /\ EffectsIn(x) = [i \in 1..x[h].cur |-> x[h].log[i].data]
      BY <1>1, <2>1, EffectsOf
    <3>2. x[h].log = l /\ x[h].cur = n + 1
      BY <2>l, <2>2
    <3> QED
      BY <2>l, <2>2, <3>1, <3>2
  <2>4. PICK d : d = l[n + 1].data
    OBVIOUS
  <2>5. Append([i \in 1..n |-> l[i].data], d) = [i \in 1..(n + 1) |-> l[i].data]
    <3> DEFINE S == {l[i].data : i \in 1..n}
               E == [i \in 1..n |-> l[i].data]
    <3>1. E \in Seq(S) /\ Len(E) = n
      BY <2>2
    <3>2. Append(E, d) = [i \in 1..(n + 1) |-> IF i = n + 1 THEN d ELSE E[i]]
      BY <2>2, <3>1
    <3>3. ASSUME NEW i \in 1..(n + 1) PROVE (IF i = n + 1 THEN d ELSE E[i]) = l[i].data
      <4>1. CASE i = n + 1
        BY <2>4, <4>1
      <4>2. CASE i # n + 1
        <5>1. i \in 1..n
          BY <2>2, <4>2
        <5> QED
          BY <4>2, <5>1
      <4> QED
        BY <4>1, <4>2
    <3> QED
      BY <3>2, <3>3
  <2> QED
    BY <1>1, <2>l, <2>2, <2>3, <2>4, <2>5
<1>2. CASE ~Most(p, h)
  <2>1. PICK f \in Host : Most(p, f)
    BY MostExists
  <2>2. f # h /\ x[f].cur = p[f].cur /\ x[f].log = p[f].log
    BY <1>2, <2>1
  <2>3. Most(x, f)
    <3>1. p[h].cur < p[f].cur
      <4>1. PICK g \in Host : ~(p[g].cur <= p[h].cur)
        BY <1>2 DEF Most
      <4>2. /\ p[g].cur <= p[f].cur /\ p[g].cur \in Nat
            /\ p[h].cur \in Nat /\ p[f].cur \in Nat
        BY <1>0, <2>1 DEF Most
      <4> QED
        BY <4>1, <4>2
    <3>2. ASSUME NEW q \in Host PROVE x[q].cur <= x[f].cur
      <4>1. p[q].cur <= p[f].cur /\ p[f].cur \in Nat /\ p[h].cur \in Nat
        BY <1>0, <2>1 DEF Most
      <4>2. CASE q = h
        BY <2>2, <3>1, <4>1, <4>2
      <4>3. CASE q # h
        BY <2>2, <4>1, <4>3
      <4> QED
        BY <4>2, <4>3
    <3> QED
      BY <3>2 DEF Most
  <2>4. /\ EffectsIn(p) = [i \in 1..p[f].cur |-> p[f].log[i].data]
        /\ EffectsIn(x) = [i \in 1..x[f].cur |-> x[f].log[i].data]
    BY <2>1, <2>3, EffectsOf
  <2> QED
    BY <2>2, <2>4
<1> QED
  BY <1>1, <1>2

\* KvStore's own copies of the definitions of KvOps.
LEMMA SameStore ==
    /\ Store!Rejected = Rejected /\ Store!Response = Response
    /\ \A l, n, k, v : Store!ValueAfter(l, n, k, v) <=> ValueAfter(l, n, k, v)
BY DEF Store!Rejected, Rejected, Store!Response, Response,
       Store!ValueAfter, ValueAfter, Store!Sets, Sets

\* At most one answer is no answer, or one.
LEMMA ShortSequence ==
    ASSUME NEW S, NEW s \in Seq(S), Len(s) <= 1
    PROVE  s = << >> \/ \E x \in S : s = <<x>>
<1>1. CASE Len(s) = 0
  BY <1>1, EmptySeq
<1>2. CASE Len(s) = 1
  <2>1. s[1] \in S
    BY <1>2
  <2>2. <<s[1]>> \in Seq(S) /\ Len(<<s[1]>>) = 1 /\ <<s[1]>>[1] = s[1]
    BY <2>1
  <2>3. s = <<s[1]>>
    BY <1>2, <2>2, SeqEqual
  <2> QED
    BY <2>1, <2>3
<1>3. Len(s) = 0 \/ Len(s) = 1
  <2>1. Len(s) \in Nat /\ \A x \in Nat : x <= 1 => x = 0 \/ x = 1
    BY LenProperties
  <2> QED
    BY <2>1
<1> QED
  BY <1>1, <1>2, <1>3

LEMMA EffectsNow == Effects = EffectsIn(peer)
BY DEF Effects, Furthest, EffectsIn

LEMMA EffectsNext == Effects' = EffectsIn(peer')
BY DEF Effects, Furthest, EffectsIn

LEMMA OneLogNow ==
    ASSUME ClusterTypeOK, ReplicasAgree
    PROVE  OneLog(peer)
<1>1. ASSUME NEW h \in Host PROVE peer[h].cur \in Nat /\ peer[h].cur <= MaxLog
  <2>1. /\ peer[h].cur \in Nat /\ peer[h].committed \in Nat /\ Len(peer[h].log) \in Nat
        /\ peer[h].cur <= peer[h].committed /\ peer[h].committed <= Len(peer[h].log)
        /\ Len(peer[h].log) <= MaxLog
    BY PeerFields DEF ClusterTypeOK, ClusterBounds
  <2> QED
    BY <2>1, ConstantFacts
<1> QED
  BY <1>1 DEF OneLog, ReplicasAgree

LEMMA OneLogNext ==
    ASSUME ClusterTypeOK', ReplicasAgree'
    PROVE  OneLog(peer')
<1>1. ASSUME NEW h \in Host PROVE peer'[h].cur \in Nat /\ peer'[h].cur <= MaxLog
  <2>1. /\ peer'[h].cur \in Nat /\ peer'[h].committed \in Nat /\ Len(peer'[h].log) \in Nat
        /\ peer'[h].cur <= peer'[h].committed /\ peer'[h].committed <= Len(peer'[h].log)
        /\ Len(peer'[h].log) <= MaxLog
    BY NextFields DEF ClusterTypeOK, ClusterBounds
  <2> QED
    BY <2>1, ConstantFacts
<1> QED
  BY <1>1 DEF OneLog, ReplicasAgree

LEMMA StoreInit == Init => Store!Init
<1> SUFFICES ASSUME Init PROVE Store!Init
  OBVIOUS
<1>1. \A h \in Host : peer[h].cur = 0 /\ peer[h].log = << >>
  BY DEF Init
<1>2. OneLog(peer)
  BY <1>1, ConstantFacts DEF OneLog, Agree
<1>3. PICK f \in Host : Most(peer, f)
  BY <1>2, MostExists
<1>4. Effects = [i \in 1..peer[f].cur |-> peer[f].log[i].data]
  BY <1>2, <1>3, EffectsOf, EffectsNow
<1>5. Effects = << >>
  BY <1>1, <1>4
<1> QED
  BY <1>5 DEF Init, Store!Init

\* Entry i of a log is its leader's own.
LEMMA TiedOwn ==
    ASSUME ClusterTypes, NEW l \in Seq(Entry), Tied(l), NEW i \in 1..Len(l)
    PROVE  \E t \in Term : /\ t = l[i].term /\ OwnEntry(t, i)
                           /\ lead[t].log[i] = l[i]
<1>1. PICK t \in Term : t = l[i].term
  BY EntryOf
<1>2. Agree(l, lead[t].log, i) /\ lead[t].log \in Seq(Entry) /\ i \in Nat
  BY <1>1, EntryOf, LeadFields DEF Tied
<1>3. i \in 1..Len(lead[t].log) /\ lead[t].log[i] = l[i]
  BY <1>2 DEF Agree
<1> QED
  BY <1>1, <1>3 DEF OwnEntry

\* Executing the entry of a request executes it for the first time.
LEMMA ExecutedOnce ==
    ASSUME ClusterTypes, ClusterBounds, RaftInv, RequestInv, NEW h \in Host,
           NEW l \in Seq(Entry), l = peer[h].log, NEW i \in 1..Len(l), l[i].data \in Request
    PROVE  /\ l[i].data \in asked
           /\ \A j \in 1..Len(l) : j # i => l[j].data # l[i].data
<1>1. Tied(l) /\ Len(l) <= MaxLog /\ Len(l) \in Nat
  BY DEF RaftInv, LogInv, ClusterBounds
<1>2. PICK t \in Term : t = l[i].term /\ OwnEntry(t, i) /\ lead[t].log[i] = l[i]
  BY <1>1, TiedOwn
<1>3. l[i].data # NoOp /\ \A j \in 1..Len(l) : j \in 1..MaxLog
  BY <1>1, ConstantFacts
<1>4. lead[t].log[i].data = l[i].data /\ i \in 1..MaxLog
  BY <1>2, <1>3
<1>5. l[i].data \in asked
  BY <1>2, <1>3, <1>4 DEF RequestInv
<1>6. ASSUME NEW j \in 1..Len(l), l[j].data = l[i].data PROVE j = i
  <2>1. PICK u \in Term : u = l[j].term /\ OwnEntry(u, j) /\ lead[u].log[j] = l[j]
    BY <1>1, TiedOwn
  <2>2. /\ lead[u].log[j].data = lead[t].log[i].data /\ lead[u].log[j].data # NoOp
        /\ j \in 1..MaxLog
    BY <1>3, <1>4, <1>6, <2>1
  <2>3. OwnEntry(u, j) /\ OwnEntry(t, i) /\ i \in 1..MaxLog
    BY <1>2, <1>4, <2>1
  <2>4. \A v, w \in Term, a, b \in 1..MaxLog :
           /\ OwnEntry(v, a) /\ OwnEntry(w, b)
           /\ lead[v].log[a].data = lead[w].log[b].data /\ lead[v].log[a].data # NoOp
           => v = w /\ a = b
    BY DEF RequestInv
  <2>5. u = t /\ j = i
    BY <2>2, <2>3, <2>4
  <2> QED
    BY <2>5
<1> QED
  BY <1>5, <1>6

LEMMA ReceiveStep ==
    ASSUME ClusterInv, ClusterInv', ClientInv, ReplicasAgree, ReplicasAgree',
           NEW r \in Request, KvOpCb(r)
    PROVE  Store!Receive(r)
<1>1. /\ r \notin asked /\ asked' = asked \cup {r}
      /\ resp' = resp \/ resp' = [resp EXCEPT ![r] = Append(@, Rejected)]
  BY DEF KvOpCb
<1>2. resp[r] = << >> /\ resp \in [Request -> Seq(Response)]
  BY <1>1 DEF ClientInv, AnsweredOnce, ClusterInv, ClusterTypeOK, ClusterTypes
<1>3. [resp EXCEPT ![r] = Append(@, Rejected)] = [resp EXCEPT ![r] = <<Rejected>>]
  BY <1>2
<1>4. Effects' = Effects
  <2>1. ClusterTypes /\ ClusterTypes' /\ ClusterBounds /\ RaftInv /\ LeaderInv
    BY DEF ClusterInv, ClusterTypeOK, RaftInv
  <2>2. [Next]_vars
    BY DEF Next
  <2>3. Kept
    BY <2>1, <2>2, RaftStep
  <2>4. \A q \in Host : peer'[q].cur = peer[q].cur
    <3>1. CASE ~peer[Home[r]].isLeader
      BY <2>1, <3>1, RejectFacts
    <3>2. CASE peer[Home[r]].isLeader
      <4>1. PICK h \in Host, t \in Term, m \in Seq(Entry), e \in Entry, l \in Seq(Entry) :
              Proposes(r, h, t, m, e, l)
        BY <2>1, <3>2, ProposeFacts
      <4>2. Only(h) /\ KvSame(h)
        BY <4>1 DEF Proposes
      <4> QED
        BY <4>2 DEF Only, KvSame
    <3> QED
      BY <3>1, <3>2
  <2>5. ASSUME NEW q \in Host, NEW i \in 1..peer[q].cur PROVE peer'[q].log[i] = peer[q].log[i]
    <3>1. /\ peer[q].cur \in Nat /\ peer[q].committed \in Nat /\ peer[q].cur <= peer[q].committed
          /\ Agree(peer'[q].log, peer[q].log, peer[q].committed)
      BY <2>1, <2>3, PeerFields DEF ClusterBounds, Kept
    <3> QED
      BY <3>1 DEF Agree
  <2>6. OneLog(peer) /\ OneLog(peer')
    BY OneLogNow, OneLogNext DEF ClusterInv
  <2> QED
    BY <2>4, <2>5, <2>6, EffectsStay, EffectsNow, EffectsNext
<1> QED
  BY <1>1, <1>3, <1>4, SameStore DEF Store!Receive

LEMMA StutterStep ==
    ASSUME ClusterInv, ClusterInv', ReplicasAgree, ReplicasAgree', [Next]_vars,
           Silent, \A h \in Host : ~ProcessEntry(h)
    PROVE  Store!vars' = Store!vars
<1>1. ClusterTypes /\ ClusterTypes' /\ ClusterBounds /\ RaftInv /\ LeaderInv
  BY DEF ClusterInv, ClusterTypeOK, RaftInv
<1>2. Kept
  BY <1>1, RaftStep
<1>3. \A q \in Host : peer'[q].cur = peer[q].cur
  <2>1. ASSUME NEW h \in Host, Advance(h) PROVE \A q \in Host : peer'[q].cur = peer[q].cur
    BY <1>1, <2>1, AdvanceFacts DEF Only
  <2> QED
    BY <1>1, <2>1, ExecSplit DEF Idle
<1>4. ASSUME NEW q \in Host, NEW i \in 1..peer[q].cur PROVE peer'[q].log[i] = peer[q].log[i]
  <2>1. /\ peer[q].cur \in Nat /\ peer[q].committed \in Nat /\ peer[q].cur <= peer[q].committed
        /\ Agree(peer'[q].log, peer[q].log, peer[q].committed)
    BY <1>1, <1>2, PeerFields DEF ClusterBounds, Kept
  <2> QED
    BY <2>1 DEF Agree
<1>5. OneLog(peer) /\ OneLog(peer')
  BY OneLogNow, OneLogNext DEF ClusterInv
<1>6. Effects' = Effects
  BY <1>3, <1>4, <1>5, EffectsStay, EffectsNow, EffectsNext
<1> QED
  BY <1>6 DEF Silent, Store!vars

LEMMA ServeStep ==
    ASSUME ClusterInv, ClusterInv', ClientInv, ClientInv', ReplicasAgree, ReplicasAgree',
           NEW h \in Host, ProcessEntry(h)
    PROVE  Store!Serve
<1>1. /\ ClusterTypes /\ ClusterTypes' /\ ClusterBounds /\ RaftInv /\ DbInv
      /\ RequestInv /\ WaitInv
  BY DEF ClusterInv, ClusterTypeOK, ClientInv
<1>2. OneLog(peer) /\ OneLog(peer')
  BY OneLogNow, OneLogNext DEF ClusterInv
<1>3. PICK l \in Seq(Entry), n \in Nat, db \in Db, q \in Seq(Waiter) :
        l = peer[h].log /\ n = peer[h].cur /\ db = peer[h].kv_db /\ q = peer[h].proposals
  BY <1>1, PeerFields
<1>4. /\ Only(h) /\ RaftSame(h) /\ asked' = asked
      /\ n + 1 \in 1..Len(l) /\ l[n + 1] \in Entry
      /\ peer'[h].cur = n \/ peer'[h].cur = n + 1
  BY <1>1, <1>3, ProcessFacts
<1>5. PICK d \in Request \cup {NoOp} : d = l[n + 1].data
  BY <1>4 DEF Entry
<1>6. \A g \in Host : peer'[g].log = peer[g].log
  BY <1>4 DEF Only, RaftSame
<1>7. d \in Request => d \in asked /\ \A i \in 1..n : l[i].data # d
  <2> SUFFICES ASSUME d \in Request PROVE d \in asked /\ \A i \in 1..n : l[i].data # d
    OBVIOUS
  <2>1. d \in asked /\ \A j \in 1..Len(l) : j # n + 1 => l[j].data # d
    BY <1>1, <1>3, <1>4, <1>5, ExecutedOnce
  <2>2. \A i \in 1..n : i \in 1..Len(l) /\ i # n + 1
    BY <1>4
  <2> QED
    BY <2>1, <2>2
<1>8. Store!TakeEffect \/ Effects' = Effects
  <2>1. CASE peer'[h].cur = n
    <3>1. \A g \in Host : peer'[g].cur = peer[g].cur
      BY <1>3, <1>4, <2>1 DEF Only
    <3>2. EffectsIn(peer') = EffectsIn(peer)
      BY <1>2, <1>6, <3>1, EffectsStay
    <3> QED
      BY <3>2, EffectsNow, EffectsNext
  <2>2. CASE peer'[h].cur = n + 1
    <3>1. \A g \in Host \ {h} : peer'[g].cur = peer[g].cur
      BY <1>4 DEF Only
    <3>2. peer'[h].cur = peer[h].cur + 1
      BY <1>3, <2>2
    <3>3. \/ EffectsIn(peer') = EffectsIn(peer)
          \/ /\ Most(peer, h)
             /\ EffectsIn(peer') = Append(EffectsIn(peer), peer[h].log[peer[h].cur + 1].data)
      BY <1>2, <1>6, <3>1, <3>2, EffectsMove
    <3>4. ASSUME Most(peer, h), Effects' = Append(Effects, d) PROVE Store!TakeEffect
      <4>1. Effects = [i \in 1..n |-> l[i].data]
        <5>1. EffectsIn(peer) = [i \in 1..peer[h].cur |-> peer[h].log[i].data]
          BY <1>2, <3>4, EffectsOf
        <5>2. [i \in 1..peer[h].cur |-> peer[h].log[i].data] = [i \in 1..n |-> l[i].data]
          BY <1>3
        <5> QED
          BY <5>1, <5>2, EffectsNow
      <4>2. Len(Effects) = n /\ \A i \in 1..n : Effects[i] = l[i].data
        BY <4>1
      <4>3. d \in Request => d \in asked /\ \A i \in 1..Len(Effects) : Effects[i] # d
        BY <1>7, <4>2
      <4> QED
        BY <3>4, <4>3 DEF Store!TakeEffect
    <3> QED
      BY <1>3, <1>5, <3>3, <3>4, EffectsNow, EffectsNext
  <2> QED
    BY <1>4, <2>1, <2>2
<1>9. resp' \in [Request -> {<< >>} \cup {<<x>> : x \in Response}]
  <2>1. resp' \in [Request -> Seq(Response)] /\ \A r \in Request : Len(resp'[r]) <= 1
    BY <1>1 DEF ClientInv, AnsweredOnce, ClusterTypes
  <2>2. \A r \in Request : resp'[r] \in {<< >>} \cup {<<x>> : x \in Response}
    BY <2>1, ShortSequence
  <2> QED
    BY <2>1, <2>2
<1>10. PICK a \in 0..Len(q), b \in 0..Len(q) : Answers(h, q, a, b)
  BY <1>1, <1>3, AnswerFacts
<1>11. /\ a \in Nat /\ b \in Nat /\ Len(q) \in Nat /\ a <= Len(q) /\ b <= Len(q)
       /\ \A j \in 1..a : resp'[q[j].req] = Append(resp[q[j].req], Rejected)
       /\ \A r \in Request : (\A j \in 1..a : q[j].req # r) =>
             \/ resp'[r] = resp[r]
             \/ b = a + 1 /\ r = q[b].req /\ Hits(h, q[b], r)
  <2>1. a \in Nat /\ b \in Nat /\ Len(q) \in Nat /\ a <= Len(q) /\ b <= Len(q)
    OBVIOUS
  <2>2. \A j \in 1..a : resp'[q[j].req] = Append(resp[q[j].req], Rejected)
    BY <1>10 DEF Answers
  <2>3. \A r \in Request : (\A j \in 1..a : q[j].req # r) =>
             \/ resp'[r] = resp[r]
             \/ b = a + 1 /\ r = q[b].req /\ Hits(h, q[b], r)
    BY <1>10 DEF Answers
  <2> QED
    BY <2>1, <2>2, <2>3
<1>12. ASSUME NEW j \in 1..Len(q)
       PROVE  /\ q[j] \in Waiter /\ WaitsFor(h, q[j])
              /\ q[j].req \in asked /\ resp[q[j].req] = << >>
  BY <1>1, <1>3, WaiterOf DEF WaitInv, WaitsFor
<1>13. ASSUME NEW r \in Request PROVE Store!Answer(r)
  <2>1. CASE resp'[r] = resp[r]
    BY <2>1 DEF Store!Answer
  <2>2. ASSUME NEW j \in 1..a, q[j].req = r PROVE Store!Answer(r)
    <3>1. r \in asked /\ resp[r] = << >> /\ resp'[r] = Append(resp[r], Rejected)
      <4>1. j \in 1..Len(q) /\ q[j].req = r
        BY <1>11, <2>2
      <4>2. q[j].req \in asked /\ resp[q[j].req] = << >>
        BY <1>12, <4>1
      <4>3. resp'[q[j].req] = Append(resp[q[j].req], Rejected)
        BY <1>11
      <4> QED
        BY <4>1, <4>2, <4>3
    <3>2. resp'[r] = <<Rejected>>
      BY <3>1
    <3> QED
      BY <3>1, <3>2, SameStore DEF Store!Answer
  <2>3. ASSUME b = a + 1, r = q[b].req, Hits(h, q[b], r) PROVE Store!Answer(r)
    <3>1. b \in 1..Len(q)
      BY <1>11, <2>3
    <3>2. PICK x \in Waiter : x = q[b] /\ WaitsFor(h, x)
      BY <1>12, <3>1
    <3>3. /\ x.index = n + 1 /\ x.term = l[n + 1].term /\ d \in Request
          /\ peer'[h].cur = n + 1 /\ resp'[r] = Append(resp[r], Done(db, Cmd[d]))
      BY <1>3, <1>5, <2>3, <3>2 DEF Hits
    <3>4. d = r
      <4>1. PICK t \in Term : /\ t = l[n + 1].term /\ OwnEntry(t, n + 1)
                              /\ lead[t].log[n + 1] = l[n + 1]
        BY <1>1, <1>3, <1>4, TiedOwn DEF RaftInv, LogInv
      <4>2. lead[x.term].log[x.index].data = r
        BY <2>3, <3>2 DEF WaitsFor
      <4> QED
        BY <1>5, <3>3, <4>1, <4>2
    <3>5. r \in asked /\ resp[r] = << >>
      BY <1>12, <2>3, <3>1
    <3>6. PICK y : y = Done(db, Cmd[r])
      OBVIOUS
    <3>7. resp'[r] = <<y>>
      BY <3>3, <3>4, <3>5, <3>6
    <3>8. Len(resp'[r]) = 1 /\ resp'[r][1] = y
      BY <3>7
    <3>9. ~y.rejected /\ (IF Cmd[r].type = "kGet" THEN y.value = db[Cmd[r].key] ELSE y.value = NoVal)
      BY <3>6 DEF Done
    <3>10. \A i \in 1..(n + 1) : i \in 1..Len(Effects') /\ Effects'[i] = l[i].data
      <4> SUFFICES ASSUME NEW i \in 1..(n + 1)
                   PROVE  i \in 1..Len(Effects') /\ Effects'[i] = l[i].data
        OBVIOUS
      <4>1. i \in 1..peer'[h].cur /\ peer'[h].log = l
        BY <1>3, <1>6, <3>3
      <4> QED
        BY <1>2, <4>1, EffectsInclude, EffectsNext
    <3>11. n + 1 \in 1..(n + 1) /\ (n + 1) - 1 = n /\ \A i \in 1..n : i \in 1..(n + 1) /\ i \in 1..Len(l)
      BY <1>4
    <3>12. Cmd[r].type = "kGet" => ValueAfter(Effects', n, Cmd[r].key, y.value)
      <4> SUFFICES ASSUME Cmd[r].type = "kGet" PROVE ValueAfter(Effects', n, Cmd[r].key, y.value)
        OBVIOUS
      <4>1. Cmd[r].key \in Key
        BY CmdAssumption DEF Command
      <4>2. ValueAfter(Data(l), n, Cmd[r].key, y.value)
        BY <1>1, <1>3, <3>9, <4>1 DEF DbInv
      <4>3. \A i \in 1..n : Data(l)[i] = Effects'[i]
        BY <3>10, <3>11 DEF Data
      <4> QED
        BY <4>2, <4>3, ValueOfPrefix
    <3>13. Store!Truthful(Effects', r, y)
      <4>1. n + 1 \in 1..Len(Effects') /\ Effects'[n + 1] = r
        BY <1>5, <3>4, <3>10, <3>11
      <4>2. IF Cmd[r].type = "kGet" THEN Store!ValueAfter(Effects', (n + 1) - 1, Cmd[r].key, y.value)
                                    ELSE y.value = NoVal
        BY <3>9, <3>11, <3>12, SameStore
      <4> QED
        BY <3>9, <4>1, <4>2 DEF Store!Truthful
    <3> QED
      BY <3>5, <3>8, <3>13 DEF Store!Answer
  <2> QED
    BY <1>11, <2>1, <2>2, <2>3
<1> QED
  BY <1>4, <1>8, <1>9, <1>13, SameStore DEF Store!Serve

\* To its clients the group is one linearizable store: whichever host's KvOpCb a
\* request is sent to, whoever leads and whatever is lost between the hosts, it
\* takes effect at most once, between KvOpCb and done->Run(), and "done" tells
\* what it did in the one order that all hosts execute.
THEOREM ClusterIsStore == Spec => GroupIsStore
<1> DEFINE Inv == ClusterInv /\ ClientInv /\ ReplicasAgree
<1>1. Inv /\ Inv' /\ [Next]_vars => [Store!Next]_(Store!vars)
  <2> SUFFICES ASSUME Inv, Inv', [Next]_vars
               PROVE  Store!Next \/ Store!vars' = Store!vars
    OBVIOUS
  <2>1. ASSUME NEW r \in Request, KvOpCb(r) PROVE Store!Next
    BY <2>1, ReceiveStep DEF Store!Next
  <2>2. ASSUME NEW h \in Host, ProcessEntry(h) PROVE Store!Next
    BY <2>2, ServeStep DEF Store!Next
  <2>3. CASE Silent /\ \A h \in Host : ~ProcessEntry(h)
    BY <2>3, StutterStep
  <2>4. \/ Silent
        \/ \E r \in Request : KvOpCb(r)
        \/ \E h \in Host : ProcessEntry(h)
    BY ClientSplit DEF ClusterInv, ClusterTypeOK
  <2> QED
    BY <2>1, <2>2, <2>3, <2>4
<1>2. Spec => []Inv
  BY ClusterInvariance, ClientInvariance, HostsAgree, PTL
<1> HIDE DEF Inv
<1> QED
  BY <1>1, <1>2, StoreInit, PTL DEF Spec, GroupIsStore, Store!Spec
=============================================================================
