------------------------- MODULE ClusterPeerProofs -------------------------
(***************************************************************************)
(* Each host of a group implements Peer: what Peer takes for granted of    *)
(* jraft::RawNode is what a group of Raft nodes provides, for any number   *)
(* of hosts, terms, entries and requests.                                  *)
(*                                                                         *)
(* The invariants of ClusterProofs give what the contract asks of a log    *)
(* that is adopted from a leader elsewhere; what is missing is where each  *)
(* host is in HandleRaftReady.                                             *)
(***************************************************************************)
EXTENDS ClusterProofs

\* Outside HandleRaftReady all that was executed is applied; whoever is inside
\* it lives.
TurnInv ==
    \A h \in Host : /\ peer[h].alive /\ busy # h => peer[h].cur = peer[h].applied
                    /\ busy = h => peer[h].alive

\* Nobody enters or leaves HandleRaftReady, or moves inside it.
Calm ==
    /\ busy' = busy
    /\ \A q \in Host : /\ peer'[q].alive = peer[q].alive /\ peer'[q].cur = peer[q].cur
                       /\ peer'[q].applied = peer[q].applied

LEMMA TurnSplit ==
    ASSUME ClusterTypes, ClusterBounds, LeaderInv, [Next]_vars
    PROVE  Calm \/ \E h \in Host : Tick(h) \/ ProcessEntry(h) \/ Advance(h)
<1>1. ASSUME NEW r \in Request, KvOpCb(r) PROVE Calm
  <2>1. CASE ~peer[Home[r]].isLeader
    BY <1>1, <2>1, RejectFacts DEF Calm
  <2>2. CASE peer[Home[r]].isLeader
    <3>1. PICK h \in Host, t \in Term, m \in Seq(Entry), e \in Entry, l \in Seq(Entry) :
            Proposes(r, h, t, m, e, l)
      BY <1>1, <2>2, ProposeFacts
    <3>2. Only(h) /\ KvSame(h) /\ busy' = busy
      BY <3>1 DEF Proposes
    <3> QED
      BY <3>2 DEF Only, KvSame, Calm
  <2> QED
    BY <2>1, <2>2
<1>2. ASSUME NEW t \in Term, NEW Q \in SUBSET Host, Elected(t, Q) PROVE Calm
  <2>1. PICK h \in Host, m \in Seq(Entry), e \in Entry, l \in Seq(Entry) :
          Elects(t, Q, h, m, e, l)
    BY <1>2, ElectedFacts
  <2>2. busy' = busy /\ \A q \in Host : KvSame(q)
    BY <2>1 DEF Elects
  <2> QED
    BY <2>2 DEF KvSame, Calm
<1>3. ASSUME NEW h \in Host, NEW t \in Term, NewTerm(h, t) PROVE Calm
  <2>1. Only(h) /\ KvSame(h) /\ busy' = busy
    BY <1>3, NewTermFacts
  <2> QED
    BY <2>1 DEF Only, KvSame, Calm
<1>4. ASSUME NEW h \in Host, NEW t \in Term, NEW n \in 0..MaxLog, NEW c \in 0..MaxLog,
             Deliver(h, t, n, c)
      PROVE  Calm
  <2>1. Only(h) /\ KvSame(h) /\ busy' = busy
    BY <1>4, DeliverFacts DEF Delivers
  <2> QED
    BY <2>1 DEF Only, KvSame, Calm
<1>5. ASSUME NEW h \in Host, NEW n \in 1..MaxLog, Commit(h, n) PROVE Calm
  <2>1. PICK t \in Term : Commits(h, n, t)
    BY <1>5, CommitFacts
  <2>2. Only(h) /\ KvSame(h) /\ busy' = busy
    BY <2>1 DEF Commits
  <2> QED
    BY <2>2 DEF Only, KvSame, Calm
<1>6. CASE UNCHANGED vars
  BY <1>6 DEF vars, Calm
<1> QED
  BY <1>1, <1>2, <1>3, <1>4, <1>5, <1>6 DEF Next

LEMMA TurnStep ==
    ASSUME ClusterTypes, ClusterBounds, LeaderInv, TurnInv, [Next]_vars
    PROVE  TurnInv'
<1>1. CASE Calm
  BY <1>1 DEF Calm, TurnInv
<1>2. ASSUME NEW h \in Host, Tick(h) PROVE TurnInv'
  <2>1. /\ Only(h) /\ peer'[h].alive = peer[h].alive /\ peer'[h].cur = peer[h].cur
        /\ peer'[h].applied = peer[h].applied /\ busy' \in {h, NoHost}
        /\ busy = NoHost /\ peer[h].alive
    BY <1>2, TickFacts DEF Free
  <2> QED
    BY <2>1, ConstantFacts DEF Only, TurnInv
<1>3. ASSUME NEW h \in Host, ProcessEntry(h) PROVE TurnInv'
  <2>1. /\ Only(h) /\ busy = h
        /\ \/ ~peer'[h].alive /\ busy' = NoHost
           \/ peer'[h].alive /\ busy' = h
    BY <1>3, ProcessFacts
  <2> QED
    BY <2>1, ConstantFacts DEF Only, TurnInv
<1>4. ASSUME NEW h \in Host, Advance(h) PROVE TurnInv'
  <2>1. /\ Only(h) /\ peer'[h].applied = peer[h].cur /\ peer'[h].cur = peer[h].cur
        /\ busy = h /\ busy' = NoHost
    BY <1>4, AdvanceFacts
  <2> QED
    BY <2>1, ConstantFacts DEF Only, TurnInv
<1> QED
  BY <1>1, <1>2, <1>3, <1>4, TurnSplit

\* Peer::HandleRaftReady leaves nothing behind: between callbacks a living peer
\* has applied all it executed, and only a living one is inside.
THEOREM TurnInvariance == Spec => []TurnInv
<1>1. Init => TurnInv
  BY ConstantFacts DEF Init, TurnInv
<1>2. ClusterInv /\ TurnInv /\ [Next]_vars => TurnInv'
  BY TurnStep DEF ClusterInv, ClusterTypeOK, RaftInv
<1> QED
  BY <1>1, <1>2, ClusterInvariance, PTL DEF Spec

-----------------------------------------------------------------------------
(***************************************************************************)
(* What the peer of Site has issued.                                       *)
(***************************************************************************)
\* The record of an entry, and of entry n of the leader of t.
Place(n, t, d) == [index |-> n, term |-> t, data |-> d]
Record(ld, t, n) == [index |-> n, term |-> t, data |-> ld[t].log[n].data]
Owns(ld, t, n) == n \in 1..Len(ld[t].log) /\ ld[t].log[n].term = t
IssuedIn(ld) ==
    UNION {{[index |-> i, term |-> t, data |-> ld[t].log[i].data] :
              i \in {j \in 1..Len(ld[t].log) : ld[t].log[j].term = t}} :
           t \in {u \in Term : Leader[u] = Site}}

LEMMA IssuedNow == Issued = IssuedIn(lead)
BY DEF Issued, IssuedIn

LEMMA IssuedNext == Issued' = IssuedIn(lead')
BY DEF Issued, IssuedIn

LEMMA InIssued ==
    ASSUME NEW ld, NEW x
    PROVE  x \in IssuedIn(ld) <=>
              \E t \in Term : Leader[t] = Site
                 /\ \E n \in 1..Len(ld[t].log) : ld[t].log[n].term = t /\ x = Record(ld, t, n)
BY DEF IssuedIn, Record

LEMMA IssuedSame ==
    ASSUME NEW x, NEW y, \A t \in Term : Leader[t] = Site => x[t].log = y[t].log
    PROVE  IssuedIn(x) = IssuedIn(y)
<1>1. ASSUME NEW z PROVE z \in IssuedIn(x) <=> z \in IssuedIn(y)
  <2>1. ASSUME NEW t \in Term, Leader[t] = Site
        PROVE  (\E n \in 1..Len(x[t].log) : x[t].log[n].term = t /\ z = Record(x, t, n))
               <=> \E n \in 1..Len(y[t].log) : y[t].log[n].term = t /\ z = Record(y, t, n)
    BY <2>1 DEF Record
  <2> QED
    BY <2>1, InIssued
<1> QED
  BY <1>1

\* A leader's new entry, the only change there is to entries of own terms.
Adds(x, y, t, k, d) ==
    /\ \A u \in Term \ {t} : y[u].log = x[u].log
    /\ \A n : Owns(y, t, n) <=> Owns(x, t, n) \/ n = k
    /\ \A n : Owns(x, t, n) => y[t].log[n] = x[t].log[n]
    /\ y[t].log[k].data = d

LEMMA IssuedAdds ==
    ASSUME NEW x, NEW y, NEW t \in Term, Leader[t] = Site, NEW k, NEW d,
           Adds(x, y, t, k, d)
    PROVE  IssuedIn(y) = IssuedIn(x) \cup {Place(k, t, d)}
<1> DEFINE new == Place(k, t, d)
<1>1. new = Record(y, t, k)
  BY DEF Record, Place, Adds
<1>2. \A n : Owns(x, t, n) => Record(y, t, n) = Record(x, t, n)
  BY DEF Record, Adds
<1> HIDE DEF new
<1>3. ASSUME NEW ld, NEW z
      PROVE  z \in IssuedIn(ld) <=>
                \E u \in Term : Leader[u] = Site /\ \E n : Owns(ld, u, n) /\ z = Record(ld, u, n)
  BY InIssued DEF Owns
<1>4. \A u \in Term \ {t} : \A n : /\ Owns(y, u, n) <=> Owns(x, u, n)
                                  /\ Record(y, u, n) = Record(x, u, n)
  BY DEF Owns, Record, Adds
<1>0. \A n : Owns(y, t, n) <=> Owns(x, t, n) \/ n = k
  BY DEF Adds
<1>5. ASSUME NEW z PROVE z \in IssuedIn(y) <=> z \in IssuedIn(x) \/ z = new
  <2>1. ASSUME z \in IssuedIn(y) PROVE z \in IssuedIn(x) \/ z = new
    <3>0. PICK u \in Term : Leader[u] = Site /\ \E n : Owns(y, u, n) /\ z = Record(y, u, n)
      BY <1>3, <2>1
    <3>1. PICK n : Leader[u] = Site /\ Owns(y, u, n) /\ z = Record(y, u, n)
      BY <3>0
    <3>2. CASE u = t /\ n = k
      BY <1>1, <3>1, <3>2
    <3>3. CASE u = t /\ n # k
      BY <1>0, <1>2, <1>3, <3>1, <3>3
    <3>4. CASE u # t
      BY <1>3, <1>4, <3>1, <3>4
    <3> QED
      BY <3>2, <3>3, <3>4
  <2>2. ASSUME z \in IssuedIn(x) PROVE z \in IssuedIn(y)
    <3>0. PICK u \in Term : Leader[u] = Site /\ \E n : Owns(x, u, n) /\ z = Record(x, u, n)
      BY <1>3, <2>2
    <3>1. PICK n : Leader[u] = Site /\ Owns(x, u, n) /\ z = Record(x, u, n)
      BY <3>0
    <3>2. CASE u = t
      BY <1>0, <1>2, <1>3, <3>1, <3>2
    <3>3. CASE u # t
      BY <1>3, <1>4, <3>1, <3>3
    <3> QED
      BY <3>2, <3>3
  <2>3. ASSUME z = new PROVE z \in IssuedIn(y)
    BY <1>0, <1>1, <1>3, <2>3
  <2> QED
    BY <2>1, <2>2, <2>3
<1> QED
  BY <1>5 DEF new

\* The terms that Site has led, as its peer knows them.
LEMMA LedFacts ==
    ASSUME ClusterTypes, LeaderInv, Site \in Host, NEW s \in SitePeer!Led
    PROVE  s \in Term /\ Leader[s] = Site /\ s \in Nat /\ s <= peer[Site].term
<1>1. PICK e \in Issued : s = e.term
  BY DEF SitePeer!Led
<1>2. PICK t \in Term : Leader[t] = Site
         /\ \E n \in 1..Len(lead[t].log) : lead[t].log[n].term = t /\ e = Record(lead, t, n)
  BY <1>1, IssuedNow, InIssued
<1>3. s = t /\ Held(t)
  BY <1>1, <1>2, LeadFields DEF Record, Held
<1>4. s \in Nat
  BY <1>3, ConstantFacts
<1>5. peer[Site].term >= t /\ peer[Site].term \in Nat
  BY <1>2, <1>3, PeerFields DEF LeaderInv
<1> QED
  BY <1>2, <1>3, <1>4, <1>5

\* What was executed does not depend on the log above it.
LEMMA ExecutedSame ==
    ASSUME NEW l \in Seq(Entry), NEW m \in Seq(Entry), NEW n \in Nat, NEW c \in Nat,
           n <= c, Agree(l, m, c)
    PROVE  SubSeq(l, 1, n) = SubSeq(m, 1, n)
<1>1. \A i \in 1..n : l[i] = m[i]
  BY DEF Agree
<1>2. SubSeq(l, 1, n) = [i \in 1..n |-> l[i]] /\ SubSeq(m, 1, n) = [i \in 1..n |-> m[i]]
  OBVIOUS
<1> QED
  BY <1>1, <1>2

-----------------------------------------------------------------------------
(***************************************************************************)
(* Steps that the peer of Site does not notice.                            *)
(***************************************************************************)
SiteSame ==
    /\ peer'[Site] = peer[Site] /\ (busy' = Site <=> busy = Site)
    /\ asked' \cap Own = asked \cap Own /\ \A r \in Own : resp'[r] = resp[r]
    /\ \A t \in Term : Leader[t] = Site => lead'[t].log = lead[t].log

LEMMA SiteStutter ==
    ASSUME SiteSame
    PROVE  SitePeer!vars' = SitePeer!vars
<1>1. Ready' <=> Ready
  BY DEF SiteSame, Ready
<1>2. Issued' = Issued
  BY IssuedNow, IssuedNext, IssuedSame DEF SiteSame
<1>3. [r \in Own |-> resp[r]]' = [r \in Own |-> resp[r]]
  BY DEF SiteSame, Own
<1>4. (asked \cap Own)' = asked \cap Own
  BY DEF SiteSame, Own
<1>5. SitePeer!raftVars' = SitePeer!raftVars /\ SitePeer!readyVars' = SitePeer!readyVars
  BY <1>1 DEF SitePeer!raftVars, SitePeer!readyVars, SiteSame
<1>6. SitePeer!kvVars' = SitePeer!kvVars
  BY <1>3 DEF SitePeer!kvVars, SiteSame
<1>7. /\ peer'[Site].alive = peer[Site].alive
      /\ SubSeq(peer[Site].log, 1, peer[Site].cur)' = SubSeq(peer[Site].log, 1, peer[Site].cur)
  BY DEF SiteSame
<1> QED
  BY <1>2, <1>4, <1>5, <1>6, <1>7 DEF SitePeer!vars

-----------------------------------------------------------------------------
(***************************************************************************)
(* RawNode::Step at Site.                                                  *)
(***************************************************************************)
\* Only Raft's part of the peer of Site changes, and nothing that was executed.
SiteRaft ==
    /\ Free(Site) /\ busy' = busy /\ KvSame(Site)
    /\ peer'[Site].proposals = peer[Site].proposals /\ asked' = asked /\ resp' = resp
    /\ Agree(peer'[Site].log, peer[Site].log, peer[Site].committed)

LEMMA SiteFrame ==
    ASSUME Site \in Host, ClusterTypes, ClusterTypes', ClusterBounds, SiteRaft
    PROVE  /\ SitePeer!Idle
           /\ UNCHANGED <<peer[Site].alive, SitePeer!readyVars, SitePeer!kvVars,
                          asked \cap Own, {},
                          SubSeq(peer[Site].log, 1, peer[Site].cur)>>
<1>1. ~Ready /\ ~Ready' /\ peer[Site].alive
  BY ConstantFacts DEF SiteRaft, Ready, Free, KvSame
<1>2. SitePeer!Idle
  BY <1>1 DEF SitePeer!Idle
<1>3. SitePeer!readyVars' = SitePeer!readyVars
  BY <1>1 DEF SitePeer!readyVars, SiteRaft, KvSame
<1>4. [r \in Own |-> resp[r]]' = [r \in Own |-> resp[r]] /\ (asked \cap Own)' = asked \cap Own
  BY DEF SiteRaft, Own
<1>5. SitePeer!kvVars' = SitePeer!kvVars
  BY <1>4 DEF SitePeer!kvVars, SiteRaft, KvSame
<1>6. SubSeq(peer[Site].log, 1, peer[Site].cur)' = SubSeq(peer[Site].log, 1, peer[Site].cur)
  <2>1. PICK l \in Seq(Entry), m \in Seq(Entry) : l = peer'[Site].log /\ m = peer[Site].log
    BY PeerFields, NextFields
  <2>2. PICK n \in Nat, c \in Nat : n = peer[Site].cur /\ c = peer[Site].committed /\ n <= c
    BY PeerFields DEF ClusterBounds
  <2>3. SubSeq(l, 1, n) = SubSeq(m, 1, n) /\ peer'[Site].cur = n
    BY <2>1, <2>2, ExecutedSame DEF SiteRaft, KvSame
  <2> QED
    BY <2>1, <2>2, <2>3
<1> QED
  BY <1>2, <1>3, <1>4, <1>5, <1>6 DEF SiteRaft, KvSame

\* A vote request or another message with a newer term.
LEMMA NewTermAtSite ==
    ASSUME Site \in Host, ClusterTypes, ClusterTypes', ClusterBounds,
           NEW t \in Term, peer[Site].term < t, peer'[Site].term = t,
           ~peer'[Site].isLeader, peer'[Site].committed = peer[Site].committed,
           peer'[Site].log = peer[Site].log, SiteRaft, Issued' = Issued
    PROVE  SitePeer!Step
<1>1. SitePeer!StepNewTerm(t)
  <2>1. peer'[Site].isLeader = FALSE
    BY DEF ClusterTypes, PeerState
  <2>2. peer[Site].term \in Nat /\ t \in Nat
    BY PeerFields, ConstantFacts
  <2> QED
    BY <2>1, <2>2 DEF SitePeer!StepNewTerm
<1> QED
  BY <1>1, SiteFrame DEF SitePeer!Step, Term

\* The last acknowledgement of a majority.
LEMMA CommitAtSite ==
    ASSUME Site \in Host, ClusterTypes, ClusterTypes', ClusterBounds, RaftInv,
           NEW n \in 1..MaxLog, Commit(Site, n)
    PROVE  SitePeer!Step
<1>1. PICK t \in Term : Commits(Site, n, t)
  BY CommitFacts DEF RaftInv
<1>2. /\ peer'[Site].isLeader = peer[Site].isLeader /\ peer'[Site].term = peer[Site].term
      /\ peer'[Site].committed = n /\ peer'[Site].log = peer[Site].log
      /\ peer[Site].isLeader /\ peer[Site].log[n].term = t /\ t = peer[Site].term
      /\ n \in (peer[Site].committed + 1)..Len(peer[Site].log)
  BY <1>1 DEF Commits
<1>3. SiteRaft
  <2>1. /\ Free(Site) /\ busy' = busy /\ KvSame(Site) /\ asked' = asked /\ resp' = resp
        /\ peer'[Site].proposals = peer[Site].proposals
    BY <1>1 DEF Commits
  <2>2. Agree(peer'[Site].log, peer[Site].log, peer[Site].committed)
    BY <1>2, PeerFields DEF ClusterBounds, Agree
  <2> QED
    BY <2>1, <2>2 DEF SiteRaft
<1>4. Issued' = Issued
  <2>1. \A u \in Term : lead'[u].log = lead[u].log
    BY <1>1 DEF Commits
  <2> QED
    BY <2>1, IssuedNow, IssuedNext, IssuedSame
<1>5. SitePeer!StepCommit
  BY <1>2, <1>4 DEF SitePeer!StepCommit, SitePeer!LastIndex
<1> QED
  BY <1>3, <1>5, SiteFrame DEF SitePeer!Step

LEMMA EntryIs ==
    ASSUME NEW e \in Entry
    PROVE  e = [term |-> e.term, data |-> e.data]
BY DEF Entry

\* The majority's votes: Site leads t, and appends an empty entry.
LEMMA ElectedAtSite ==
    ASSUME Site \in Host, ClusterTypes, ClusterTypes', ClusterBounds, RaftInv,
           NEW t \in Term, NEW Q \in SUBSET Host, Elected(t, Q), Leader[t] = Site
    PROVE  SitePeer!Step
<1>1. PICK h \in Host, m \in Seq(Entry), e \in Entry, l \in Seq(Entry) :
        Elects(t, Q, h, m, e, l)
  BY ElectedFacts
<1>2. h = Site
  BY <1>1 DEF Elects
<1>3. /\ m = peer[Site].log /\ l = Append(m, e) /\ e.term = t /\ e.data = NoOp
      /\ peer'[Site].log = l /\ peer'[Site].isLeader /\ ~peer[Site].isLeader
      /\ peer'[Site].committed = peer[Site].committed
      /\ lead'[t].log = l /\ Len(l) <= MaxLog
      /\ peer'[Site].term = t /\ peer[Site].term < t
  BY <1>1, <1>2 DEF Elects
<1>4. /\ t \in Nat /\ peer[Site].term \in Nat /\ Len(m) \in Nat /\ Len(l) = Len(m) + 1
      /\ l[Len(m) + 1] = e /\ \A i \in 1..Len(m) : l[i] = m[i]
  BY <1>3, PeerFields, ConstantFacts, AppendFacts
<1>5. SiteRaft
  <2>1. /\ Free(Site) /\ busy' = busy /\ KvSame(Site) /\ asked' = asked /\ resp' = resp
        /\ peer'[Site].proposals = peer[Site].proposals
    BY <1>1, <1>2 DEF Elects
  <2>2. Agree(peer'[Site].log, peer[Site].log, peer[Site].committed)
    BY ElectedKeeps
  <2> QED
    BY <2>1, <2>2 DEF SiteRaft
<1>6. ASSUME NEW i \in 1..Len(m) PROVE m[i].term < t
  <2>1. m[i].term <= peer[Site].term /\ m[i].term \in Nat
    BY <1>3, EntryOf DEF RaftInv, LogInv, Within
  <2> QED
    BY <1>3, <1>4, <2>1
<1>7. ~Held(t)
  BY <1>3, <1>4 DEF RaftInv, LeaderInv
<1>8. \A n : Owns(lead', t, n) <=> Owns(lead, t, n) \/ n = Len(m) + 1
  <2>1. ASSUME NEW n PROVE ~Owns(lead, t, n)
    BY <1>7 DEF Held, Owns
  <2>2. ASSUME NEW n, Owns(lead', t, n) PROVE n = Len(m) + 1
    <3>1. n \in 1..Len(l) /\ l[n].term = t
      BY <1>3, <2>2 DEF Owns
    <3> QED
      BY <1>4, <1>6, <3>1
  <2>3. Owns(lead', t, Len(m) + 1)
    BY <1>3, <1>4 DEF Owns
  <2> QED
    BY <2>1, <2>2, <2>3
<1>9. Issued' = Issued \cup {[index |-> Len(m) + 1, term |-> t, data |-> NoOp]}
  <2>1. \A u \in Term \ {t} : lead'[u].log = lead[u].log
    BY <1>1 DEF Elects
  <2>2. \A n : Owns(lead, t, n) => lead'[t].log[n] = lead[t].log[n]
    BY <1>7 DEF Held, Owns
  <2>3. lead'[t].log[Len(m) + 1].data = NoOp
    BY <1>3, <1>4
  <2>4. PICK k : k = Len(m) + 1
    OBVIOUS
  <2>5. Adds(lead, lead', t, k, NoOp)
    BY <1>8, <2>1, <2>2, <2>3, <2>4 DEF Adds
  <2>6. IssuedIn(lead') = IssuedIn(lead) \cup {Place(k, t, NoOp)}
    BY <2>5, IssuedAdds
  <2>7. Issued' = Issued \cup {Place(k, t, NoOp)}
    BY <2>6, IssuedNow, IssuedNext
  <2> QED
    BY <2>4, <2>7 DEF Place
<1>10. peer'[Site].isLeader = TRUE
  BY <1>3 DEF ClusterTypes, PeerState
<1>11. \A s \in SitePeer!Led : s < t
  BY <1>3, <1>4, LedFacts DEF RaftInv
<1>12. peer'[Site].log = Append(peer[Site].log, [term |-> t, data |-> NoOp])
  BY <1>3, EntryIs
<1>13. SitePeer!StepElected(t)
  BY <1>3, <1>4, <1>6, <1>9, <1>10, <1>11, <1>12, ConstantFacts
  DEF SitePeer!StepElected, SitePeer!LastIndex, SitePeer!Issue
<1> QED
  BY <1>5, <1>13, SiteFrame DEF SitePeer!Step, Term

\* Where an entry of a leader's log is from: this host issued it, or it is of a
\* term that others led and holds no request of this host's clients.
LEMMA FromLeader ==
    ASSUME Site \in Host, ClusterTypes, ClusterBounds, RaftInv, RequestInv,
           NEW t \in Term, NEW i \in 1..Len(lead[t].log), NEW e, e = lead[t].log[i]
    PROVE  \/ [index |-> i, term |-> e.term, data |-> e.data] \in Issued
           \/ e.term \notin SitePeer!Led /\ e.data \in SitePeer!Foreign \cup {NoOp}
<1>1. PICK l \in Seq(Entry) : l = lead[t].log
  BY LeadFields
<1>2. e \in Entry /\ e.data \in Request \cup {NoOp} /\ i \in Nat
  <2>1. e \in Entry /\ i \in Nat
    BY <1>1, EntryOf
  <2> QED
    BY <2>1 DEF Entry
<1>3. PICK u \in Term : u = e.term
  BY <1>2 DEF Entry
<1>4. Agree(l, lead[u].log, i)
  BY <1>1, <1>3 DEF RaftInv, LogInv, Tied
<1>5. /\ i \in 1..Len(lead[u].log) /\ lead[u].log[i] = e
  BY <1>1, <1>2, <1>4, LeadFields DEF Agree
<1>6. OwnEntry(u, i) /\ i \in 1..MaxLog
  <2>1. Len(lead[u].log) <= MaxLog /\ Len(lead[u].log) \in Nat
    BY LeadFields DEF ClusterBounds
  <2> QED
    BY <1>3, <1>5, <2>1, ConstantFacts DEF OwnEntry
<1>7. CASE Leader[u] = Site
  <2>1. Record(lead, u, i) \in IssuedIn(lead)
    BY <1>3, <1>5, <1>7, InIssued
  <2>2. Record(lead, u, i) = [index |-> i, term |-> e.term, data |-> e.data]
    BY <1>3, <1>5 DEF Record
  <2> QED
    BY <2>1, <2>2, IssuedNow
<1>8. CASE Leader[u] # Site
  <2>1. u \notin SitePeer!Led
    BY <1>8, LedFacts DEF RaftInv
  <2>2. e.data # NoOp => e.data \in Request /\ Home[e.data] # Site
    BY <1>2, <1>5, <1>6, <1>8 DEF RequestInv
  <2>3. e.data \in SitePeer!Foreign \cup {NoOp}
    BY <1>2, <2>2 DEF SitePeer!Foreign, Own
  <2> QED
    BY <1>3, <2>1, <2>3
<1> QED
  BY <1>7, <1>8

\* The log taken over from the leader of t is one that Peer lets us adopt.
LEMMA DeliveredAdoptable ==
    ASSUME Site \in Host, ClusterTypes, ClusterTypes', ClusterBounds, RaftInv, RequestInv,
           NEW t \in Term, NEW n \in 0..MaxLog, NEW c \in 0..MaxLog,
           Deliver(Site, t, n, c), peer'[Site].log # peer[Site].log
    PROVE  peer'[Site].log \in SitePeer!LeaderLogs /\ SitePeer!Adoptable(peer'[Site].log)
<1>1. PICK old \in Seq(Entry), new \in Seq(Entry), ll \in Seq(Entry), d \in Nat :
        /\ old = peer[Site].log /\ new = peer'[Site].log /\ ll = lead[t].log
        /\ d = peer[Site].committed
  BY PeerFields, NextFields, LeadFields
<1>2. /\ ~Agree(old, ll, n) /\ Len(new) = n /\ \A i \in 1..n : new[i] = ll[i]
      /\ n \in 1..Len(ll)
  BY <1>1, DeliverFacts DEF Delivers
<1>3. Agree(new, old, d) /\ RaftInv'
  BY <1>1, DeliverKeeps
<1>4. new \in SitePeer!LeaderLogs
  <2>1. \A i, j \in 1..Len(new) : i <= j => new[i].term <= new[j].term
    BY <1>1, <1>3 DEF RaftInv, LogInv, Rising
  <2>2. \A i, j \in 1..Len(new) : i < j => new[i].term <= new[j].term
    BY <2>1
  <2> QED
    BY <2>2 DEF SitePeer!LeaderLogs
<1>5. Len(new) >= d /\ \A i \in 1..d : new[i] = old[i]
  BY <1>3 DEF Agree
<1>6. Len(new) <= Len(old) => \E i \in 1..Len(new) : new[i] # old[i]
  BY <1>2 DEF Agree
<1>7. ASSUME NEW i \in 1..Len(new)
      PROVE  \/ [index |-> i, term |-> new[i].term, data |-> new[i].data] \in Issued
             \/ new[i].term \notin SitePeer!Led /\ new[i].data \in SitePeer!Foreign \cup {NoOp}
  <2>1. i \in 1..Len(lead[t].log) /\ new[i] = lead[t].log[i]
    BY <1>1, <1>2
  <2> QED
    BY <2>1, FromLeader
<1>8. SitePeer!Adoptable(new)
  BY <1>1, <1>5, <1>6, <1>7 DEF SitePeer!Adoptable
<1> QED
  BY <1>1, <1>4, <1>8

\* A message of the leader of t, which is another host.
LEMMA DeliverAtSite ==
    ASSUME Site \in Host, ClusterTypes, ClusterTypes', ClusterBounds, ClusterBounds',
           RaftInv, RequestInv,
           NEW t \in Term, NEW n \in 0..MaxLog, NEW c \in 0..MaxLog, Deliver(Site, t, n, c)
    PROVE  SitePeer!Step
<1>1. Delivers(Site, t, n, c)
  BY DeliverFacts
<1>2. /\ ~peer'[Site].isLeader /\ peer'[Site].term = t /\ peer[Site].term <= t
      /\ lead' = lead /\ Site # Leader[t]
      /\ peer'[Site].committed = IF c > peer[Site].committed THEN c ELSE peer[Site].committed
  BY <1>1 DEF Delivers
<1>3. /\ Agree(peer'[Site].log, peer[Site].log, peer[Site].committed) /\ RaftInv'
  BY DeliverKeeps
<1>4. SiteRaft
  <2>1. /\ Free(Site) /\ busy' = busy /\ KvSame(Site) /\ asked' = asked /\ resp' = resp
        /\ peer'[Site].proposals = peer[Site].proposals
    BY <1>1 DEF Delivers
  <2> QED
    BY <1>3, <2>1 DEF SiteRaft
<1>5. Issued' = Issued
  BY <1>2, IssuedNow, IssuedNext
<1>6. peer'[Site].isLeader = FALSE
  BY <1>2 DEF ClusterTypes, PeerState
<1>7. t \in Nat /\ peer[Site].term \in Nat /\ peer[Site].committed \in Nat /\ c \in Nat
  BY PeerFields, ConstantFacts
<1>8. t >= SitePeer!LastTerm(peer'[Site].log)
  <2>1. PICK l \in Seq(Entry) : l = peer'[Site].log /\ Len(l) \in Nat
    BY NextFields
  <2>2. Within(l, t)
    BY <1>2, <1>3, <2>1 DEF RaftInv, LogInv, Within
  <2>3. CASE l = << >>
    BY <1>7, <2>1, <2>3 DEF SitePeer!LastTerm
  <2>4. CASE l # << >>
    <3>1. Len(l) \in 1..Len(l)
      BY <2>1, <2>4
    <3>2. l[Len(l)].term <= t /\ l[Len(l)].term \in Nat
      BY <2>2, <3>1, EntryOf DEF Within
    <3> QED
      BY <1>7, <2>1, <2>4, <3>2 DEF SitePeer!LastTerm
  <2> QED
    BY <2>3, <2>4
<1>9. ASSUME NEW s \in SitePeer!Led PROVE s < t
  <2>1. s \in Nat /\ s <= peer[Site].term /\ Leader[s] = Site
    BY LedFacts DEF RaftInv
  <2>2. s # t
    BY <1>2, <2>1
  <2> QED
    BY <1>2, <1>7, <2>1, <2>2
<1>10. peer'[Site].committed \in peer[Site].committed..Len(peer'[Site].log)
  BY <1>2, <1>7, NextFields DEF ClusterBounds
<1>11. \/ peer'[Site].log \in SitePeer!LeaderLogs /\ SitePeer!Adoptable(peer'[Site].log)
       \/ peer'[Site].log = peer[Site].log
  BY DeliveredAdoptable
<1>12. SitePeer!StepAppend
  BY <1>2, <1>5, <1>6, <1>7, <1>8, <1>9, <1>10, <1>11 DEF SitePeer!StepAppend, Term
<1> QED
  BY <1>4, <1>12, SiteFrame DEF SitePeer!Step

-----------------------------------------------------------------------------
(***************************************************************************)
(* KvServiceImpl::KvOpCb at Site.                                          *)
(***************************************************************************)
\* Peer and Cluster speak of the same operators.
LEMMA SameOps ==
    /\ SitePeer!Rejected = Rejected /\ SitePeer!EmptyDb = EmptyDb
    /\ \A db, c : /\ SitePeer!Aborts(db, c) <=> Aborts(db, c)
                  /\ SitePeer!Done(db, c) = Done(db, c)
    /\ \A d : SitePeer!Skips(d) <=> Skips(d)
<1>1. \A d : SitePeer!Skips(d) <=> Skips(d)
  BY DEF SitePeer!Skips, Skips, SitePeer!TypeOf, TypeOf
<1>2. \A db, c : SitePeer!Aborts(db, c) <=> Aborts(db, c)
  BY DEF SitePeer!Aborts, Aborts, SitePeer!GetAborts, GetAborts
<1> QED
  BY <1>1, <1>2 DEF SitePeer!Rejected, Rejected, SitePeer!EmptyDb, EmptyDb,
                    SitePeer!Done, Done

LEMMA SameApply == \A db, c : SitePeer!Apply(db, c) = Apply(db, c)
BY Zenon DEF SitePeer!Apply, Apply

LEMMA SameStaleCount == \A q, i, t : SitePeer!StaleCount(q, i, t) = StaleCount(q, i, t)
BY Zenon DEF SitePeer!StaleCount, StaleCount, SitePeer!Stale, Stale

LEMMA SameLookup ==
    /\ \A q, i, t : SitePeer!GetProposal(q, i, t) = GetProposal(q, i, t)
    /\ \A q : SitePeer!CallbackAll(q) = CallbackAll(q)
<1>1. \A q, i, t : SitePeer!Matches(q, i, t) <=> Matches(q, i, t)
  BY SameStaleCount DEF SitePeer!Matches, Matches
<1>2. \A q, i, t : SitePeer!GetProposal(q, i, t) = GetProposal(q, i, t)
  <2> TAKE q, i, t
  <2>1. PICK n, b :
          /\ n = StaleCount(q, i, t) /\ n = SitePeer!StaleCount(q, i, t)
          /\ b = Matches(q, i, t) /\ b = SitePeer!Matches(q, i, t)
    BY <1>1, SameStaleCount DEF Matches, SitePeer!Matches
  <2>2. GetProposal(q, i, t) =
          [hit      |-> IF b THEN q[n + 1].req ELSE NoReq,
           rejected |-> {q[j].req : j \in 1..n},
           rest     |-> SubSeq(q, IF b THEN n + 2 ELSE n + 1, Len(q))]
    BY <2>1 DEF GetProposal
  <2>3. SitePeer!GetProposal(q, i, t) =
          [hit      |-> IF b THEN q[n + 1].req ELSE NoReq,
           rejected |-> {q[j].req : j \in 1..n},
           rest     |-> SubSeq(q, IF b THEN n + 2 ELSE n + 1, Len(q))]
    BY <2>1 DEF SitePeer!GetProposal
  <2> QED
    BY <2>2, <2>3
<1> QED
  BY <1>2 DEF SitePeer!CallbackAll, CallbackAll

LEMMA SameCardinality == \A S : SitePeer!Cardinality(S) = Cardinality(S)
BY Zenon DEF SitePeer!Cardinality, Cardinality

\* Propose drops nothing that still fits in the log.
LEMMA NotOverloaded ==
    ASSUME Site \in Host, ClusterTypes, Len(peer[Site].log) < MaxLog
    PROVE  ~SitePeer!Overloaded
<1>1. PICK a \in Nat, n \in Nat, l \in Seq(Entry) :
        a = peer[Site].applied /\ n = Len(l) /\ l = peer[Site].log /\ n < MaxLog
  BY PeerFields
<1> DEFINE S == {i \in (a + 1)..n : l[i].term = peer[Site].term /\ l[i].data # NoOp}
<1>2. IsFiniteSet(1..n) /\ Cardinality(1..n) = n
  <2>1. 1 \in Int /\ n \in Int
    OBVIOUS
  <2>2. IsFiniteSet(1..n) /\ Cardinality(1..n) = IF 1 > n THEN 0 ELSE n - 1 + 1
    BY <2>1, FS_Interval
  <2> QED
    BY <2>2
<1>3. S \subseteq 1..n
  BY <1>1
<1>4. IsFiniteSet(S) /\ Cardinality(S) <= n
  BY <1>2, <1>3, FS_Subset
<1>5. Cardinality(S) \in Nat
  BY <1>4, FS_CardinalityType
<1>6. ~(Cardinality(S) >= MaxLog)
  BY <1>1, <1>4, <1>5, ConstantFacts
<1> QED
  BY <1>1, <1>6, SameCardinality DEF SitePeer!Overloaded, SitePeer!LastIndex

LEMMA WaiterIs ==
    ASSUME NEW x \in Waiter
    PROVE  x = [index |-> x.index, term |-> x.term, req |-> x.req]
BY DEF Waiter

LEMMA RejectAtSite ==
    ASSUME Site \in Host, ClusterTypes, NEW r \in Request, Home[r] = Site, KvOpCb(r),
           ~peer[Site].isLeader
    PROVE  SitePeer!KvOpCb(r)
<1>1. /\ peer' = peer /\ lead' = lead /\ busy' = busy
      /\ r \notin asked /\ asked' = asked \cup {r} /\ Free(Site)
      /\ resp' = [resp EXCEPT ![r] = Append(@, Rejected)]
  BY RejectFacts
<1>2. r \in Own /\ Own \subseteq Request
  BY DEF Own
<1>3. SitePeer!Idle
  BY <1>1, ConstantFacts DEF SitePeer!Idle, Ready, Free
<1>4. /\ r \notin asked \cap Own
      /\ (asked \cap Own)' = (asked \cap Own) \cup {r}
  BY <1>1, <1>2 DEF Own
<1>5. [q \in Own |-> resp[q]]' = [[q \in Own |-> resp[q]] EXCEPT ![r] = Append(@, Rejected)]
  <2>1. resp \in [Request -> Seq(Response)]
    BY DEF ClusterTypes
  <2>2. \A q \in Own : resp'[q] = IF q = r THEN Append(resp[q], Rejected) ELSE resp[q]
    BY <1>1, <1>2, <2>1
  <2>3. Own' = Own
    BY DEF Own
  <2> QED
    BY <1>2, <2>2, <2>3
<1>6. Issued' = Issued
  BY <1>1, IssuedNow, IssuedNext
<1>7. SitePeer!readyVars' = SitePeer!readyVars
  BY <1>1 DEF SitePeer!readyVars, Ready
<1>8. SitePeer!RejectNotLeader(r)
  BY <1>1, <1>5, <1>6, SameOps DEF SitePeer!RejectNotLeader
<1> QED
  BY <1>1, <1>3, <1>4, <1>7, <1>8 DEF SitePeer!KvOpCb

LEMMA ProposeAtSite ==
    ASSUME Site \in Host, ClusterTypes, ClusterTypes', ClusterBounds, RaftInv,
           NEW r \in Request, Home[r] = Site, KvOpCb(r), peer[Site].isLeader
    PROVE  SitePeer!KvOpCb(r)
<1>1. PICK h \in Host, t \in Term, m \in Seq(Entry), e \in Entry, l \in Seq(Entry) :
        Proposes(r, h, t, m, e, l)
  BY ProposeFacts DEF RaftInv
<1>2. h = Site
  BY <1>1 DEF Proposes
<1>3. /\ t = peer[Site].term /\ m = peer[Site].log /\ e.term = t /\ e.data = r
      /\ l = Append(m, e) /\ peer'[Site].log = l /\ lead'[t].log = l
      /\ peer'[Site].isLeader = peer[Site].isLeader /\ peer'[Site].term = t
      /\ peer'[Site].committed = peer[Site].committed /\ KvSame(Site)
      /\ r \notin asked /\ asked' = asked \cup {r} /\ busy' = busy /\ resp' = resp
      /\ Free(Site) /\ Len(m) < MaxLog
  BY <1>1, <1>2 DEF Proposes
<1>4. /\ Len(m) \in Nat /\ Len(l) = Len(m) + 1 /\ l[Len(m) + 1] = e
      /\ \A i \in 1..Len(m) : l[i] = m[i]
  BY <1>3, AppendFacts
<1>5. lead[t].log = m /\ Leader[t] = Site
  BY <1>3, LeadersLog
<1>6. r \in Own
  BY DEF Own
<1>7. SitePeer!Idle
  BY <1>3, ConstantFacts DEF SitePeer!Idle, Ready, Free
<1>8. /\ r \notin asked \cap Own
      /\ (asked \cap Own)' = (asked \cap Own) \cup {r}
      /\ [q \in Own |-> resp[q]]' = [q \in Own |-> resp[q]]
  BY <1>3, <1>6 DEF Own
<1>9. Issued' = Issued \cup {[index |-> Len(m) + 1, term |-> t, data |-> r]}
  <2>1. \A u \in Term \ {t} : lead'[u].log = lead[u].log
    BY <1>1 DEF Proposes
  <2>2. \A n : Owns(lead, t, n) => lead'[t].log[n] = lead[t].log[n]
    BY <1>3, <1>4, <1>5 DEF Owns
  <2>3. \A n : Owns(lead', t, n) <=> Owns(lead, t, n) \/ n = Len(m) + 1
    <3>1. \A n : n \in 1..Len(l) <=> n \in 1..Len(m) \/ n = Len(m) + 1
      BY <1>4
    <3> QED
      BY <1>3, <1>4, <1>5, <3>1 DEF Owns
  <2>4. PICK k : k = Len(m) + 1
    OBVIOUS
  <2>5. Adds(lead, lead', t, k, r)
    BY <1>3, <1>4, <2>1, <2>2, <2>3, <2>4 DEF Adds
  <2>6. IssuedIn(lead') = IssuedIn(lead) \cup {Place(k, t, r)}
    BY <1>5, <2>5, IssuedAdds
  <2>7. Issued' = Issued \cup {Place(k, t, r)}
    BY <2>6, IssuedNow, IssuedNext
  <2> QED
    BY <2>4, <2>7 DEF Place
<1>10. peer'[Site].log = Append(peer[Site].log, [term |-> t, data |-> r])
  BY <1>3, EntryIs
<1>11. peer'[Site].proposals =
          Append(peer[Site].proposals, [index |-> Len(m) + 1, term |-> t, req |-> r])
  <2>1. PICK x \in Waiter : /\ x.index = Len(l) /\ x.term = t /\ x.req = r
                            /\ peer'[Site].proposals = Append(peer[Site].proposals, x)
    BY <1>1, <1>2 DEF Proposes
  <2> QED
    BY <1>4, <2>1, WaiterIs
<1>12. SitePeer!readyVars' = SitePeer!readyVars
  <2>1. ~Ready /\ ~Ready'
    BY <1>3, ConstantFacts DEF Ready, Free, KvSame
  <2> QED
    BY <1>3, <2>1 DEF SitePeer!readyVars, KvSame
<1>13. SubSeq(peer[Site].log, 1, peer[Site].cur)' = SubSeq(peer[Site].log, 1, peer[Site].cur)
  <2>1. PICK n \in Nat : n = peer[Site].cur /\ n <= Len(m)
    BY <1>3, <1>4, PeerFields DEF ClusterBounds
  <2>2. Agree(l, m, Len(m))
    BY <1>3, AppendFacts
  <2>3. SubSeq(l, 1, n) = SubSeq(m, 1, n) /\ peer'[Site].cur = n
    BY <1>3, <1>4, <2>1, <2>2, ExecutedSame DEF KvSame
  <2> QED
    BY <1>3, <2>1, <2>3
<1>14. ~SitePeer!Overloaded
  BY <1>3, NotOverloaded
<1>15. SitePeer!ProposeKvOp(r)
  BY <1>3, <1>8, <1>9, <1>10, <1>11, <1>14
  DEF SitePeer!ProposeKvOp, SitePeer!NextProposalIndex, SitePeer!LastIndex, SitePeer!Issue
<1> QED
  BY <1>3, <1>7, <1>8, <1>12, <1>13, <1>15 DEF SitePeer!KvOpCb, KvSame

-----------------------------------------------------------------------------
(***************************************************************************)
(* Peer::Tick and Peer::HandleRaftReady at Site.                           *)
(***************************************************************************)
LEMMA TickAtSite ==
    ASSUME Site \in Host, ClusterTypes, ClusterTypes', ClusterBounds, TurnInv, Tick(Site)
    PROVE  SitePeer!Tick
<1>1. /\ RaftSame(Site) /\ peer'[Site].alive = peer[Site].alive
      /\ peer'[Site].applied = peer[Site].applied /\ peer'[Site].cur = peer[Site].cur
      /\ peer'[Site].kv_db = peer[Site].kv_db
      /\ peer'[Site].proposals = peer[Site].proposals
      /\ lead' = lead /\ asked' = asked /\ resp' = resp /\ Free(Site)
  BY TickFacts
<1> DEFINE has == peer[Site].applied < peer[Site].committed
                  \/ peer[Site].storage # peer[Site].log
<1>2. /\ peer'[Site].storage = peer[Site].log
      /\ busy' = IF has THEN Site ELSE NoHost
      /\ \/ peer'[Site].isLeader = peer[Site].isLeader
         \/ /\ peer[Site].isLeader /\ peer[Site].term < MaxTerm
            /\ peer'[Site].isLeader = FALSE
  <2>1. peer \in [Host -> PeerState] /\ peer[Site] \in PeerState
    BY DEF ClusterTypes
  <2>2. ASSUME NEW b \in BOOLEAN, HandleRaftReady(Site, b)
        PROVE  /\ peer'[Site].storage = peer[Site].log
               /\ busy' = IF has THEN Site ELSE NoHost
               /\ peer'[Site].isLeader = b
    <3>1. peer' = [peer EXCEPT ![Site].isLeader = b, ![Site].storage = peer[Site].log]
      BY <2>2 DEF HandleRaftReady
    <3>2. peer'[Site] = [peer[Site] EXCEPT !.isLeader = b, !.storage = peer[Site].log]
      BY <2>1, <3>1
    <3>3. peer'[Site].storage = peer[Site].log /\ peer'[Site].isLeader = b
      BY <2>1, <3>2 DEF PeerState
    <3>4. busy' = IF has THEN Site ELSE NoHost
      BY <2>2 DEF HandleRaftReady
    <3> QED
      BY <3>3, <3>4
  <2>3. peer[Site].isLeader \in BOOLEAN
    BY PeerFields
  <2>4. CASE HandleRaftReady(Site, peer[Site].isLeader)
    BY <2>2, <2>3, <2>4
  <2>5. CASE peer[Site].isLeader /\ peer[Site].term < MaxTerm /\ HandleRaftReady(Site, FALSE)
    BY <2>2, <2>5
  <2> QED
    BY <2>4, <2>5 DEF Tick
<1>3. SitePeer!HasReady <=> has
  BY DEF SitePeer!HasReady
<1> HIDE DEF has
<1>4. SitePeer!Idle /\ ~Ready /\ Site # NoHost /\ busy = NoHost
  BY <1>1, ConstantFacts DEF SitePeer!Idle, Ready, Free
<1>5. SitePeer!RawTick
  BY <1>2 DEF SitePeer!RawTick
<1>6. peer[Site].cur = peer[Site].applied
  BY <1>1, <1>4 DEF TurnInv, Free
<1>7. SitePeer!HandleRaftReady
  <2>1. CASE ~has
    <3>1. ~Ready'
      BY <1>1, <1>2, <1>4, <2>1 DEF Ready, Free
    <3>2. peer[Site].storage = peer[Site].log
      BY <2>1 DEF has
    <3>3. SitePeer!readyVars' = SitePeer!readyVars
      BY <1>1, <1>2, <1>4, <3>1, <3>2 DEF SitePeer!readyVars
    <3> QED
      BY <1>3, <2>1, <3>3 DEF SitePeer!HandleRaftReady
  <2>2. CASE has
    <3>1. Ready'
      BY <1>2, <2>2 DEF Ready
    <3>2. peer'[Site].committed \in SitePeer!Upto
      <4>1. /\ peer[Site].applied \in Nat /\ peer[Site].committed \in Nat
            /\ peer[Site].applied <= peer[Site].committed
            /\ peer'[Site].committed = peer[Site].committed
        BY <1>1, <1>6, PeerFields DEF ClusterBounds, RaftSame
      <4> QED
        BY <4>1 DEF SitePeer!Upto
    <3> QED
      BY <1>1, <1>2, <1>3, <1>6, <2>2, <3>1, <3>2 DEF SitePeer!HandleRaftReady, RaftSame
  <2> QED
    BY <2>1, <2>2
<1>8. Issued' = Issued
  BY <1>1, IssuedNow, IssuedNext
<1>9. SitePeer!kvVars' = SitePeer!kvVars /\ (asked \cap Own)' = asked \cap Own
  <2>1. [r \in Own |-> resp[r]]' = [r \in Own |-> resp[r]]
    BY <1>1 DEF Own
  <2> QED
    BY <1>1, <2>1 DEF SitePeer!kvVars, Own
<1>10. SubSeq(peer[Site].log, 1, peer[Site].cur)' = SubSeq(peer[Site].log, 1, peer[Site].cur)
  BY <1>1 DEF RaftSame
<1> QED
  BY <1>1, <1>4, <1>5, <1>7, <1>8, <1>9, <1>10 DEF SitePeer!Tick, RaftSame

LEMMA AdvanceAtSite ==
    ASSUME Site \in Host, ClusterTypes, TurnInv, Advance(Site)
    PROVE  SitePeer!Advance
<1>1. /\ RaftSame(Site) /\ peer'[Site].alive = peer[Site].alive
      /\ peer'[Site].applied = peer[Site].cur /\ peer'[Site].cur = peer[Site].cur
      /\ peer'[Site].kv_db = peer[Site].kv_db
      /\ peer'[Site].proposals = peer[Site].proposals
      /\ peer'[Site].storage = peer[Site].storage
      /\ peer'[Site].isLeader = peer[Site].isLeader
      /\ lead' = lead /\ asked' = asked /\ resp' = resp
      /\ busy = Site /\ busy' = NoHost /\ peer[Site].cur = peer[Site].committed
  BY AdvanceFacts
<1>2. Ready /\ ~Ready' /\ peer[Site].alive
  BY <1>1, ConstantFacts DEF Ready, TurnInv
<1>3. Issued' = Issued
  BY <1>1, IssuedNow, IssuedNext
<1>4. SitePeer!kvVars' = SitePeer!kvVars /\ (asked \cap Own)' = asked \cap Own
  <2>1. [r \in Own |-> resp[r]]' = [r \in Own |-> resp[r]]
    BY <1>1 DEF Own
  <2> QED
    BY <1>1, <2>1 DEF SitePeer!kvVars, Own
<1>5. SubSeq(peer[Site].log, 1, peer[Site].cur)' = SubSeq(peer[Site].log, 1, peer[Site].cur)
  BY <1>1 DEF RaftSame
<1>6. SitePeer!raftVars' = SitePeer!raftVars
  BY <1>1 DEF SitePeer!raftVars, RaftSame
<1> QED
  BY <1>1, <1>2, <1>3, <1>4, <1>5, <1>6 DEF SitePeer!Advance

\* The answers to this host's clients.
LEMMA RefusesAtSite ==
    ASSUME NEW g, Refuses(g), NEW e
    PROVE  [r \in Own |-> resp[r]]' = SitePeer!Answer(g.rejected, NoReq, e)
<1>1. Own \subseteq Request /\ Own' = Own
  BY DEF Own
<1>2. ASSUME NEW r \in Own
      PROVE  resp'[r] = IF r \in g.rejected THEN Append(resp[r], Rejected)
                        ELSE IF r = NoReq
                             THEN Append(resp[r], Done(peer[Site].kv_db, Cmd[e.data]))
                        ELSE resp[r]
  <2>1. r \in Request /\ r # NoReq
    BY <1>1, ConstantFacts
  <2> QED
    BY <2>1 DEF Refuses
<1> QED
  BY <1>1, <1>2, SameOps DEF SitePeer!Answer

LEMMA RepliesAtSite ==
    ASSUME NEW g, NEW e, Replies(g, peer[Site].kv_db, e.data)
    PROVE  [r \in Own |-> resp[r]]' = SitePeer!Answer(g.rejected, g.hit, e)
<1>1. Own \subseteq Request /\ Own' = Own
  BY DEF Own
<1>2. ASSUME NEW r \in Own
      PROVE  resp'[r] = IF r \in g.rejected THEN Append(resp[r], Rejected)
                        ELSE IF r = g.hit
                             THEN Append(resp[r], Done(peer[Site].kv_db, Cmd[e.data]))
                        ELSE resp[r]
  <2>1. r \in Request
    BY <1>1
  <2> QED
    BY <2>1 DEF Replies
<1> QED
  BY <1>1, <1>2, SameOps DEF SitePeer!Answer

LEMMA ExecutedAppend ==
    ASSUME NEW l \in Seq(Entry), NEW n \in Nat, n + 1 \in 1..Len(l)
    PROVE  SubSeq(l, 1, n + 1) = Append(SubSeq(l, 1, n), l[n + 1])
<1>1. /\ SubSeq(l, 1, n) = [i \in 1..n |-> l[i]]
      /\ SubSeq(l, 1, n + 1) = [i \in 1..(n + 1) |-> l[i]]
  OBVIOUS
<1>2. SubSeq(l, 1, n) \in Seq(Entry) /\ Len(SubSeq(l, 1, n)) = n
  OBVIOUS
<1>3. Append(SubSeq(l, 1, n), l[n + 1]) =
        [i \in 1..(n + 1) |-> IF i = n + 1 THEN l[n + 1] ELSE SubSeq(l, 1, n)[i]]
  BY <1>2
<1>4. \A i \in 1..(n + 1) : l[i] = IF i = n + 1 THEN l[n + 1] ELSE SubSeq(l, 1, n)[i]
  BY <1>1
<1> QED
  BY <1>1, <1>3, <1>4

LEMMA ProcessAtSite ==
    ASSUME Site \in Host, ClusterTypes, ClusterBounds, TurnInv, ProcessEntry(Site)
    PROVE  SitePeer!ProcessEntry
<1> DEFINE p == peer[Site]
           e == p.log[p.cur + 1]
           g == Lookup(p, p.cur + 1, e.term)
<1>0. p = peer[Site] /\ e = p.log[p.cur + 1] /\ g = Lookup(p, p.cur + 1, e.term)
  OBVIOUS
<1> HIDE DEF p, e, g
<1>1. /\ RaftSame(Site) /\ peer'[Site].applied = p.applied /\ peer'[Site].storage = p.storage
      /\ peer'[Site].isLeader = p.isLeader /\ peer'[Site].proposals = g.rest
      /\ lead' = lead /\ asked' = asked /\ busy = Site /\ p.cur < p.committed
      /\ p.cur + 1 \in 1..Len(p.log) /\ e \in Entry
  BY <1>0, ProcessFacts
<1>2. \/ /\ e.data \in Request /\ ~Skips(e.data) /\ Aborts(p.kv_db, Cmd[e.data])
         /\ ~peer'[Site].alive /\ peer'[Site].cur = p.cur /\ peer'[Site].kv_db = p.kv_db
         /\ Refuses(g)
      \/ /\ Skips(e.data)
         /\ peer'[Site].alive /\ busy' = Site
         /\ peer'[Site].cur = p.cur + 1 /\ peer'[Site].kv_db = p.kv_db
         /\ Refuses(g)
      \/ /\ e.data \in Request /\ ~Skips(e.data) /\ ~Aborts(p.kv_db, Cmd[e.data])
         /\ peer'[Site].alive /\ busy' = Site
         /\ peer'[Site].cur = p.cur + 1 /\ peer'[Site].kv_db = Apply(p.kv_db, Cmd[e.data])
         /\ Replies(g, p.kv_db, e.data)
  BY <1>0, ProcessFacts
<1>3. Ready /\ Ready' /\ p.alive
  BY <1>0, <1>1, <1>2 DEF Ready, TurnInv
<1>4. g = SitePeer!Lookup(p.cur + 1, e.term)
  BY <1>0, SameLookup DEF SitePeer!Lookup, Lookup
<1>5. Issued' = Issued /\ (asked \cap Own)' = asked \cap Own
  BY <1>1, IssuedNow, IssuedNext DEF Own
<1>6. ASSUME peer'[Site].cur = p.cur + 1
      PROVE  SubSeq(peer[Site].log, 1, peer[Site].cur)'
                = Append(SubSeq(peer[Site].log, 1, peer[Site].cur), e)
  <2>1. PICK l \in Seq(Entry), n \in Nat : l = p.log /\ n = p.cur
    BY <1>0, PeerFields
  <2>2. SubSeq(l, 1, n + 1) = Append(SubSeq(l, 1, n), l[n + 1])
    BY <1>1, <2>1, ExecutedAppend
  <2>3. peer'[Site].log = l /\ peer'[Site].cur = n + 1
    BY <1>0, <1>1, <1>6, <2>1 DEF RaftSame
  <2> QED
    BY <1>0, <2>1, <2>2, <2>3
<1>7. peer'[Site].alive \in BOOLEAN /\ p.alive = TRUE
  BY <1>0, <1>3, PeerFields, ProcessFacts DEF PeerState
<1>8. SitePeer!ProcessNormal(e, g)
  <2>1. CASE /\ e.data \in Request /\ ~Skips(e.data) /\ Aborts(p.kv_db, Cmd[e.data])
             /\ ~peer'[Site].alive /\ peer'[Site].cur = p.cur /\ peer'[Site].kv_db = p.kv_db
             /\ Refuses(g)
    <3>1. [r \in Own |-> resp[r]]' = SitePeer!Answer(g.rejected, NoReq, e)
      BY <2>1, RefusesAtSite
    <3>2. peer'[Site].alive = FALSE
      BY <1>7, <2>1
    <3>3. SubSeq(peer[Site].log, 1, peer[Site].cur)' = SubSeq(peer[Site].log, 1, peer[Site].cur)
      BY <1>0, <1>1, <2>1 DEF RaftSame
    <3> QED
      BY <1>0, <2>1, <3>1, <3>2, <3>3, SameOps DEF SitePeer!ProcessNormal
  <2>2. CASE /\ Skips(e.data)
             /\ peer'[Site].alive /\ busy' = Site
             /\ peer'[Site].cur = p.cur + 1 /\ peer'[Site].kv_db = p.kv_db
             /\ Refuses(g)
    <3>1. [r \in Own |-> resp[r]]' = SitePeer!Answer(g.rejected, NoReq, e)
      BY <2>2, RefusesAtSite
    <3>2. peer'[Site].alive = p.alive
      BY <1>7, <2>2
    <3> QED
      BY <1>0, <1>6, <2>2, <3>1, <3>2, SameOps DEF SitePeer!ProcessNormal
  <2>3. CASE /\ e.data \in Request /\ ~Skips(e.data) /\ ~Aborts(p.kv_db, Cmd[e.data])
             /\ peer'[Site].alive /\ busy' = Site
             /\ peer'[Site].cur = p.cur + 1 /\ peer'[Site].kv_db = Apply(p.kv_db, Cmd[e.data])
             /\ Replies(g, p.kv_db, e.data)
    <3>1. peer'[Site].alive = p.alive
      BY <1>7, <2>3
    <3>2. [r \in Own |-> resp[r]]' = SitePeer!Answer(g.rejected, g.hit, e)
      <4>1. Replies(g, peer[Site].kv_db, e.data)
        BY <1>0, <2>3
      <4> QED
        BY <4>1, RepliesAtSite
    <3> QED
      <4>1. ~SitePeer!Skips(e.data) /\ ~SitePeer!Aborts(peer[Site].kv_db, Cmd[e.data])
        BY <1>0, <2>3, SameOps
      <4>2. peer'[Site].kv_db = SitePeer!Apply(peer[Site].kv_db, Cmd[e.data])
        BY <1>0, <2>3, SameApply
      <4> QED
        BY <1>0, <1>6, <2>3, <3>1, <3>2, <4>1, <4>2 DEF SitePeer!ProcessNormal
  <2> QED
    BY <1>2, <2>1, <2>2, <2>3
<1>9. SitePeer!raftVars' = SitePeer!raftVars
  BY <1>0, <1>1 DEF SitePeer!raftVars, RaftSame
<1>10. SitePeer!ProcessNormal(peer[Site].log[peer[Site].cur + 1],
          SitePeer!Lookup(peer[Site].cur + 1, peer[Site].log[peer[Site].cur + 1].term))
  BY <1>0, <1>4, <1>8, Zenon DEF SitePeer!ProcessNormal
<1>11. peer'[Site].proposals =
          SitePeer!Lookup(peer[Site].cur + 1, peer[Site].log[peer[Site].cur + 1].term).rest
  BY <1>0, <1>1, <1>4
<1>12. /\ peer[Site].alive /\ peer[Site].cur < peer[Site].committed
       /\ peer'[Site].applied = peer[Site].applied
       /\ peer'[Site].storage = peer[Site].storage
       /\ peer'[Site].committed = peer[Site].committed
  BY <1>0, <1>1, <1>3 DEF RaftSame
<1> QED
  BY <1>3, <1>5, <1>9, <1>10, <1>11, <1>12 DEF SitePeer!ProcessEntry

-----------------------------------------------------------------------------
(***************************************************************************)
(* Steps of the other hosts.                                               *)
(***************************************************************************)
\* A request that another host is sent.
LEMMA RequestElsewhere ==
    ASSUME Site \in Host, ClusterTypes, RaftInv, NEW r \in Request, Home[r] # Site, KvOpCb(r)
    PROVE  SiteSame
<1>1. r \notin Own /\ Own \subseteq Request
  BY DEF Own
<1>2. CASE ~peer[Home[r]].isLeader
  <2>1. /\ peer' = peer /\ lead' = lead /\ busy' = busy /\ asked' = asked \cup {r}
        /\ resp' = [resp EXCEPT ![r] = Append(@, Rejected)]
    BY <1>2, RejectFacts
  <2>2. resp \in [Request -> Seq(Response)]
    BY DEF ClusterTypes
  <2>3. \A q \in Own : resp'[q] = resp[q]
    BY <1>1, <2>1, <2>2
  <2> QED
    BY <1>1, <2>1, <2>3 DEF SiteSame
<1>3. CASE peer[Home[r]].isLeader
  <2>1. PICK h \in Host, t \in Term, m \in Seq(Entry), e \in Entry, l \in Seq(Entry) :
          Proposes(r, h, t, m, e, l)
    BY <1>3, ProposeFacts DEF RaftInv
  <2>2. /\ h = Home[r] /\ t = peer[h].term /\ Only(h) /\ busy' = busy /\ resp' = resp
        /\ asked' = asked \cup {r} /\ \A u \in Term \ {t} : lead'[u] = lead[u]
    BY <2>1 DEF Proposes
  <2>3. Leader[t] = h
    BY <1>3, <2>2, LeadersLog
  <2>4. \A u \in Term : Leader[u] = Site => lead'[u].log = lead[u].log
    BY <2>2, <2>3
  <2>5. peer'[Site] = peer[Site]
    BY <2>2 DEF Only
  <2> QED
    BY <1>1, <2>2, <2>4, <2>5 DEF SiteSame
<1> QED
  BY <1>2, <1>3

\* A term that another host wins, with the vote of Site or without it.
LEMMA ElectedElsewhere ==
    ASSUME Site \in Host, ClusterTypes, ClusterTypes', ClusterBounds, RaftInv,
           NEW t \in Term, NEW Q \in SUBSET Host, Elected(t, Q), Leader[t] # Site
    PROVE  SitePeer!Step \/ SiteSame
<1>1. PICK h \in Host, m \in Seq(Entry), e \in Entry, l \in Seq(Entry) :
        Elects(t, Q, h, m, e, l)
  BY ElectedFacts
<1>2. /\ h = Leader[t] /\ busy' = busy /\ asked' = asked /\ resp' = resp /\ Free(h)
      /\ \A u \in Term \ {t} : lead'[u] = lead[u]
      /\ \A q \in Host \ Q : peer'[q] = peer[q]
  BY <1>1 DEF Elects
<1>3. \A u \in Term : Leader[u] = Site => lead'[u].log = lead[u].log
  BY <1>2
<1>4. CASE Site \in Q
  <2>1. /\ peer'[Site].term = t /\ peer[Site].term < t /\ ~peer'[Site].isLeader
        /\ peer'[Site].log = peer[Site].log /\ KvSame(Site)
        /\ peer'[Site].committed = peer[Site].committed
        /\ peer'[Site].proposals = peer[Site].proposals
    BY <1>1, <1>2, <1>4 DEF Elects
  <2>2. Issued' = Issued
    BY <1>3, IssuedNow, IssuedNext, IssuedSame
  <2>3. Free(Site)
    <3>1. peer[Site].alive
      BY <1>4 DEF Elected
    <3> QED
      BY <1>2, <3>1 DEF Free
  <2>4. SiteRaft
    BY <1>2, <2>1, <2>3, ElectedKeeps DEF SiteRaft
  <2> QED
    BY <2>1, <2>2, <2>4, NewTermAtSite
<1>5. CASE Site \notin Q
  <2>1. peer'[Site] = peer[Site]
    BY <1>2, <1>5
  <2> QED
    BY <1>2, <1>3, <2>1 DEF SiteSame
<1> QED
  BY <1>4, <1>5

\* What another host does by itself, answering nobody.
LEMMA ElsewhereSame ==
    ASSUME Site \in Host, NEW h \in Host, h # Site, Only(h),
           busy \in {h, NoHost}, busy' \in {h, NoHost}, asked' = asked, resp' = resp,
           \A u \in Term : lead'[u].log = lead[u].log
    PROVE  SiteSame
<1>1. peer'[Site] = peer[Site]
  BY DEF Only
<1> QED
  BY <1>1, ConstantFacts DEF SiteSame

\* The requests that wait at another host are not of this one's clients.
LEMMA WaitsElsewhere ==
    ASSUME Site \in Host, ClusterTypes, ClusterBounds, RequestInv, WaitInv,
           NEW h \in Host, h # Site, NEW i \in 1..Len(peer[h].proposals)
    PROVE  peer[h].proposals[i].req \notin Own
<1>1. PICK x \in Waiter : x = peer[h].proposals[i]
  BY WaiterOf
<1>2. WaitsFor(h, x)
  BY <1>1 DEF WaitInv
<1>3. x.term \in Term /\ x.req \in Request
  BY DEF Waiter
<1>4. /\ Leader[x.term] = h /\ OwnEntry(x.term, x.index)
      /\ lead[x.term].log[x.index].data = x.req
  BY <1>2 DEF WaitsFor
<1>5. x.index \in 1..MaxLog
  <2>1. x.index \in 1..Len(lead[x.term].log)
    BY <1>4 DEF OwnEntry
  <2>2. Len(lead[x.term].log) <= MaxLog /\ Len(lead[x.term].log) \in Nat
    BY <1>3, LeadFields DEF ClusterBounds
  <2> QED
    BY <2>1, <2>2, ConstantFacts
<1>6. Home[x.req] = h
  BY <1>3, <1>4, <1>5, ConstantFacts DEF RequestInv
<1> QED
  BY <1>1, <1>6 DEF Own

LEMMA ProcessElsewhere ==
    ASSUME Site \in Host, ClusterTypes, ClusterBounds, RequestInv, WaitInv,
           NEW h \in Host, h # Site, ProcessEntry(h)
    PROVE  SiteSame
<1>1. Only(h) /\ lead' = lead /\ asked' = asked /\ busy = h /\ busy' \in {h, NoHost}
  BY ProcessFacts
<1>2. PICK q \in Seq(Waiter) : q = peer[h].proposals
  BY PeerFields
<1>3. PICK n \in 0..Len(q), m \in 0..Len(q) : Answers(h, q, n, m)
  BY <1>2, AnswerFacts
<1>4. ASSUME NEW r \in Own PROVE resp'[r] = resp[r]
  <2>1. r \in Request
    BY DEF Own
  <2>2. \A j \in 1..Len(q) : q[j].req # r
    BY <1>2, WaitsElsewhere
  <2>3. n <= Len(q) /\ (m = n + 1 => m \in 1..Len(q)) /\ n \in Nat /\ Len(q) \in Nat
    OBVIOUS
  <2>4. \A j \in 1..n : q[j].req # r
    BY <2>2, <2>3
  <2>5. \/ resp'[r] = resp[r]
        \/ m = n + 1 /\ r = q[m].req
    BY <1>3, <2>1, <2>4 DEF Answers
  <2> QED
    BY <2>2, <2>3, <2>5
<1>5. peer'[Site] = peer[Site]
  BY <1>1 DEF Only
<1> QED
  BY <1>1, <1>4, <1>5, ConstantFacts DEF SiteSame

-----------------------------------------------------------------------------
LEMMA PeerInit ==
    ASSUME Site \in Host, Init
    PROVE  SitePeer!Init
<1>1. /\ peer[Site].alive = TRUE /\ peer[Site].isLeader = FALSE /\ peer[Site].term = 0
      /\ peer[Site].log = << >> /\ peer[Site].committed = 0 /\ peer[Site].applied = 0
      /\ peer[Site].cur = 0 /\ peer[Site].storage = << >> /\ peer[Site].proposals = << >>
      /\ peer[Site].kv_db = EmptyDb
  BY DEF Init
<1>2. ~Ready
  BY <1>1, ConstantFacts DEF Init, Ready
<1>3. [r \in Own |-> resp[r]] = [r \in Own |-> << >>]
  BY DEF Init, Own
<1>4. Issued = {}
  <2>1. \A t \in Term : lead[t].log = << >>
    BY DEF Init
  <2>2. \A t \in Term : \A n \in 1..Len(lead[t].log) : FALSE
    BY <2>1
  <2>3. ASSUME NEW x PROVE x \notin IssuedIn(lead)
    BY <2>2, InIssued
  <2> QED
    BY <2>3, IssuedNow
<1>5. SubSeq(peer[Site].log, 1, peer[Site].cur) = << >>
  <2>1. SubSeq(<< >>, 1, 0) = << >>
    OBVIOUS
  <2> QED
    BY <1>1, <2>1
<1>6. asked \cap Own = {}
  BY DEF Init
<1> QED
  BY <1>1, <1>2, <1>3, <1>4, <1>5, <1>6, SameOps DEF SitePeer!Init

\* Every step of the group is a step of Peer at Site, or none.
LEMMA PeerStep ==
    ASSUME Site \in Host, ClusterInv, ClusterInv', ClientInv, TurnInv, [Next]_vars
    PROVE  SitePeer!Next \/ SiteSame
<1>0. /\ ClusterTypes /\ ClusterTypes' /\ ClusterBounds /\ ClusterBounds'
      /\ RaftInv /\ LeaderInv /\ RequestInv /\ WaitInv
  BY DEF ClusterInv, ClusterTypeOK, RaftInv, ClientInv
<1>1. ASSUME NEW r \in Request, KvOpCb(r) PROVE SitePeer!Next \/ SiteSame
  <2>1. CASE Home[r] = Site
    <3>1. r \in Own
      BY <2>1 DEF Own
    <3>2. SitePeer!KvOpCb(r)
      BY <1>0, <1>1, <2>1, RejectAtSite, ProposeAtSite
    <3> QED
      BY <3>1, <3>2 DEF SitePeer!Next
  <2>2. CASE Home[r] # Site
    BY <1>0, <1>1, <2>2, RequestElsewhere
  <2> QED
    BY <2>1, <2>2
<1>2. ASSUME NEW t \in Term, NEW Q \in SUBSET Host, Elected(t, Q)
      PROVE  SitePeer!Next \/ SiteSame
  <2>1. SitePeer!Step \/ SiteSame
    BY <1>0, <1>2, ElectedAtSite, ElectedElsewhere
  <2> QED
    BY <2>1 DEF SitePeer!Next
<1>3. ASSUME NEW h \in Host, NEW t \in Term, NewTerm(h, t)
      PROVE  SitePeer!Next \/ SiteSame
  <2>1. /\ Only(h) /\ KvSame(h) /\ ~peer'[h].isLeader /\ peer'[h].term = t
        /\ peer[h].term < t /\ peer'[h].committed = peer[h].committed
        /\ peer'[h].log = peer[h].log /\ peer'[h].proposals = peer[h].proposals
        /\ lead' = lead /\ busy' = busy /\ asked' = asked /\ resp' = resp /\ Free(h)
    BY <1>0, <1>3, NewTermFacts
  <2>2. CASE h = Site
    <3>1. Agree(peer'[Site].log, peer[Site].log, peer[Site].committed)
      BY <1>0, <2>1, <2>2, PeerFields DEF ClusterBounds, Agree
    <3>2. SiteRaft
      BY <2>1, <2>2, <3>1 DEF SiteRaft
    <3>3. Issued' = Issued
      BY <2>1, IssuedNow, IssuedNext
    <3>4. SitePeer!Step
      BY <1>0, <2>1, <2>2, <3>2, <3>3, NewTermAtSite
    <3> QED
      BY <3>4 DEF SitePeer!Next
  <2>3. CASE h # Site
    BY <2>1, <2>3, ElsewhereSame DEF Free
  <2> QED
    BY <2>2, <2>3
<1>4. ASSUME NEW h \in Host, NEW t \in Term, NEW n \in 0..MaxLog, NEW c \in 0..MaxLog,
             Deliver(h, t, n, c)
      PROVE  SitePeer!Next \/ SiteSame
  <2>1. CASE h = Site
    BY <1>0, <1>4, <2>1, DeliverAtSite DEF SitePeer!Next
  <2>2. CASE h # Site
    <3>1. /\ Only(h) /\ lead' = lead /\ busy' = busy /\ asked' = asked /\ resp' = resp
          /\ Free(h)
      BY <1>0, <1>4, DeliverFacts DEF Delivers
    <3> QED
      BY <2>2, <3>1, ElsewhereSame DEF Free
  <2> QED
    BY <2>1, <2>2
<1>5. ASSUME NEW h \in Host, NEW n \in 1..MaxLog, Commit(h, n)
      PROVE  SitePeer!Next \/ SiteSame
  <2>1. CASE h = Site
    BY <1>0, <1>5, <2>1, CommitAtSite DEF SitePeer!Next
  <2>2. CASE h # Site
    <3>1. PICK t \in Term : Commits(h, n, t)
      BY <1>0, <1>5, CommitFacts
    <3>2. /\ Only(h) /\ busy' = busy /\ asked' = asked /\ resp' = resp /\ Free(h)
          /\ \A u \in Term : lead'[u].log = lead[u].log
      BY <3>1 DEF Commits
    <3> QED
      BY <2>2, <3>2, ElsewhereSame DEF Free
  <2> QED
    BY <2>1, <2>2
<1>6. ASSUME NEW h \in Host, Tick(h) PROVE SitePeer!Next \/ SiteSame
  <2>1. CASE h = Site
    BY <1>0, <1>6, <2>1, TickAtSite DEF SitePeer!Next
  <2>2. CASE h # Site
    <3>1. /\ Only(h) /\ lead' = lead /\ asked' = asked /\ resp' = resp
          /\ busy' \in {h, NoHost} /\ Free(h)
      BY <1>0, <1>6, TickFacts
    <3> QED
      BY <2>2, <3>1, ElsewhereSame DEF Free
  <2> QED
    BY <2>1, <2>2
<1>7. ASSUME NEW h \in Host, ProcessEntry(h) PROVE SitePeer!Next \/ SiteSame
  <2>1. CASE h = Site
    BY <1>0, <1>7, <2>1, ProcessAtSite DEF SitePeer!Next
  <2>2. CASE h # Site
    BY <1>0, <1>7, <2>2, ProcessElsewhere
  <2> QED
    BY <2>1, <2>2
<1>8. ASSUME NEW h \in Host, Advance(h) PROVE SitePeer!Next \/ SiteSame
  <2>1. CASE h = Site
    BY <1>0, <1>8, <2>1, AdvanceAtSite DEF SitePeer!Next
  <2>2. CASE h # Site
    <3>1. /\ Only(h) /\ lead' = lead /\ asked' = asked /\ resp' = resp
          /\ busy = h /\ busy' = NoHost
      BY <1>0, <1>8, AdvanceFacts
    <3> QED
      BY <2>2, <3>1, ElsewhereSame
  <2> QED
    BY <2>1, <2>2
<1>9. CASE UNCHANGED vars
  BY <1>9 DEF vars, SiteSame
<1> QED
  BY <1>1, <1>2, <1>3, <1>4, <1>5, <1>6, <1>7, <1>8, <1>9 DEF Next

\* Whatever the group goes through, the peer of each host only takes steps that
\* Peer allows: the contract under which Peer::Step, Tick and KvOpCb were shown
\* correct (committed entries stay, a term has one leader, a leader's log holds
\* only what it issued) is kept by RawNodes that vote, replicate and commit.
THEOREM ClusterIsPeer ==
    ASSUME Site \in Host
    PROVE  Spec => ImplementsPeer
<1> DEFINE Inv == ClusterInv /\ ClientInv /\ TurnInv
<1>1. Inv /\ Inv' /\ [Next]_vars => [SitePeer!Next]_(SitePeer!vars)
  BY PeerStep, SiteStutter
<1>2. Spec => []Inv
  BY ClusterInvariance, ClientInvariance, TurnInvariance, PTL
<1>3. Init => SitePeer!Init
  BY PeerInit
<1> HIDE DEF Inv
<1> QED
  BY <1>1, <1>2, <1>3, PTL DEF Spec, ImplementsPeer, SitePeer!Spec
=============================================================================
