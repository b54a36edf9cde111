--------------------------- MODULE PeerHostProofs ---------------------------
(***************************************************************************)
(* Messages arrive, for any number of servers and any command lines.       *)
(***************************************************************************)
EXTENDS PeerHost, TLAPS

Listed(p) == InitGroupMembers(flags[p].members)

Built == {"built", "ticking", "serving"}

\* What main has filled in by each of its stages.
TablesInv ==
    \A p \in Proc :
        /\ stage[p] \in {"off", "checked"} => local_peers[p] = {} /\ peers[p] = {}
        /\ stage[p] \in Built => flags[p].peer_id \in local_peers[p]
                                 /\ peers[p] = Listed(p)
        /\ peers[p] \subseteq Listed(p)
        /\ local_peers[p] \subseteq {flags[p].peer_id}

\* A message, and what was heard, comes from a process whose own members name
\* the addressee.
Names(h, host, peer) ==
    \E q \in Proc : /\ flags[q].host_id = h
                    /\ \E n \in Listed(q) : n.host_id = host /\ n.peer_id = peer
SentInv == \A m \in net : Names(m.from, m.to_host, m.to_peer)

\* Clients lead to the host they are kept for, messages are on their way to
\* the member they are for, and only members are heard of.
RoutesInv ==
    \A p \in Proc :
        /\ \A c \in rpc_cli_mgr[p] :
              /\ flags[c.proc].host_id = c.host_id
        /\ \A m \in net : /\ m.to_host = flags[m.at].host_id
                          /\ m.to_peer = flags[m.at].peer_id
                          /\ \E n \in Listed(p) : n.host_id = m.from
        /\ \A h \in heard[p] : \E n \in Listed(p) : n.host_id = h

HostInv ==
    /\ HostTypeOK
    /\ TablesInv
    /\ SentInv
    /\ SteppedByAddressee
    /\ UnknownIsForeign
    /\ Consistent => RoutesInv
    /\ MessagesArrive

-----------------------------------------------------------------------------
LEMMA HostInit == Init => HostInv
<1> SUFFICES ASSUME Init PROVE HostInv
  OBVIOUS
<1>1. HostTypeOK
  BY DEF Init, HostTypeOK, Cause
<1>2. TablesInv
  BY DEF Init, TablesInv, Built
<1>3. RoutesInv
  BY DEF Init, RoutesInv
<1>4. MessagesArrive
  BY DEF Init, MessagesArrive
<1>5. SentInv /\ SteppedByAddressee /\ UnknownIsForeign
  BY DEF Init, SentInv, SteppedByAddressee, UnknownIsForeign
<1> QED
  BY <1>1, <1>2, <1>3, <1>4, <1>5 DEF HostInv

\* The members a process has are members by their records.
LEMMA ListedType ==
    ASSUME HostTypeOK, NEW p \in Proc, MembersOk(flags[p].members)
    PROVE  /\ Listed(p) \subseteq Member
           /\ \A m, n \in Listed(p) : m.host_id = n.host_id => m = n
<1>1. flags[p] \in Flags
  BY SetupsAssumption DEF HostTypeOK
<1>2. flags[p].members \in Seq(Member \cup {BadMember})
  BY <1>1 DEF Flags
<1>3. \A i \in 1..Len(flags[p].members) : flags[p].members[i] \in Member
  BY <1>2 DEF MembersOk
<1> QED
  BY <1>3 DEF Listed, InitGroupMembers, MembersOk

\* MemberOf finds the member with a host id, if there is one.
LEMMA MemberOfFact ==
    ASSUME NEW p \in Proc, NEW h, \E m \in peers[p] : m.host_id = h
    PROVE  MemberOf(p, h) \in peers[p] /\ MemberOf(p, h).host_id = h
BY DEF MemberOf

\* Fatal keeps the types.
LEMMA FatalType ==
    ASSUME HostTypeOK, NEW p \in Proc, NEW why \in Cause \ {"none"}, Fatal(p, why)
    PROVE  /\ stage' \in [Proc -> {"off", "checked", "built", "ticking", "serving", "dead"}]
           /\ cause' \in [Proc -> Cause]
           /\ \A q \in Proc : stage'[q] = "dead" <=> cause'[q] # "none"
           /\ listening' \subseteq {q \in Proc : stage'[q] = "serving"}
<1>1. stage' = [stage EXCEPT ![p] = "dead"] /\ cause' = [cause EXCEPT ![p] = why]
  BY DEF Fatal
<1>2. why # "none" /\ why \in Cause
  OBVIOUS
<1>3. \A q \in Proc : /\ stage'[q] = IF q = p THEN "dead" ELSE stage[q]
                      /\ cause'[q] = IF q = p THEN why ELSE cause[q]
  BY <1>1 DEF HostTypeOK
<1> QED
  BY <1>1, <1>2, <1>3 DEF Fatal, HostTypeOK

\* And so does main's progress.
LEMMA GotoType ==
    ASSUME HostTypeOK, NEW p \in Proc,
           NEW from \in {"off", "checked", "built", "ticking"},
           NEW to \in {"checked", "built", "ticking", "serving"}, Goto(p, from, to)
    PROVE  /\ stage' \in [Proc -> {"off", "checked", "built", "ticking", "serving", "dead"}]
           /\ cause' \in [Proc -> Cause]
           /\ \A q \in Proc : stage'[q] = "dead" <=> cause'[q] # "none"
           /\ listening \subseteq {q \in Proc : stage'[q] = "serving"}
<1>1. stage' = [stage EXCEPT ![p] = to] /\ cause' = cause /\ stage[p] = from
  BY DEF Goto
<1>2. \A q \in Proc : stage'[q] = IF q = p THEN to ELSE stage[q]
  BY <1>1 DEF HostTypeOK
<1>3. to # "dead" /\ from # "dead" /\ from # "serving"
  OBVIOUS
<1> QED
  BY <1>1, <1>2, <1>3 DEF HostTypeOK

\* A stop empties the tables of one process.
LEMMA StopFact ==
    ASSUME HostTypeOK, NEW p \in Proc, Stop(p)
    PROVE  /\ flags' = flags /\ net' = net /\ listening' = listening \ {p}
           /\ stage' \in [Proc -> {"off", "checked", "built", "ticking", "serving", "dead"}]
           /\ cause' \in [Proc -> Cause]
           /\ \A q \in Proc :
                 /\ stage'[q] = IF q = p THEN "off" ELSE stage[q]
                 /\ cause'[q] = IF q = p THEN "none" ELSE cause[q]
                 /\ local_peers'[q] = IF q = p THEN {} ELSE local_peers[q]
                 /\ peers'[q] = IF q = p THEN {} ELSE peers[q]
                 /\ rpc_cli_mgr'[q] = IF q = p THEN {} ELSE rpc_cli_mgr[q]
                 /\ heard'[q] = IF q = p THEN {} ELSE heard[q]
BY DEF Stop, HostTypeOK, Cause

\* A client that GetClient gives leads to the member asked for.
LEMMA GetClientFact ==
    ASSUME HostTypeOK, TablesInv, NEW p \in Proc, NEW h,
           \E m \in peers[p] : m.host_id = h,
           NEW c \in GetClient(p, h)
    PROVE  /\ c \in [host_id : Nat, proc : Proc] /\ c.host_id = h
           /\ Consistent /\ RoutesInv =>
                 /\ flags[c.proc].host_id = h
                 /\ flags[c.proc].peer_id = MemberOf(p, h).peer_id
<1> DEFINE n == MemberOf(p, h)
<1>1. n \in peers[p] /\ n.host_id = h /\ n \in Member
  BY MemberOfFact DEF HostTypeOK
<1>2. \/ c \in rpc_cli_mgr[p] /\ c.host_id = h
      \/ \E q \in listening : c = Client(h, q) /\ flags[q].addr = n.addr
  BY DEF GetClient
<1>3. c \in [host_id : Nat, proc : Proc] /\ c.host_id = h
  BY <1>1, <1>2 DEF Client, HostTypeOK, Member
<1>4. ASSUME Consistent, RoutesInv
      PROVE  flags[c.proc].host_id = h /\ flags[c.proc].peer_id = n.peer_id
  <2>1. c.proc \in Proc
    BY <1>3
  <2>2. /\ Listed(c.proc) = Listed(p)
        /\ Self(c.proc) \in Listed(p) /\ n \in Listed(p)
        /\ \A x, y \in Listed(p) : x.addr = y.addr => x = y
    BY <1>1, <1>4, <2>1 DEF Consistent, Listed, TablesInv
  <2>3. \A x, y \in Listed(p) : x.host_id = y.host_id => x = y
    BY <1>4, ListedType DEF Consistent
  <2>4. Self(c.proc).host_id = flags[c.proc].host_id
        /\ Self(c.proc).peer_id = flags[c.proc].peer_id
        /\ Self(c.proc).addr = flags[c.proc].addr
    BY DEF Self
  <2>5. CASE c \in rpc_cli_mgr[p] /\ c.host_id = h
    <3>1. flags[c.proc].host_id = h
      BY <1>4, <2>5 DEF RoutesInv
    <3> QED
      BY <1>1, <2>2, <2>3, <2>4, <3>1
  <2>6. CASE \E q \in listening : c = Client(h, q) /\ flags[q].addr = n.addr
    <3>1. flags[c.proc].addr = n.addr
      BY <2>6 DEF Client
    <3> QED
      BY <1>1, <2>2, <2>4, <3>1
  <2> QED
    BY <1>2, <2>5, <2>6
<1> QED
  BY <1>3, <1>4

\* What SendMsgs adds to the clients and to the messages.
LEMMA SendMsgsFact ==
    ASSUME HostTypeOK, TablesInv, NEW p \in Proc, NEW hs,
           \A h \in hs : \E m \in peers[p] : m.host_id = h,
           SendMsgs(p, hs)
    PROVE  /\ rpc_cli_mgr' \in [Proc -> SUBSET [host_id : Nat, proc : Proc]]
           /\ net' \subseteq [from : Nat, to_host : Nat, to_peer : Nat, at : Proc]
           /\ Consistent /\ RoutesInv =>
                 /\ \A q \in Proc : \A c \in rpc_cli_mgr'[q] :
                       flags[c.proc].host_id = c.host_id
                 /\ \A m \in net' : /\ m.to_host = flags[m.at].host_id
                                    /\ m.to_peer = flags[m.at].peer_id
                                    /\ m \in net \/ m.from = flags[p].host_id
<1> DEFINE clients == UNION {GetClient(p, h) : h \in hs}
           Req(c) == [from |-> flags[p].host_id, to_host |-> c.host_id,
                      to_peer |-> MemberOf(p, c.host_id).peer_id, at |-> c.proc]
<1>1. rpc_cli_mgr' = [rpc_cli_mgr EXCEPT ![p] = @ \cup clients]
      /\ net' = net \cup {Req(c) : c \in clients}
  BY DEF SendMsgs
<1>2. \A c \in clients :
         /\ c \in [host_id : Nat, proc : Proc]
         /\ MemberOf(p, c.host_id) \in Member
         /\ Consistent /\ RoutesInv =>
               /\ flags[c.proc].host_id = c.host_id
               /\ flags[c.proc].peer_id = MemberOf(p, c.host_id).peer_id
  <2> TAKE c \in clients
  <2>1. PICK h \in hs : c \in GetClient(p, h)
    OBVIOUS
  <2>2. MemberOf(p, h) \in peers[p]
    BY MemberOfFact
  <2>3. /\ c \in [host_id : Nat, proc : Proc] /\ c.host_id = h
        /\ Consistent /\ RoutesInv =>
              /\ flags[c.proc].host_id = h
              /\ flags[c.proc].peer_id = MemberOf(p, h).peer_id
    BY <2>1, GetClientFact
  <2> QED
    BY <2>2, <2>3 DEF HostTypeOK
<1> HIDE DEF clients
<1>3. rpc_cli_mgr' \in [Proc -> SUBSET [host_id : Nat, proc : Proc]]
  BY <1>1, <1>2 DEF HostTypeOK
<1>4. flags[p].host_id \in Nat
  <2>1. flags[p] \in Flags
    BY SetupsAssumption DEF HostTypeOK
  <2> QED
    BY <2>1 DEF Flags
<1>5. \A c \in clients : Req(c) \in [from : Nat, to_host : Nat, to_peer : Nat, at : Proc]
  BY <1>2, <1>4 DEF Member
<1>6. net' \subseteq [from : Nat, to_host : Nat, to_peer : Nat, at : Proc]
  BY <1>1, <1>5 DEF HostTypeOK
<1>7. ASSUME Consistent, RoutesInv, NEW q \in Proc, NEW c \in rpc_cli_mgr'[q]
      PROVE  flags[c.proc].host_id = c.host_id
  <2>1. c \in rpc_cli_mgr[q] \/ c \in clients
    BY <1>1, <1>7 DEF HostTypeOK
  <2> QED
    BY <1>2, <1>7, <2>1 DEF RoutesInv
<1>8. ASSUME Consistent, RoutesInv, NEW m \in net'
      PROVE  /\ m.to_host = flags[m.at].host_id
             /\ m.to_peer = flags[m.at].peer_id
             /\ m \in net \/ m.from = flags[p].host_id
  <2>1. CASE m \in net
    BY <1>8, <2>1 DEF RoutesInv
  <2>2. CASE \E c \in clients : m = Req(c)
    BY <1>2, <1>8, <2>2
  <2> QED
    BY <1>1, <1>8, <2>1, <2>2
<1> QED
  BY <1>3, <1>6, <1>7, <1>8

\* A tick: messages to members, and perhaps an abort, for want of a listener or
\* of a member.
LEMMA TickFact ==
    ASSUME NEW p \in Proc, Tick(p)
    PROVE  /\ stage[p] \in {"ticking", "serving"}
           /\ UNCHANGED <<flags, local_peers, peers, heard>>
           /\ \E gs : /\ \A h \in gs : \E m \in peers[p] : m.host_id = h
                      /\ SendMsgs(p, gs)
           /\ \/ UNCHANGED <<stage, cause, listening>>
              \/ Fatal(p, "connect") /\ \E h \in Recipients(p) : GetClient(p, h) = {}
                                          /\ \E m \in peers[p] : m.host_id = h
              \/ /\ Fatal(p, "unknown member")
                 /\ \E h \in Recipients(p) : \A m \in peers[p] : m.host_id # h
<1> DEFINE U(hs) == {h \in hs : \A m \in peers[p] : m.host_id # h}
           R(hs) == {h \in hs \ U(hs) : GetClient(p, h) = {}}
<1>1. PICK hs \in SUBSET Recipients(p) :
         \/ /\ U(hs) \cup R(hs) = {}
            /\ SendMsgs(p, hs)
            /\ UNCHANGED <<stage, cause, listening>>
         \/ /\ U(hs) # {} /\ Fatal(p, "unknown member")
            /\ \E gs \in SUBSET (hs \ (U(hs) \cup R(hs))) : SendMsgs(p, gs)
         \/ /\ R(hs) # {} /\ Fatal(p, "connect")
            /\ \E gs \in SUBSET (hs \ (U(hs) \cup R(hs))) : SendMsgs(p, gs)
  BY DEF Tick
<1>2. \A gs \in SUBSET (hs \ (U(hs) \cup R(hs))) :
         \A h \in gs : \E m \in peers[p] : m.host_id = h
  OBVIOUS
<1>3. \A h \in U(hs) : h \in Recipients(p) /\ \A m \in peers[p] : m.host_id # h
  OBVIOUS
<1>4. \A h \in R(hs) : /\ h \in Recipients(p) /\ GetClient(p, h) = {}
                       /\ \E m \in peers[p] : m.host_id = h
  OBVIOUS
<1>5. U(hs) \cup R(hs) = {} => hs \in SUBSET (hs \ (U(hs) \cup R(hs)))
  OBVIOUS
<1>6. stage[p] \in {"ticking", "serving"} /\ UNCHANGED <<flags, local_peers, peers, heard>>
  BY DEF Tick
<1> HIDE DEF U, R
<1>7. \E gs : /\ \A h \in gs : \E m \in peers[p] : m.host_id = h
              /\ SendMsgs(p, gs)
  BY <1>1, <1>2, <1>5
<1> QED
  BY <1>1, <1>3, <1>4, <1>6, <1>7

-----------------------------------------------------------------------------
LEMMA HostTypeStep ==
    ASSUME HostTypeOK, TablesInv, [Next]_vars PROVE HostTypeOK'
<1> USE DEF tables
<1>1. ASSUME NEW p \in Proc, CheckFlags(p) PROVE HostTypeOK'
  <2>1. CASE Goto(p, "off", "checked") /\ UNCHANGED listening
    BY <1>1, <2>1, GotoType DEF CheckFlags, HostTypeOK
  <2>2. CASE Fatal(p, "flags")
    <3>1. "flags" \in Cause \ {"none"}
      BY DEF Cause
    <3> QED
      BY <1>1, <2>2, <3>1, FatalType DEF CheckFlags, HostTypeOK
  <2> QED
    BY <1>1, <2>1, <2>2 DEF CheckFlags
<1>2. ASSUME NEW p \in Proc, AddLocalPeer(p) PROVE HostTypeOK'
  <2>1. CASE Goto(p, "checked", "built")
    <3>1. /\ MembersOk(flags[p].members)
          /\ local_peers' = [local_peers EXCEPT ![p] = @ \cup {flags[p].peer_id}]
          /\ peers' = [peers EXCEPT ![p] = Listed(p)]
          /\ UNCHANGED <<flags, listening, rpc_cli_mgr, heard, net>>
      <4>1. ~\E why \in {"members", "db"} : Fatal(p, why)
        BY <2>1 DEF Goto, Fatal, HostTypeOK
      <4> QED
        BY <1>2, <4>1 DEF AddLocalPeer, Listed
    <3>2. flags[p].peer_id \in Nat
      <4>1. flags[p] \in Flags
        BY SetupsAssumption DEF HostTypeOK
      <4> QED
        BY <4>1 DEF Flags
    <3>3. Listed(p) \subseteq Member
      BY <3>1, ListedType
    <3> QED
      BY <2>1, <3>1, <3>2, <3>3, GotoType DEF HostTypeOK
  <2>2. CASE \E why \in {"members", "db"} :
                Fatal(p, why) /\ UNCHANGED <<local_peers, peers>>
    <3>1. {"members", "db"} \subseteq Cause \ {"none"}
      BY DEF Cause
    <3> QED
      BY <1>2, <2>2, <3>1, FatalType DEF AddLocalPeer, HostTypeOK
  <2> QED
    BY <1>2, <2>1, <2>2 DEF AddLocalPeer
<1>3. ASSUME NEW p \in Proc, StartTimer(p) PROVE HostTypeOK'
  BY <1>3, GotoType DEF StartTimer, HostTypeOK
<1>4. ASSUME NEW p \in Proc, StartServer(p) PROVE HostTypeOK'
  <2>1. stage'[p] = "serving"
    BY <1>4 DEF StartServer, Goto, HostTypeOK
  <2> QED
    BY <1>4, <2>1, GotoType DEF StartServer, HostTypeOK
<1>5. ASSUME NEW p \in Proc, Tick(p) PROVE HostTypeOK'
  <2>1. /\ rpc_cli_mgr' \in [Proc -> SUBSET [host_id : Nat, proc : Proc]]
        /\ net' \subseteq [from : Nat, to_host : Nat, to_peer : Nat, at : Proc]
    BY <1>5, TickFact, SendMsgsFact
  <2>2. UNCHANGED <<flags, local_peers, peers, heard>>
    BY <1>5, TickFact
  <2>3. CASE UNCHANGED <<stage, cause, listening>>
    BY <2>1, <2>2, <2>3 DEF HostTypeOK
  <2>4. CASE \E why \in {"connect", "unknown member"} : Fatal(p, why)
    <3>1. {"connect", "unknown member"} \subseteq Cause \ {"none"}
      BY DEF Cause
    <3> QED
      BY <2>1, <2>2, <2>4, <3>1, FatalType DEF HostTypeOK
  <2> QED
    BY <1>5, <2>3, <2>4, TickFact
<1>6. ASSUME NEW m \in net, HandleRaftMsg(m) PROVE HostTypeOK'
  <2>1. m.at \in Proc /\ m.from \in Nat
    BY DEF HostTypeOK
  <2>2. UNCHANGED <<flags, local_peers, peers, rpc_cli_mgr>> /\ net' \subseteq net
    BY <1>6 DEF HandleRaftMsg
  <2>3. CASE UNCHANGED <<stage, cause, listening>>
             /\ heard' = [heard EXCEPT ![m.at] = @ \cup {m.from}]
    BY <2>1, <2>2, <2>3 DEF HostTypeOK
  <2>4. CASE \E why \in {"wrong host", "no peer"} : Fatal(m.at, why) /\ UNCHANGED heard
    <3>1. {"wrong host", "no peer"} \subseteq Cause \ {"none"}
      BY DEF Cause
    <3> QED
      BY <2>1, <2>2, <2>4, <3>1, FatalType DEF HostTypeOK
  <2> QED
    BY <1>6, <2>3, <2>4 DEF HandleRaftMsg
<1>7. ASSUME NEW p \in Proc, KvOp(p) PROVE HostTypeOK'
  <2>1. CASE UNCHANGED <<stage, cause, listening>>
    BY <1>7, <2>1 DEF KvOp, HostTypeOK
  <2>2. CASE Fatal(p, "no peer 1")
    <3>1. "no peer 1" \in Cause \ {"none"}
      BY DEF Cause
    <3> QED
      BY <1>7, <2>2, <3>1, FatalType DEF KvOp, HostTypeOK
  <2> QED
    BY <1>7, <2>1, <2>2 DEF KvOp
<1>8. ASSUME NEW p \in Proc, Stop(p) PROVE HostTypeOK'
  <2>1. /\ local_peers' \in [Proc -> SUBSET Nat] /\ peers' \in [Proc -> SUBSET Member]
        /\ rpc_cli_mgr' \in [Proc -> SUBSET [host_id : Nat, proc : Proc]]
        /\ heard' \in [Proc -> SUBSET Nat]
    BY <1>8 DEF Stop, HostTypeOK
  <2>2. \A q \in Proc : stage'[q] = "dead" <=> cause'[q] # "none"
    BY <1>8, StopFact DEF HostTypeOK
  <2>3. listening' \subseteq {q \in Proc : stage'[q] = "serving"}
    BY <1>8, StopFact DEF HostTypeOK
  <2> QED
    BY <1>8, <2>1, <2>2, <2>3, StopFact DEF HostTypeOK
<1>9. ASSUME UNCHANGED vars PROVE HostTypeOK'
  BY <1>9 DEF vars, HostTypeOK
<1> QED
  BY <1>1, <1>2, <1>3, <1>4, <1>5, <1>6, <1>7, <1>8, <1>9 DEF Next

\* A process that aborts, or does not get on with main, keeps its tables.
LEMMA TablesKept ==
    ASSUME HostTypeOK, TablesInv, UNCHANGED <<flags, local_peers, peers>>,
           \A q \in Proc : stage'[q] = stage[q] \/ stage'[q] = "dead"
    PROVE  TablesInv'
BY DEF TablesInv, Built, Listed

LEMMA FatalStage ==
    ASSUME HostTypeOK, NEW p \in Proc, NEW why, Fatal(p, why)
    PROVE  /\ \A q \in Proc : stage'[q] = stage[q] \/ stage'[q] = "dead"
           /\ \A q \in Proc : cause'[q] = IF q = p THEN why ELSE cause[q]
           /\ \A q \in listening : q = p \/ q \in listening'
BY DEF Fatal, HostTypeOK

LEMMA TablesStep ==
    ASSUME HostTypeOK, TablesInv, [Next]_vars PROVE TablesInv'
<1> USE DEF tables
<1>1. ASSUME NEW p \in Proc, CheckFlags(p) PROVE TablesInv'
  <2>1. CASE Goto(p, "off", "checked")
    <3>1. \A q \in Proc : stage'[q] = IF q = p THEN "checked" ELSE stage[q]
      BY <2>1 DEF Goto, HostTypeOK
    <3>2. stage[p] = "off" /\ UNCHANGED <<flags, local_peers, peers>>
      BY <1>1 DEF CheckFlags
    <3> QED
      BY <3>1, <3>2 DEF TablesInv, Built, Listed
  <2>2. CASE Fatal(p, "flags")
    BY <1>1, <2>2, FatalStage, TablesKept DEF CheckFlags
  <2> QED
    BY <1>1, <2>1, <2>2 DEF CheckFlags
<1>2. ASSUME NEW p \in Proc, AddLocalPeer(p) PROVE TablesInv'
  <2>1. CASE /\ Goto(p, "checked", "built")
             /\ local_peers' = [local_peers EXCEPT ![p] = @ \cup {flags[p].peer_id}]
             /\ peers' = [peers EXCEPT ![p] = InitGroupMembers(flags[p].members)]
    <3>1. \A q \in Proc : stage'[q] = IF q = p THEN "built" ELSE stage[q]
      BY <2>1 DEF Goto, HostTypeOK
    <3>2. flags' = flags
      BY <1>2 DEF AddLocalPeer
    <3>3. \A q \in Proc : /\ q = p => /\ flags[p].peer_id \in local_peers'[q]
                                      /\ local_peers'[q] = local_peers[q] \cup {flags[p].peer_id}
                                      /\ peers'[q] = InitGroupMembers(flags[p].members)
                          /\ q # p => /\ local_peers'[q] = local_peers[q]
                                      /\ peers'[q] = peers[q]
      BY <2>1 DEF HostTypeOK
    <3> QED
      BY <3>1, <3>2, <3>3 DEF TablesInv, Built, Listed
  <2>2. CASE \E why \in {"members", "db"} :
                Fatal(p, why) /\ UNCHANGED <<local_peers, peers>>
    BY <1>2, <2>2, FatalStage, TablesKept DEF AddLocalPeer
  <2> QED
    BY <1>2, <2>1, <2>2 DEF AddLocalPeer
<1>3. ASSUME NEW p \in Proc, StartTimer(p) \/ StartServer(p) PROVE TablesInv'
  <2>1. \A q \in Proc : \/ stage'[q] = stage[q]
                        \/ stage[q] \in Built /\ stage'[q] \in Built
    BY <1>3 DEF StartTimer, StartServer, Goto, HostTypeOK, Built
  <2>2. UNCHANGED <<flags, local_peers, peers>>
    BY <1>3 DEF StartTimer, StartServer
  <2> QED
    BY <2>1, <2>2 DEF TablesInv, Built, Listed
<1>4. ASSUME NEW p \in Proc, Tick(p) PROVE TablesInv'
  <2>1. UNCHANGED stage \/ \E why : Fatal(p, why)
    BY <1>4, TickFact
  <2> QED
    BY <1>4, <2>1, TickFact, FatalStage, TablesKept
<1>5. ASSUME NEW m \in net, HandleRaftMsg(m) PROVE TablesInv'
  <2>1. m.at \in Proc
    BY DEF HostTypeOK
  <2>2. /\ UNCHANGED stage \/ \E why : Fatal(m.at, why)
        /\ UNCHANGED <<flags, local_peers, peers>>
    BY <1>5 DEF HandleRaftMsg
  <2> QED
    BY <2>1, <2>2, FatalStage, TablesKept
<1>6. ASSUME NEW p \in Proc, KvOp(p) PROVE TablesInv'
  <2>1. /\ UNCHANGED stage \/ \E why : Fatal(p, why)
        /\ UNCHANGED <<flags, local_peers, peers>>
    BY <1>6 DEF KvOp
  <2> QED
    BY <2>1, FatalStage, TablesKept
<1>7. ASSUME NEW p \in Proc, Stop(p) PROVE TablesInv'
  BY <1>7, StopFact DEF TablesInv, Built, Listed
<1>8. ASSUME UNCHANGED vars PROVE TablesInv'
  BY <1>8 DEF vars, TablesInv, Listed
<1> QED
  BY <1>1, <1>2, <1>3, <1>4, <1>5, <1>6, <1>7, <1>8 DEF Next

\* The command lines never change.
LEMMA FlagsKept == [Next]_vars => flags' = flags /\ (Consistent' <=> Consistent)
<1> SUFFICES ASSUME [Next]_vars PROVE flags' = flags /\ (Consistent' <=> Consistent)
  OBVIOUS
<1>1. flags' = flags
  BY DEF Next, CheckFlags, AddLocalPeer, StartTimer, StartServer, Tick,
         HandleRaftMsg, KvOp, Stop, vars
<1> QED
  BY <1>1 DEF Consistent, Self

\* With consistent command lines a process is a member of every process's list.
LEMMA SelfListed ==
    ASSUME Consistent, NEW p \in Proc, NEW q \in Proc
    PROVE  \E n \in Listed(q) : n.host_id = flags[p].host_id
<1>1. Self(p) \in Listed(q)
  BY DEF Consistent, Listed
<1>2. Self(p).host_id = flags[p].host_id
  BY DEF Self
<1> QED
  BY <1>1, <1>2

LEMMA RoutesStep ==
    ASSUME HostTypeOK, TablesInv, Consistent, RoutesInv, [Next]_vars
    PROVE  RoutesInv'
<1>1. flags' = flags /\ \A p : Listed(p)' = Listed(p)
  BY FlagsKept DEF Listed
<1>2. ASSUME NEW p \in Proc, Tick(p) PROVE RoutesInv'
  <2>1. /\ \A q \in Proc : \A c \in rpc_cli_mgr'[q] :
              flags[c.proc].host_id = c.host_id
        /\ \A m \in net' : /\ m.to_host = flags[m.at].host_id
                           /\ m.to_peer = flags[m.at].peer_id
                           /\ m \in net \/ m.from = flags[p].host_id
    BY <1>2, TickFact, SendMsgsFact
  <2>2. \A q \in Proc : \A m \in net' : \E n \in Listed(q) : n.host_id = m.from
    BY <1>2, <2>1, SelfListed DEF RoutesInv
  <2>3. heard' = heard
    BY <1>2 DEF Tick
  <2> QED
    BY <1>1, <2>1, <2>2, <2>3 DEF RoutesInv
<1>3. ASSUME NEW m \in net, HandleRaftMsg(m) PROVE RoutesInv'
  <2>1. rpc_cli_mgr' = rpc_cli_mgr /\ net' \subseteq net
    BY <1>3 DEF HandleRaftMsg
  <2>2. \A q \in Proc : \A h \in heard'[q] : h \in heard[q] \/ h = m.from
    <3>1. \/ heard' = heard
          \/ heard' = [heard EXCEPT ![m.at] = @ \cup {m.from}]
      BY <1>3 DEF HandleRaftMsg
    <3> QED
      BY <3>1 DEF HostTypeOK
  <2> QED
    BY <1>1, <2>1, <2>2 DEF RoutesInv
<1>4. ASSUME NEW p \in Proc, Stop(p) PROVE RoutesInv'
  <2>1. \A q \in Proc : rpc_cli_mgr'[q] \subseteq rpc_cli_mgr[q] /\ heard'[q] \subseteq heard[q]
    BY <1>4, StopFact
  <2>2. net' = net
    BY <1>4, StopFact
  <2> QED
    BY <1>1, <2>1, <2>2 DEF RoutesInv
<1>5. ASSUME UNCHANGED <<rpc_cli_mgr, net, heard>> PROVE RoutesInv'
  BY <1>1, <1>5 DEF RoutesInv
<1> QED
  BY <1>2, <1>3, <1>4, <1>5
  DEF Next, CheckFlags, AddLocalPeer, StartTimer, StartServer, KvOp, tables, vars

\* With consistent command lines a step aborts a process for one of the reasons
\* MessagesArrive names, and a listening one only for want of a peer 1 or of
\* a listener at a member's address.
LEMMA CauseStep ==
    ASSUME HostTypeOK, TablesInv, Consistent, RoutesInv, [Next]_vars
    PROVE  \/ UNCHANGED cause /\ listening \subseteq listening'
           \/ \E p \in Proc :
                 \/ Fatal(p, "db") /\ p \notin listening
                 \/ Fatal(p, "no peer 1") /\ p \in listening /\ 1 \notin local_peers[p]
                 \/ /\ Fatal(p, "connect") /\ stage[p] \in Built
                    /\ \E h \in Recipients(p) :
                          GetClient(p, h) = {} /\ \E m \in peers[p] : m.host_id = h
                 \/ Stop(p)
<1> DEFINE Goal == \/ UNCHANGED cause /\ listening \subseteq listening'
                   \/ \E p \in Proc :
                         \/ Fatal(p, "db") /\ p \notin listening
                         \/ Fatal(p, "no peer 1") /\ p \in listening /\ 1 \notin local_peers[p]
                         \/ /\ Fatal(p, "connect") /\ stage[p] \in Built
                            /\ \E h \in Recipients(p) :
                                  GetClient(p, h) = {} /\ \E m \in peers[p] : m.host_id = h
                         \/ Stop(p)
<1> SUFFICES Goal
  OBVIOUS
<1>1. ASSUME NEW p \in Proc, CheckFlags(p) PROVE Goal
  BY <1>1 DEF CheckFlags, Goto, Consistent
<1>2. ASSUME NEW p \in Proc, AddLocalPeer(p) PROVE Goal
  <2>1. /\ flags[p].peer_id \notin local_peers[p] /\ flags[p].peer_id > 0
        /\ MembersOk(flags[p].members)
    <3>1. flags[p] \in Flags
      BY SetupsAssumption DEF HostTypeOK
    <3>2. local_peers[p] = {} /\ stage[p] = "checked"
      BY <1>2 DEF AddLocalPeer, TablesInv
    <3> QED
      BY <3>1, <3>2 DEF Consistent, FlagsOk, Flags
  <2>2. p \notin listening
    BY <1>2 DEF AddLocalPeer, HostTypeOK
  <2> QED
    BY <1>2, <2>1, <2>2 DEF AddLocalPeer, Goto, HasLocalPeer, CheckPeerOption
<1>3. ASSUME NEW p \in Proc, StartTimer(p) \/ StartServer(p) PROVE Goal
  BY <1>3 DEF StartTimer, StartServer, Goto
<1>4. ASSUME NEW p \in Proc, Tick(p) PROVE Goal
  <2>1. stage[p] \in Built /\ peers[p] = Listed(p)
    BY <1>4, TickFact DEF TablesInv, Built
  <2>2. \A h \in Recipients(p) : \E m \in peers[p] : m.host_id = h
    BY <2>1 DEF Recipients, RoutesInv
  <2>3. CASE UNCHANGED <<stage, cause, listening>>
    BY <2>3
  <2>4. CASE /\ Fatal(p, "connect")
             /\ \E h \in Recipients(p) : /\ GetClient(p, h) = {}
                                         /\ \E m \in peers[p] : m.host_id = h
    BY <2>1, <2>4
  <2> HIDE DEF Goal
  <2> QED
    BY <1>4, <2>2, <2>3, <2>4, TickFact
<1>5. ASSUME NEW m \in net, HandleRaftMsg(m) PROVE Goal
  <2>1. m.at \in Proc /\ m.at \in listening
    BY <1>5 DEF HostTypeOK, HandleRaftMsg
  <2>2. Addressed(m) /\ m.to_peer = flags[m.at].peer_id
    BY <2>1 DEF RoutesInv, Addressed
  <2>3. flags[m.at].peer_id \in local_peers[m.at]
    BY <2>1 DEF TablesInv, HostTypeOK, Built
  <2> QED
    BY <1>5, <2>2, <2>3 DEF HandleRaftMsg, HasLocalPeer
<1>6. ASSUME NEW p \in Proc, KvOp(p) PROVE Goal
  BY <1>6 DEF KvOp, HasLocalPeer
<1>7. ASSUME NEW p \in Proc, Stop(p) PROVE Goal
  BY <1>7
<1>8. ASSUME UNCHANGED vars PROVE Goal
  BY <1>8 DEF vars
<1> HIDE DEF Goal
<1> QED
  BY <1>1, <1>2, <1>3, <1>4, <1>5, <1>6, <1>7, <1>8 DEF Next

\* Whatever the command lines, a message is sent to a member, and heard by the
\* host and the peer it names.
LEMMA SentStep ==
    ASSUME HostTypeOK, TablesInv, SentInv, SteppedByAddressee, [Next]_vars
    PROVE  SentInv' /\ SteppedByAddressee'
<1> USE DEF tables
<1>1. flags' = flags /\ \A h, host, peer : Names(h, host, peer)' <=> Names(h, host, peer)
  BY FlagsKept DEF Names, Listed
<1>2. SteppedByAddressee <=>
        \A p \in Proc : \A h \in heard[p] : Names(h, flags[p].host_id, flags[p].peer_id)
  BY DEF SteppedByAddressee, Names, Listed
<1>3. SteppedByAddressee' <=>
        \A p \in Proc : \A h \in heard'[p] : Names(h, flags[p].host_id, flags[p].peer_id)
  BY <1>1 DEF SteppedByAddressee, Names, Listed
<1>4. SentInv' <=> \A m \in net' : Names(m.from, m.to_host, m.to_peer)
  BY <1>1 DEF SentInv
<1>5. ASSUME NEW p \in Proc, Tick(p) PROVE SentInv' /\ SteppedByAddressee'
  <2>1. PICK hs : /\ \A h \in hs : \E m \in peers[p] : m.host_id = h
                  /\ SendMsgs(p, hs)
    BY <1>5, TickFact
  <2> DEFINE clients == UNION {GetClient(p, h) : h \in hs}
             Req(c) == [from |-> flags[p].host_id, to_host |-> c.host_id,
                        to_peer |-> MemberOf(p, c.host_id).peer_id, at |-> c.proc]
  <2>2. net' = net \cup {Req(c) : c \in clients}
    BY <2>1 DEF SendMsgs
  <2>3. ASSUME NEW c \in clients
        PROVE  Names(flags[p].host_id, c.host_id, MemberOf(p, c.host_id).peer_id)
    <3>1. PICK h \in hs : c \in GetClient(p, h)
      OBVIOUS
    <3>2. c.host_id = h /\ MemberOf(p, h) \in peers[p] /\ MemberOf(p, h).host_id = h
      BY <2>1, <3>1, GetClientFact, MemberOfFact
    <3>3. MemberOf(p, h) \in Listed(p)
      BY <3>2 DEF TablesInv
    <3> QED
      BY <3>2, <3>3 DEF Names
  <2> HIDE DEF clients
  <2>4. \A c \in clients : Names(Req(c).from, Req(c).to_host, Req(c).to_peer)
    BY <2>3
  <2>5. heard' = heard
    BY <1>5 DEF Tick
  <2> HIDE DEF Req
  <2> QED
    BY <1>2, <1>3, <1>4, <2>2, <2>4, <2>5 DEF SentInv
<1>6. ASSUME NEW m \in net, HandleRaftMsg(m) PROVE SentInv' /\ SteppedByAddressee'
  <2>1. m.at \in Proc /\ net' \subseteq net
    BY <1>6 DEF HostTypeOK, HandleRaftMsg
  <2>2. CASE heard' = heard
    BY <1>2, <1>3, <1>4, <2>1, <2>2 DEF SentInv
  <2>3. CASE /\ Addressed(m) /\ HasLocalPeer(m.at, m.to_peer)
             /\ heard' = [heard EXCEPT ![m.at] = @ \cup {m.from}]
    <3>1. m.to_host = flags[m.at].host_id /\ m.to_peer = flags[m.at].peer_id
      BY <2>1, <2>3 DEF Addressed, HasLocalPeer, TablesInv
    <3>2. Names(m.from, flags[m.at].host_id, flags[m.at].peer_id)
      BY <3>1 DEF SentInv
    <3>3. \A q \in Proc : \A h \in heard'[q] : h \in heard[q] \/ (q = m.at /\ h = m.from)
      BY <2>1, <2>3 DEF HostTypeOK
    <3> QED
      BY <1>2, <1>3, <1>4, <2>1, <3>2, <3>3 DEF SentInv
  <2> QED
    BY <1>6, <2>2, <2>3 DEF HandleRaftMsg
<1>7. ASSUME net' = net, \A q \in Proc : heard'[q] \subseteq heard[q]
      PROVE  SentInv' /\ SteppedByAddressee'
  BY <1>2, <1>3, <1>4, <1>7 DEF SentInv
<1>8. ASSUME NEW p \in Proc, Stop(p) PROVE SentInv' /\ SteppedByAddressee'
  BY <1>7, <1>8, StopFact
<1> QED
  BY <1>5, <1>6, <1>7, <1>8
  DEF Next, CheckFlags, AddLocalPeer, StartTimer, StartServer, KvOp, vars

\* Recipients of a server that are no members of it were heard, so that one of
\* the processes they can be names the server.
LEMMA UnknownHeard ==
    ASSUME TablesInv, SteppedByAddressee, NEW p \in Proc, stage[p] \in Built,
           NEW h \in Recipients(p), \A m \in peers[p] : m.host_id # h
    PROVE  \E q \in Proc : /\ \A m \in Given(p) : m.host_id # flags[q].host_id
                           /\ \E m \in Given(q) : /\ m.host_id = flags[p].host_id
                                                  /\ m.peer_id = flags[p].peer_id
<1>1. h \in heard[p]
  BY DEF Recipients
<1>2. PICK q \in Proc : /\ flags[q].host_id = h
                        /\ \E m \in InitGroupMembers(flags[q].members) :
                              /\ m.host_id = flags[p].host_id
                              /\ m.peer_id = flags[p].peer_id
  BY <1>1 DEF SteppedByAddressee
<1>3. peers[p] = Given(p) /\ InitGroupMembers(flags[q].members) = Given(q)
  BY DEF TablesInv, Listed, InitGroupMembers, Given
<1> QED
  BY <1>2, <1>3

LEMMA UnknownStep ==
    ASSUME HostTypeOK, TablesInv, SteppedByAddressee, UnknownIsForeign, [Next]_vars
    PROVE  UnknownIsForeign'
<1> DEFINE Foreign(p) ==
             \E q \in Proc : /\ \A m \in Given(p) : m.host_id # flags[q].host_id
                             /\ \E m \in Given(q) : /\ m.host_id = flags[p].host_id
                                                    /\ m.peer_id = flags[p].peer_id
<1>1. /\ UnknownIsForeign <=> \A p \in Proc : cause[p] = "unknown member" => Foreign(p)
      /\ UnknownIsForeign' <=> \A p \in Proc : cause'[p] = "unknown member" => Foreign(p)
  <2>1. flags' = flags
    BY FlagsKept
  <2>2. \A p : Given(p)' = Given(p)
    BY <2>1 DEF Given
  <2>3. UnknownIsForeign <=> \A p \in Proc : cause[p] = "unknown member" => Foreign(p)
    BY Zenon DEF UnknownIsForeign
  <2>4. UnknownIsForeign' <=> \A p \in Proc : cause'[p] = "unknown member" => Foreign(p)
    <3>1. UnknownIsForeign' <=>
            \A p \in Proc : cause'[p] = "unknown member" =>
              \E q \in Proc :
                /\ \A m \in Given(p)' : m.host_id # flags'[q].host_id
                /\ \E m \in Given(q)' : /\ m.host_id = flags'[p].host_id
                                        /\ m.peer_id = flags'[p].peer_id
      BY Zenon DEF UnknownIsForeign
    <3> QED
      BY <2>1, <2>2, <3>1
  <2> QED
    BY <2>3, <2>4
<1>2. ASSUME NEW p \in Proc, stage[p] \in Built,
             NEW h \in Recipients(p), \A m \in peers[p] : m.host_id # h
      PROVE  Foreign(p)
  BY <1>2, UnknownHeard
<1> HIDE DEF Foreign
<1>3. ASSUME NEW p \in Proc, NEW why, Fatal(p, why), why = "unknown member" => Foreign(p)
      PROVE  UnknownIsForeign'
  BY <1>1, <1>3, FatalStage
<1>4. ASSUME NEW p \in Proc, Tick(p) PROVE UnknownIsForeign'
  <2>1. stage[p] \in Built
    BY <1>4, TickFact DEF Built
  <2>2. CASE cause' = cause
    BY <1>1, <2>2
  <2>3. CASE Fatal(p, "connect")
    BY <1>3, <2>3
  <2>4. CASE /\ Fatal(p, "unknown member")
             /\ \E h \in Recipients(p) : \A m \in peers[p] : m.host_id # h
    BY <1>2, <1>3, <2>1, <2>4
  <2> QED
    BY <1>4, <2>2, <2>3, <2>4, TickFact
<1>5. ASSUME NEW p \in Proc, CheckFlags(p) \/ AddLocalPeer(p) \/ KvOp(p)
      PROVE  UnknownIsForeign'
  <2>1. \/ cause' = cause
        \/ \E why \in {"flags", "members", "db", "no peer 1"} : Fatal(p, why)
    BY <1>5 DEF CheckFlags, AddLocalPeer, KvOp, Goto
  <2> QED
    BY <1>1, <1>3, <2>1
<1>6. ASSUME NEW m \in net, HandleRaftMsg(m) PROVE UnknownIsForeign'
  <2>1. m.at \in Proc
    BY DEF HostTypeOK
  <2>2. cause' = cause \/ \E why \in {"wrong host", "no peer"} : Fatal(m.at, why)
    BY <1>6 DEF HandleRaftMsg
  <2> QED
    BY <1>1, <1>3, <2>1, <2>2
<1>7. ASSUME NEW p \in Proc, Stop(p) PROVE UnknownIsForeign'
  BY <1>1, <1>7, StopFact
<1>8. ASSUME cause' = cause PROVE UnknownIsForeign'
  BY <1>1, <1>8
<1> QED
  BY <1>4, <1>5, <1>6, <1>7, <1>8 DEF Next, StartTimer, StartServer, Goto, vars

-----------------------------------------------------------------------------
\* The invariant holds in every state.
THEOREM HostInvariance == Spec => []HostInv
<1>1. HostInv /\ [Next]_vars => HostInv'
  <2> SUFFICES ASSUME HostInv, [Next]_vars PROVE HostInv'
    OBVIOUS
  <2>1. HostTypeOK' /\ TablesInv'
    BY HostTypeStep, TablesStep DEF HostInv
  <2>4. SentInv' /\ SteppedByAddressee'
    BY SentStep DEF HostInv
  <2>5. UnknownIsForeign'
    BY UnknownStep DEF HostInv
  <2>2. Consistent' => RoutesInv'
    BY FlagsKept, RoutesStep DEF HostInv
  <2>3. MessagesArrive'
    <3> SUFFICES ASSUME Consistent
                 PROVE  \A p \in Proc :
                           cause'[p] \in {"none", "db", "connect", "no peer 1"}
      BY FlagsKept DEF MessagesArrive
    <3>1. \A p \in Proc : cause[p] \in {"none", "db", "connect", "no peer 1"}
      BY DEF HostInv, MessagesArrive
    <3>2. \/ UNCHANGED cause
          \/ \E p \in Proc : \E why \in {"db", "connect", "no peer 1"} : Fatal(p, why)
          \/ \E p \in Proc : Stop(p)
      BY CauseStep DEF HostInv
    <3> QED
      BY <3>1, <3>2, FatalStage, StopFact DEF HostInv
  <2> QED
    BY <2>1, <2>2, <2>3, <2>4, <2>5 DEF HostInv
<1> QED
  BY HostInit, <1>1, PTL DEF Spec

\* With consistent command lines, no server of a group of any size aborts on a
\* message or on its command line, in whatever order the servers start.
THEOREM RoutingIsRight == Spec => []MessagesArrive
<1>1. HostInv => MessagesArrive
  BY DEF HostInv
<1> QED
  BY <1>1, HostInvariance, PTL

\* Whatever the command lines, the tables have their shape and only a server
\* that got through main listens.
THEOREM HostTypes == Spec => []HostTypeOK
<1>1. HostInv => HostTypeOK
  BY DEF HostInv
<1> QED
  BY <1>1, HostInvariance, PTL

\* Whatever the command lines, a message is stepped by the host and the peer
\* that its sender's members name.
THEOREM AddresseeSteps == Spec => []SteppedByAddressee
<1>1. HostInv => SteppedByAddressee
  BY DEF HostInv
<1> QED
  BY <1>1, HostInvariance, PTL

\* Whatever the command lines, a server that has a message for no member of its
\* own was started without somebody who was started with it.
THEOREM UnknownsAreForeign == Spec => []UnknownIsForeign
<1>1. HostInv => UnknownIsForeign
  BY DEF HostInv
<1> QED
  BY <1>1, HostInvariance, PTL

\* Why a server is lost that nobody stopped: there was somebody to talk to, no
\* client of his, and no listener.
LEMMA LostFact ==
    ASSUME HostInv, [Next]_vars, NEW p \in Proc, Lost(p), ~Stop(p)
    PROVE  /\ stage[p] \in Built
           /\ \E h \in Recipients(p) :
                 GetClient(p, h) = {} /\ \E m \in peers[p] : m.host_id = h
<1>1. HostTypeOK /\ TablesInv /\ Consistent /\ RoutesInv
      /\ p \in listening /\ p \notin listening' /\ flags[p].peer_id = 1
  BY DEF HostInv, Lost
<1>2. 1 \in local_peers[p]
  BY <1>1 DEF HostTypeOK, TablesInv, Built
<1>3. \A q \in Proc : (Stop(q) \/ \E why : Fatal(q, why)) => q = p
  BY <1>1, FatalStage, StopFact
<1> QED
  BY <1>1, <1>2, <1>3, CauseStep

\* While every member of the group is served, nobody is lost that is not
\* stopped.
THEOREM GroupSurvives == Spec => GroupStaysUp
<1>1. HostInv /\ [Next]_vars =>
        [ GroupUp => \A p \in Proc : Lost(p) => Stop(p) ]_vars
  <2> SUFFICES ASSUME HostInv, [Next]_vars, GroupUp, NEW p \in Proc, Lost(p), ~Stop(p)
               PROVE  FALSE
    OBVIOUS
  <2>1. PICK h \in Recipients(p) :
           GetClient(p, h) = {} /\ \E m \in peers[p] : m.host_id = h
    BY LostFact
  <2>2. MemberOf(p, h) \in Listed(p)
    BY <2>1, MemberOfFact DEF HostInv, TablesInv
  <2>3. PICK q \in listening : Self(q) = MemberOf(p, h)
    BY <2>2 DEF GroupUp, Listed
  <2>4. flags[q].addr = MemberOf(p, h).addr
    BY <2>3 DEF Self
  <2>5. Client(h, q) \in {Client(h, x) :
           x \in {x \in listening : flags[x].addr = MemberOf(p, h).addr}}
    BY <2>4
  <2> QED
    BY <2>1, <2>5 DEF GetClient
<1> QED
  BY <1>1, HostInvariance, PTL DEF Spec, GroupStaysUp

\* A server with all its clients cached outlives the stops of the others.
THEOREM LinkedSurvives == Spec => LinkedStaysUp
<1>1. HostInv /\ [Next]_vars =>
        [ \A p \in Proc :
            (\A h \in Recipients(p) : \E c \in rpc_cli_mgr[p] : c.host_id = h)
                => (Lost(p) => Stop(p)) ]_vars
  <2> SUFFICES ASSUME HostInv, [Next]_vars, NEW p \in Proc, Lost(p), ~Stop(p),
                      \A h \in Recipients(p) : \E c \in rpc_cli_mgr[p] : c.host_id = h
               PROVE  FALSE
    OBVIOUS
  <2>1. PICK h \in Recipients(p) : GetClient(p, h) = {}
    BY LostFact
  <2>2. {c \in rpc_cli_mgr[p] : c.host_id = h} # {}
    OBVIOUS
  <2> QED
    BY <2>1, <2>2 DEF GetClient
<1> QED
  BY <1>1, HostInvariance, PTL DEF Spec, LinkedStaysUp
=============================================================================
