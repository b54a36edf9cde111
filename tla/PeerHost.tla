------------------------------ MODULE PeerHost ------------------------------
(***************************************************************************)
(* The servers of a group around their peers: how main builds one from its *)
(* command line (example/echo/server/main.cc), the tables of PeerHost      *)
(* (local_peers_, rpc_cli_mgr_) and Peer (peers_), and the way of a Raft   *)
(* message or a client's operation to the peer it is for.                  *)
(*                                                                         *)
(* main runs in a thread of its own: the worker's timer ticks as soon as   *)
(* StartTimer was called, while main still registers the services.  What   *)
(* the peers say to each other is Peer's business; here a peer may send to *)
(* any voter, and answer whoever it heard of.                              *)
(***************************************************************************)
EXTENDS Naturals, Sequences

CONSTANTS Proc,         \* the server processes
          Addr,         \* addresses (ip, port) that CheckFlags lets pass
          NoAddr,       \* one it does not
          BadMember,    \* an item of --members without its four fields
          Setups,       \* the command lines the processes may be started with
          Stoppable     \* bound: the processes that are stopped and started again

\* One item of --members, and what main reads of the command line.  An id of 0
\* is what an absent flag leaves (kNoHost, kNoPeer).
Member == [host_id : Nat, peer_id : Nat, addr : Addr]
Flags == [host_id : Nat, peer_id : Nat, addr : Addr \cup {NoAddr},
          members : Seq(Member \cup {BadMember})]

ASSUME AddrAssumption == NoAddr \notin Addr /\ BadMember \notin Member
ASSUME SetupsAssumption == Setups \subseteq [Proc -> Flags]

VARIABLES
    flags,        \* flags[p]: p's command line
    stage,        \* how far main got, or "dead" after JLOG_FATAL
    cause,        \* which JLOG_FATAL it was
    listening,    \* the processes whose RpcServer got its address
    local_peers,  \* local_peers_: ids of the peers the host holds
    peers,        \* peers_: the members by host id, as a set
    rpc_cli_mgr,  \* rpc_cli_mgr_: cached clients, [host_id, proc] pairs
    heard,        \* host ids whose messages p's raft has stepped
    net           \* RaftMsgReqs on their way

vars == <<flags, stage, cause, listening, local_peers, peers, rpc_cli_mgr,
          heard, net>>
tables == <<local_peers, peers, rpc_cli_mgr, heard>>

Init ==
    /\ flags \in Setups
    /\ stage = [p \in Proc |-> "off"]
    /\ cause = [p \in Proc |-> "none"]
    /\ listening = {}
    /\ local_peers = [p \in Proc |-> {}]
    /\ peers = [p \in Proc |-> {}]
    /\ rpc_cli_mgr = [p \in Proc |-> {}]
    /\ heard = [p \in Proc |-> {}]
    /\ net = {}

\* JLOG_FATAL: the process is gone, and its address free again.
Fatal(p, why) ==
    /\ stage' = [stage EXCEPT ![p] = "dead"]
    /\ cause' = [cause EXCEPT ![p] = why]
    /\ listening' = listening \ {p}

Goto(p, from, to) ==
    /\ stage[p] = from
    /\ stage' = [stage EXCEPT ![p] = to]
    /\ UNCHANGED cause

-----------------------------------------------------------------------------
(***************************************************************************)
(* main.                                                                   *)
(***************************************************************************)
FlagsOk(f) ==
    /\ f.host_id # 0 /\ f.peer_id # 0
    /\ f.addr \in Addr
    /\ f.members # << >>

CheckFlags(p) ==
    /\ stage[p] = "off"
    /\ \/ FlagsOk(flags[p]) /\ Goto(p, "off", "checked") /\ UNCHANGED listening
       \/ ~FlagsOk(flags[p]) /\ Fatal(p, "flags")
    /\ UNCHANGED <<flags, tables, net>>

\* Faulty variant: the items are not looked at.
MembersUnchecked(ms) == TRUE

\* Peer::InitGroupMembers: every item has its fields, no host occurs twice.
MembersOk(ms) ==
    /\ \A i \in 1..Len(ms) : ms[i] # BadMember
    /\ \A i, j \in 1..Len(ms) : ms[i].host_id = ms[j].host_id => i = j

\* Faulty variant: the last item is not put into the table.
InitGroupMembersButLast(ms) == {ms[i] : i \in 1..(Len(ms) - 1)}

InitGroupMembers(ms) == {ms[i] : i \in 1..Len(ms)}

CheckPeerOption(f, host_id) == f.peer_id > 0 /\ f.host_id = host_id

\* mutable_local_peers(i) is not null.
HasLocalPeer(p, i) == i \in local_peers[p]

\* AddLocalPeer(peer_opt): the checks of PeerHost and of the constructor of
\* Peer, the two tables they fill, and leveldb, which may be impossible to open
\* (by a server started twice, or for reasons of its own).
AddLocalPeer(p) ==
    LET f == flags[p]
        ok == /\ ~HasLocalPeer(p, f.peer_id)
              /\ CheckPeerOption(f, flags[p].host_id)
              /\ MembersOk(f.members)
    IN  /\ stage[p] = "checked"
        /\ \/ /\ ok
              /\ Goto(p, "checked", "built")
              /\ local_peers' = [local_peers EXCEPT ![p] = @ \cup {f.peer_id}]
              /\ peers' = [peers EXCEPT ![p] = InitGroupMembers(f.members)]
              /\ UNCHANGED listening
           \/ ~ok /\ Fatal(p, "members") /\ UNCHANGED <<local_peers, peers>>
           \/ ok /\ Fatal(p, "db") /\ UNCHANGED <<local_peers, peers>>
        /\ UNCHANGED <<flags, rpc_cli_mgr, heard, net>>

\* The timer is armed, and its callback runs in the worker from now on.
StartTimer(p) ==
    /\ Goto(p, "built", "ticking")
    /\ UNCHANGED <<flags, listening, tables, net>>

\* Faulty variant: the server starts before the peer is added.
StartServerEarly(p) ==
    /\ Goto(p, "checked", "serving")
    /\ listening' = IF \E q \in listening : flags[q].addr = flags[p].addr
                    THEN listening ELSE listening \cup {p}
    /\ UNCHANGED <<flags, tables, net>>

\* rpc_server->Start(), whose result is not looked at: an address that is
\* taken leaves a server that nobody can reach.
StartServer(p) ==
    /\ Goto(p, "ticking", "serving")
    /\ listening' = IF \E q \in listening : flags[q].addr = flags[p].addr
                    THEN listening ELSE listening \cup {p}
    /\ UNCHANGED <<flags, tables, net>>

\* The process is killed, or has aborted, and may be started again with the
\* same command line: what it kept in memory is gone.
Stop(p) ==
    /\ p \in Stoppable /\ stage[p] # "off"
    /\ stage' = [stage EXCEPT ![p] = "off"]
    /\ cause' = [cause EXCEPT ![p] = "none"]
    /\ listening' = listening \ {p}
    /\ local_peers' = [local_peers EXCEPT ![p] = {}]
    /\ peers' = [peers EXCEPT ![p] = {}]
    /\ rpc_cli_mgr' = [rpc_cli_mgr EXCEPT ![p] = {}]
    /\ heard' = [heard EXCEPT ![p] = {}]
    /\ UNCHANGED <<flags, net>>

-----------------------------------------------------------------------------
(***************************************************************************)
(* The worker: ticks, messages and operations.                             *)
(***************************************************************************)
\* Whom RawNode may have messages for: a voter campaigns among the voters, and
\* anybody is answered.
Recipients(p) ==
    LET self == flags[p].host_id
        voters == {m.host_id : m \in peers[p]}
    IN  heard[p] \cup (IF self \in voters THEN voters \ {self} ELSE {})

MemberOf(p, h) == CHOOSE m \in peers[p] : m.host_id = h

\* A client of p: whose it is meant to be, and who is at its other end.
Client(h, q) == [host_id |-> h, proc |-> q]

\* Faulty variant: rpc_cli_mgr_ is not asked, every message connects anew.
GetClientAnew(p, h) ==
    {Client(h, q) : q \in {q \in listening : flags[q].addr = MemberOf(p, h).addr}}

\* Faulty variant: rpc_cli_mgr_ is asked for any client, not for the host's.
GetClientAny(p, h) ==
    IF rpc_cli_mgr[p] # {} THEN {Client(h, c.proc) : c \in rpc_cli_mgr[p]}
    ELSE {Client(h, q) : q \in {q \in listening : flags[q].addr = MemberOf(p, h).addr}}

\* PeerHost::GetClient: the cached client of the host, or else the one Connect
\* makes to whoever listens at the member's address; none if Connect fails.
GetClient(p, h) ==
    LET cached == {c \in rpc_cli_mgr[p] : c.host_id = h}
    IN  IF cached # {} THEN cached
        ELSE {Client(h, q) : q \in {q \in listening : flags[q].addr = MemberOf(p, h).addr}}

\* SendMsg2Peer to each of the hosts hs.
SendMsgs(p, hs) ==
    LET clients == UNION {GetClient(p, h) : h \in hs}
    IN  /\ rpc_cli_mgr' = [rpc_cli_mgr EXCEPT ![p] = @ \cup clients]
        /\ net' = net \cup
              {[from |-> flags[p].host_id, to_host |-> c.host_id,
                to_peer |-> MemberOf(p, c.host_id).peer_id, at |-> c.proc] :
               c \in clients}

\* Peer::Tick, with messages of the Ready for the hosts hs.  A recipient that is
\* no member is looked up at the end of peers_, and one that does not listen
\* aborts the sender; any of the other messages may be out by then.
Tick(p) ==
    /\ stage[p] \in {"ticking", "serving"}
    /\ \E hs \in SUBSET Recipients(p) :
          LET unknown == {h \in hs : \A m \in peers[p] : m.host_id # h}
              refused == {h \in hs \ unknown : GetClient(p, h) = {}}
          IN  \/ /\ unknown \cup refused = {}
                 /\ SendMsgs(p, hs)
                 /\ UNCHANGED <<stage, cause, listening>>
              \/ /\ unknown # {} /\ Fatal(p, "unknown member")
                 /\ \E gs \in SUBSET (hs \ (unknown \cup refused)) : SendMsgs(p, gs)
              \/ /\ refused # {} /\ Fatal(p, "connect")
                 /\ \E gs \in SUBSET (hs \ (unknown \cup refused)) : SendMsgs(p, gs)
    /\ UNCHANGED <<flags, local_peers, peers, heard>>

\* Faulty variant: the host id of a message is not compared.
AddressedAny(m) == TRUE

\* The message names this host.
Addressed(m) == m.to_host = flags[m.at].host_id

\* HandleRaftMsg and HandleRaftMsgCb: the message is for this host and for a
\* peer it holds, which steps it.
HandleRaftMsg(m) ==
    /\ m.at \in listening
    /\ net' = net \ {m}
    /\ \/ /\ ~Addressed(m)
          /\ Fatal(m.at, "wrong host") /\ UNCHANGED heard
       \/ /\ Addressed(m) /\ ~HasLocalPeer(m.at, m.to_peer)
          /\ Fatal(m.at, "no peer") /\ UNCHANGED heard
       \/ /\ Addressed(m) /\ HasLocalPeer(m.at, m.to_peer)
          /\ heard' = [heard EXCEPT ![m.at] = @ \cup {m.from}]
          /\ UNCHANGED <<stage, cause, listening>>
    /\ UNCHANGED <<flags, local_peers, peers, rpc_cli_mgr>>

\* A client's operation is always for local peer 1; with one, Peer!KvOpCb takes
\* it from here.
KvOp(p) ==
    /\ p \in listening
    /\ \/ HasLocalPeer(p, 1) /\ UNCHANGED <<stage, cause, listening>>
       \/ ~HasLocalPeer(p, 1) /\ Fatal(p, "no peer 1")
    /\ UNCHANGED <<flags, tables, net>>

-----------------------------------------------------------------------------
Next ==
    \/ \E p \in Proc : \/ CheckFlags(p) \/ AddLocalPeer(p)
                       \/ StartTimer(p) \/ StartServer(p)
                       \/ Tick(p) \/ KvOp(p) \/ Stop(p)
    \/ \E m \in net : HandleRaftMsg(m)

Spec == Init /\ [][Next]_vars

-----------------------------------------------------------------------------
(***************************************************************************)
(* Correctness.                                                            *)
(***************************************************************************)
Cause == {"none", "flags", "members", "db", "connect", "unknown member", "wrong host",
          "no peer", "no peer 1"}

\* The tables of a server have the entries main and the worker give them, and
\* only a server that got through main listens.
HostTypeOK ==
    /\ flags \in Setups
    /\ stage \in [Proc -> {"off", "checked", "built", "ticking", "serving", "dead"}]
    /\ cause \in [Proc -> Cause]
    /\ \A p \in Proc : stage[p] = "dead" <=> cause[p] # "none"
    /\ listening \subseteq {p \in Proc : stage[p] = "serving"}
    /\ local_peers \in [Proc -> SUBSET Nat]
    /\ peers \in [Proc -> SUBSET Member]
    /\ rpc_cli_mgr \in [Proc -> SUBSET [host_id : Nat, proc : Proc]]
    /\ heard \in [Proc -> SUBSET Nat]
    /\ net \subseteq [from : Nat, to_host : Nat, to_peer : Nat, at : Proc]

Self(p) == [host_id |-> flags[p].host_id, peer_id |-> flags[p].peer_id,
            addr |-> flags[p].addr]

\* The command lines of scripts/host1.sh to host3.sh: every process is one of
\* the same members, no two of which share a host id or an address.
Consistent ==
    /\ \A p \in Proc :
          /\ FlagsOk(flags[p]) /\ MembersOk(flags[p].members)
          /\ Self(p) \in InitGroupMembers(flags[p].members)
          /\ \A m, n \in InitGroupMembers(flags[p].members) :
                m.addr = n.addr => m = n
    /\ \A p, q \in Proc : flags[p].members = flags[q].members

\* Whatever the command lines, a message is stepped only by the host and the
\* peer that the sender's own members name: what HandleRaftMsg's check is for.
SteppedByAddressee ==
    \A p \in Proc : \A h \in heard[p] :
        \E q \in Proc : /\ flags[q].host_id = h
                        /\ \E m \in InitGroupMembers(flags[q].members) :
                              /\ m.host_id = flags[p].host_id
                              /\ m.peer_id = flags[p].peer_id

\* The items p was given for --members.
Given(p) == {flags[p].members[i] : i \in 1..Len(flags[p].members)}

\* Whatever the command lines, a server that has a message for nobody it knows
\* (SendMsg2Peer uses peers_.find(msg.to()) unchecked) was started
\* without somebody who was started with it: only command lines bring it about,
\* never the order of the starts, a restart or a client kept too long.
UnknownIsForeign ==
    \A p \in Proc : cause[p] = "unknown member" =>
        \E q \in Proc : /\ \A m \in Given(p) : m.host_id # flags[q].host_id
                        /\ \E m \in Given(q) : /\ m.host_id = flags[p].host_id
                                               /\ m.peer_id = flags[p].peer_id

\* Every message gets to the host and the peer its sender meant, in whatever
\* order the servers start and however far main has got: with consistent
\* command lines no server ever aborts on a message or on its own command line,
\* and the only assertions left are leveldb's, Connect's and that of peer 1.
MessagesArrive ==
    Consistent => \A p \in Proc : cause[p] \in {"none", "db", "connect", "no peer 1"}

\* Each member is served by a process that was given its ids.
GroupUp ==
    \A p \in Proc : \A m \in InitGroupMembers(flags[p].members) :
        \E q \in listening : Self(q) = m

\* A server of a consistent group whose peers have id 1 is lost in this step.
Lost(p) ==
    /\ Consistent /\ \A q \in Proc : flags[q].peer_id = 1
    /\ p \in listening /\ p \notin listening'

\* While all members of such a group are served no server is lost but by being
\* stopped, although a failed Connect aborts the one that tries.
GroupStaysUp == [][ GroupUp => \A p \in Proc : Lost(p) => Stop(p) ]_vars

\* A server that has a client of everybody it may have messages for outlives
\* their stops and restarts: the clients it cached lead to the right hosts for
\* ever, so that it never comes to Connect, or to an assertion, again.
LinkedStaysUp ==
    [][ \A p \in Proc :
          (\A h \in Recipients(p) : \E c \in rpc_cli_mgr[p] : c.host_id = h)
              => (Lost(p) => Stop(p)) ]_vars

\* KvOpCb asserts "peer should exist" of the peer it hands operations to.
PeerShouldExist ==
    Consistent => \A p \in Proc : cause[p] # "no peer 1"
=============================================================================
