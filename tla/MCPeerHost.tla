----------------------------- MODULE MCPeerHost -----------------------------
(* Small groups of servers for TLC: the command lines of the scripts, and   *)
(* variations in which one of them differs.                                 *)
EXTENDS PeerHost, TLC

CONSTANTS p1, p2, p3, a1, a2, a3

M(h, peer, a) == [host_id |-> h, peer_id |-> peer, addr |-> a]
F(m, ms) == [host_id |-> m.host_id, peer_id |-> m.peer_id, addr |-> m.addr,
             members |-> ms]

Members == <<M(1, 1, a1), M(2, 1, a2), M(3, 1, a3)>>

Pair(x, y) == (p1 :> x) @@ (p2 :> y)
Two == <<M(1, 1, a1), M(2, 1, a2)>>

\* scripts/host1.sh, host2.sh and host3.sh, and a group of two with one of its
\* servers started twice.
ScriptSetups ==
    {Pair(F(Members[1], Members), F(Members[2], Members)) @@
        (p3 :> F(Members[3], Members)),
     Pair(F(Two[1], Two), F(Two[1], Two)) @@ (p3 :> F(Two[2], Two))}

\* What a second server may be given besides its proper command line.
Others ==
    {F(Two[2], Two),                                  \* as it should be
     F(M(0, 1, a2), Two), F(M(2, 0, a2), Two),        \* an id is missing
     F(M(2, 1, NoAddr), Two), F(Two[2], << >>),       \* no port, no members
     F(Two[2], <<Two[1], BadMember>>),                \* a malformed item
     F(Two[2], <<Two[1], M(1, 1, a2)>>),              \* a host twice
     F(M(3, 1, a2), Two),                             \* not a member
     F(M(2, 2, a2), Two),                             \* another peer id
     F(M(2, 1, a1), Two),                             \* an address in use
     F(M(3, 1, a2), <<Two[1], M(3, 1, a2)>>),         \* another group
     F(Two[2], <<Two[1], Two[2], M(3, 1, a3)>>)}      \* a third, absent, host

\* A third process that CheckFlags turns away: it has no members.
Refused == F(M(3, 1, a3), << >>)

\* One of two servers has any of these command lines, the one that is stopped
\* (p2) or the other.
MixedSetups ==
    UNION {{Pair(F(Two[1], Two), y), Pair(y, F(Two[1], Two))} : y \in Others}

AllSetups == ScriptSetups \cup {f @@ (p3 :> Refused) : f \in MixedSetups}

\* A group whose peers have another id than 1.
OtherPeer == <<M(1, 2, a1), M(2, 2, a2)>>
OtherPeerSetup == {Pair(F(OtherPeer[1], OtherPeer), F(OtherPeer[2], OtherPeer))}
=============================================================================
