\* Two servers whose peers have id 2.
SPECIFICATION Spec
CONSTANTS
    p1 = p1
    p2 = p2
    p3 = p3
    a1 = a1
    a2 = a2
    a3 = a3
    Proc = {p1, p2}
    Addr = {a1, a2, a3}
    NoAddr = NoAddr
    BadMember = BadMember
    Setups <- OtherPeerSetup
    Stoppable = {}
INVARIANT
    PeerShouldExist
CHECK_DEADLOCK FALSE
