\* The three servers of scripts/, started in any order, and two servers, one of
\* them started with any of a dozen command lines.
SPECIFICATION Spec
CONSTANTS
    p1 = p1
    p2 = p2
    p3 = p3
    a1 = a1
    a2 = a2
    a3 = a3
    Proc = {p1, p2, p3}
    Addr = {a1, a2, a3}
    NoAddr = NoAddr
    BadMember = BadMember
    Setups <- AllSetups
    Stoppable = {p2}
INVARIANTS
    HostTypeOK
    SteppedByAddressee
    UnknownIsForeign
    MessagesArrive
PROPERTIES
    GroupStaysUp
    LinkedStaysUp
CHECK_DEADLOCK FALSE
