\* Three hosts, two terms: one order of effects for the clients of all hosts.
SPECIFICATION Spec
CONSTANTS
    r1 = r1
    r2 = r2
    h1 = h1
    h2 = h2
    h3 = h3
    k1 = k1
    v1 = v1
    Key = {k1}
    Val = {v1}
    NoVal = NoVal
    NoOp = NoOp
    NoReq = NoReq
    NoHost = NoHost
    Request = {r1, r2}
    Host = {h1, h2, h3}
    Leader <- MCLeader
    Cmd <- MCCmd
    Home <- MCHome
    Site = NoHost
    MaxTerm = 2
    MaxLog = 4
INVARIANT
    ReplicasAgree
PROPERTY
    GroupIsStore
CHECK_DEADLOCK FALSE
