\* Nothing is dropped: three requests here, an overwrite through another peer.
SPECIFICATION FairSpec
CONSTANTS
    r1 = r1
    r2 = r2
    r3 = r3
    f1 = f1
    k1 = k1
    v1 = v1
    v2 = v2
    Key = {k1}
    Val = {v1, v2}
    NoVal = NoVal
    NoOp = NoOp
    NoReq = NoReq
    Request = {r1, r2, r3, f1}
    Req = {r1, r2, r3}
    Cmd <- CmdOverwrite
    Logs <- MCLogs
    MaxTerm = 2
    MaxLog = 4
    MaxUncommitted = 3
PROPERTIES
    EveryRequestAnswered
    ImplementsKvStore
CHECK_DEADLOCK FALSE
