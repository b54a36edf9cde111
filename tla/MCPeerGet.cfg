\* A put, a deletion and a read of one key under one leader.
SPECIFICATION Spec
CONSTANTS
    r1 = r1
    r2 = r2
    r3 = r3
    f1 = f1
    k1 = k1
    v1 = v1
    v2 = v2
    Key = {k1}
    Val = {v1, v2}
    NoVal = NoVal
    NoOp = NoOp
    NoReq = NoReq
    Request = {r1, r2, r3}
    Req = {r1, r2, r3}
    Cmd <- CmdPutGetDel
    Logs <- MCLogs
    MaxTerm = 1
    MaxLog = 4
    MaxUncommitted = 3
INVARIANT
    GetAfterDelIsHarmless
CHECK_DEADLOCK FALSE
