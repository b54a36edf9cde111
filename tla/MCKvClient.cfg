\* Three clients.
SPECIFICATION FairSpec
CONSTANTS
    r1 = r1
    r2 = r2
    r3 = r3
    k1 = k1
    v1 = v1
    Key = {k1}
    Val = {v1}
    NoVal = NoVal
    NoOp = NoOp
    Request = {r1, r2, r3}
    Req = {r1, r2, r3}
    Cmd <- MCCmd
    MaxEffects = 3
INVARIANTS
    ClientTypeOK
    SuccessInOrder
PROPERTY
    ClientEnds
CHECK_DEADLOCK FALSE
