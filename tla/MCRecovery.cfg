\* One host over a log of up to four entries, stopped twice.
SPECIFICATION FairSpec
CONSTANTS
    r1 = r1
    r2 = r2
    r3 = r3
    r4 = r4
    r5 = r5
    r6 = r6
    k1 = k1
    k2 = k2
    v1 = v1
    v2 = v2
    Key = {k1, k2}
    Val = {v1, v2}
    NoVal = NoVal
    NoOp = NoOp
    Request = {r1, r2, r3, r4, r5, r6}
    Cmd <- MCCmd
    MaxLog = 4
    MaxStops = 2
    MaxLives = 1
INVARIANTS
    RecoveryTypeOK
    Converges
    ReadsFollowLog
PROPERTY
    CatchesUp
CHECK_DEADLOCK FALSE
