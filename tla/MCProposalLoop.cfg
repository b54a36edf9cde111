\* Deques of up to three proposals, sorted or not.
SPECIFICATION Spec
CONSTANTS
    NoReq = NoReq
    MaxLen = 3
    MaxIndex = 3
    MaxTerm = 2
    Waiter <- MCWaiter
    Deques <- MCDeques
    Places <- MCPlaces
INVARIANTS
    PopsInOrder
    ReturnsGetProposal
PROPERTY
    LoopEnds
CHECK_DEADLOCK FALSE
