SPECIFICATION Spec
CONSTANTS
    ItemId = {"i1"}
    TrackId = {"t1"}
    SessionId = {"s1"}
    NoAnchor = NoAnchor
    OpId = {1, 2}
    NoOpId = NoOpId
    SeenOpIds = 1
    MyOps <- ListenerOps
    OtherOps <- HouseholdOps
    Capacity = 1
    ServerNow = 1
    ClientNow = 2
    MaxSubmits = 2
    MaxOthers = 1
    MaxFaults = 1
    MaxPings = 1
INVARIANTS InStep AppliedOnce SubmissionOrder
PROPERTIES LeavesLedgerDecided
