SPECIFICATION Spec
CONSTANTS
    ItemId = {"i1", "i2"}
    TrackId = {"t1"}
    SessionId = {"s1"}
    NoAnchor = NoAnchor
    OpId = {1, 2, 3}
    NoOpId = NoOpId
    SeenOpIds = 4
    MyOps <- NoOps
    OtherOps <- CursorOps
    Capacity = 2
    ServerNow = 1
    ClientNow = 2
    MaxSubmits = 3
    MaxOthers = 3
    MaxFaults = 0
    MaxPings = 1
INVARIANTS Converged
