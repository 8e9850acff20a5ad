SPECIFICATION FairSpec
CONSTANTS
    ItemId = {"i1", "i2", "i3"}
    TrackId = {"t1"}
    SessionId = {"s1"}
    NoAnchor = NoAnchor
    OpId = {}
    NoOpId = NoOpId
    SeenOpIds = 1
    Gestures <- GestureOps
    OtherOps <- DeviceOps
    Capacity = 2
    ServerNow = 1
    ReplicaNow = 2
    MaxGestures = 1
    MaxOthers = 3
    MaxFaults = 1
    MaxRestarts = 1
    MaxUnparsed = 1
INVARIANTS ReplicaIsPast
PROPERTIES EventuallyInSync
CHECK_DEADLOCK FALSE
