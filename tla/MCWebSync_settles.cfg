SPECIFICATION FairSpec
CONSTANTS
    ItemId = {"i1"}
    TrackId = {"t1"}
    SessionId = {"s1"}
    NoAnchor = NoAnchor
    OpId = {1}
    NoOpId = NoOpId
    SeenOpIds = 4
    MyOps <- ListenerOps
    OtherOps <- HouseholdOps
    Capacity = 4
    ServerNow = 1
    ClientNow = 2
    MaxSubmits = 1
    MaxOthers = 1
    MaxFaults = 1
    MaxPings = 1
PROPERTIES EventuallySettled
