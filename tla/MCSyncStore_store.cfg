SPECIFICATION MCSpec
CONSTANTS
    ItemId = {"i1", "i2", "i3"}
    TrackId = {"t1", "t2"}
    SessionId = {"s1", "s2"}
    NoAnchor = NoAnchor
    OpId = {a, b, c}
    NoOpId = NoOpId
    SeenOpIds = 2
    RoomId = {1}
    Handler = {h1, h2}
    Ops <- AllOps
    MaxClock = 1
    MaxVersion = 5
    MaxFaults = 1
INVARIANTS TypeOK CursorInBounds QueueIdsDistinct OneOpenRow ResendsRecognised
PROPERTIES NowPlayingKept ClosedRowsFinal
SYMMETRY Symmetry
CHECK_DEADLOCK FALSE
