SPECIFICATION Spec
CONSTANTS
    ItemId = {1, 2, 3}
    TrackId = {"t1", "t2", "t3"}
    SessionId = {"s"}
    NoAnchor = NoAnchor
    NoTrack = NoTrack
    MaxAttempts = 2
    Starts <- MCStarts
    Lists <- MCLists
    OtherOps = {}
INVARIANT PlayNextLandsNext
CHECK_DEADLOCK FALSE
