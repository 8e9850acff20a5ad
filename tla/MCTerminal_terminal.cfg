SPECIFICATION Spec
CONSTANTS
    ItemId = {1, 2, 3, 4, 5}
    TrackId = {"t1", "t2"}
    SessionId = {"s"}
    NoAnchor = NoAnchor
    NoTrack = NoTrack
    MaxAttempts = 2
    Starts <- MCStarts
    Lists <- MCLists
    OtherOps <- MCOtherOps
    Ids = {"x", "y"}
    NoId = NoId
    Kinds = {"newest", "random"}
    ViewStarts <- MCViewStarts
    MinUpcoming = 2
    Window = 2
    Sessions = {"s", "r"}
    AutoStarts <- MCAutoStarts
INVARIANTS EchoDriven LocalMatchesShared OneVerdictPerLoad AutoplayBacked NothingStale
PROPERTIES SilentRemote AutoSkipSettles
CHECK_DEADLOCK FALSE
