SPECIFICATION Spec
CONSTANTS
    EditionKeywords = {"live"}
    s1 = s1  s2 = s2  i1 = i1  i2 = i2  i3 = i3
    Handlers = {h1, h2}
    Signals <- MCSignals
    Measured = {1}
    Gap = 0
    NoId = NoId
    Nothing = Nothing
    Embedded = {1, 2, 3, 4, 5}
    Near <- MCNear
    Meta <- MCMeta
    None = None
    LikeBonus = 2  AlbumBonus = 1  ArtistBonus = 1
    MaxN = 6  FilterBuffer = 2  MmrBuffer = 2
    Callers = {c1, c2}
    Jitters <- MCJitters
    Temperature = 1
    Cooldown = 0
    PlayedWindow = 2
    PrefWeight = 1
    MaxNow = 2
    Lists = {1}
    Writers = {w1, w2}
    Users = {1, 2, 3}
    Guests = {3}
    Edits <- MCEdits
    MaxEdits = 5
INVARIANTS

    LateSignalsAgeRight ResendsCountOnce RestartKeepsSession
    SlateClean QueueRules MmrGreedy MembersOnce
SYMMETRY Symmetric
CHECK_DEADLOCK FALSE
