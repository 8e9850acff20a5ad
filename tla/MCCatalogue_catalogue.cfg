SPECIFICATION Spec
CONSTANTS
    Tracks = {t1, t2, t3}
    Workers = {w1, w2}
    Nobody = Nobody
    BadClips = {t3}
    Untagged = {t3}
    Settings = {TRUE, FALSE}
    FullEvery = 2
    Budgets <- MCBudgets
    Songs = {s1, s2}
    NoSong = NoSong
    Callers = {c1, c2, c3}
    Tagged = {}
    Listed <- MCListed
    Albumless = {}
    Untimed = {}
    Nameless = {s2}
    MaxConcurrent = 2
    LyricsBudget <- MCLyricsBudget
    Entries = {k1, k2, k3}
    NoEntry = NoEntry
    Tasks = {f1, f2}
    Bytes <- MCBytes
    Regular <- MCRegular
    PinnedBudget = 1
    AudioBounds <- MCAudioBounds
    Sources = {p1, p2, p3}
    Attempts = {l1, l2}
    MaxFailures = 2
    Lockout = 2
    MaxPerWindow = 1
    Window = 2
    MaxTracked = 2
    LastInstant = 4
    MinNew = 2
    QuietMinutes = 2
    KeepRuns = 2
    MaxEmbedded = 4
    MaxMinutes = 8
    ProjFaults = 2
    small = small
    large = large
    second = second
    third = third
    song = song
    list = list
    al1 = al1
    al2 = al2
    al3 = al3
    mf1 = mf1
    Album = Album
    Svg = Svg
    Default = Default
    Missing = Missing
    Absent = Absent
    Covers = {small, large, second, third, song}
    IdOf <- MCIdOf
    TrackIds = {mf1}
    Lists = {list}
    Art <- MCArt
    Visitors = {v1, v2}
    Threshold = 2
SYMMETRY Symmetric
INVARIANTS BootRestores NothingUnsaved SingleFlight BudgetHolds LimitsHold SiblingsAgree StandInsHidden
PROPERTIES ClaimsAreExclusive
CHECK_DEADLOCK FALSE
