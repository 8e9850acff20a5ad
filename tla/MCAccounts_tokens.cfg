SPECIFICATION Spec
CONSTANTS
    AccessTTL = 1
    RefreshTTL = 2
    CodeTTL = 2
    SessionTTL = 3
    GuestTTL = 2
    Grace = 2
    MaxTime = 4
    Quick = 1
    Slots = {p1, p2, b1}
    Procs = {p1, p2}
    Browsers = {b1}
    Profiles <- MCProfiles
INVARIANTS ChainNeverForks CodeMintsOnce AccessDiesWithParent CredentialSurvives
CHECK_DEADLOCK FALSE
