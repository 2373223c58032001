\* Two drains, replays included, every fault once.
CONSTANTS
    d1 = d1
    d2 = d2
    t1 = t1
    NoHeader = NoHeader
    NotANumber = NotANumber
    NoTime = NoTime
    NoCutoff = NoCutoff
    Unreadable = Unreadable
    Nobody = Nobody
    Rows = {1, 2}
    Drainers = {d1, d2}
    Testers = {}
    MaxAttempts = 2
    MaxRetryAfter = 1
    DefaultRetryAfter = 1
    RetryHeaders = {2}
    Aims = {"channel"}
    MaxClock = 1
    MaxCrashes = 1
    MaxRequeues = 1
    MaxCutoffs = 1
SPECIFICATION Spec
SYMMETRY Interchangeable
INVARIANTS
    TypeOK
    SnapshotFresh
    RetryBudget
PROPERTIES
    HeldUntilReplayed
    CutoffRespected
    ImplementsContract
