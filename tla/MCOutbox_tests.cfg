\* A drain and a test send over the same queue.
CONSTANTS
    d1 = d1
    d2 = d2
    t1 = t1
    NoHeader = NoHeader
    NotANumber = NotANumber
    NoTime = NoTime
    NoCutoff = NoCutoff
    Unreadable = Unreadable
    Nobody = Nobody
    Rows = {1, 2}
    Drainers = {d1}
    Testers = {t1}
    MaxAttempts = 2
    MaxRetryAfter = 1
    DefaultRetryAfter = 1
    RetryHeaders = {0, NotANumber}
    Aims = {"channel"}
    MaxClock = 0
    MaxCrashes = 1
    MaxRequeues = 1
    MaxCutoffs = 0
SPECIFICATION Spec
INVARIANTS
    GrantExclusion
    DuplicatesExplained
PROPERTIES
    SentIsFinal
