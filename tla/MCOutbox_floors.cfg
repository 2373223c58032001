\* Two drains, a longer clock and 429s, a wait of 0 among them, without end:
\* floors, and progress under the schedule's fairness once they stop.
CONSTANTS
    d1 = d1
    d2 = d2
    t1 = t1
    NoHeader = NoHeader
    NotANumber = NotANumber
    NoTime = NoTime
    NoCutoff = NoCutoff
    Unreadable = Unreadable
    Nobody = Nobody
    Rows = {1, 2}
    Drainers = {d1, d2}
    Testers = {}
    MaxAttempts = 2
    MaxRetryAfter = 1
    DefaultRetryAfter = 1
    RetryHeaders = {0, 2, NoHeader}
    Aims = {"channel"}
    MaxClock = 2
    MaxCrashes = 0
    MaxRequeues = 0
    MaxCutoffs = 0
SPECIFICATION FairSpec
INVARIANTS
    RetryFloorBounded
PROPERTIES
    FloorRespected
    QueueSettles
