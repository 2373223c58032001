\* Locked runs over every kind of page: what the discoveries tell.
CONSTANTS
    p1 = p1
    p2 = p2
    Nothing = Nothing
    Nobody = Nobody
    Procs = {p1, p2}
    Unlocked = {}
    Items = {1, 2, 3, 4}
    Observations <- Seen
    Snapshots <- Pages
    Materials = {"old", "new"}
    Trusted = {"new"}
    Triggers = {"MANUAL"}
    Paths = {"cli"}
    MayNotify = TRUE
    ZeroIsFailure = TRUE
    MaxExecutions = 3
    MaxFaults = 1
    MaxCrashes = 1
SPECIFICATION Spec
SYMMETRY Interchangeable
CHECK_DEADLOCK FALSE
INVARIANTS
    TypeOK
    HistoryTells
    ResetsOnlyOnChange
    HealthMirrorsLastRun
PROPERTY
    ImplementsWatch
