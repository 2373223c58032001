\* A locked run beside an unlocked one, of trusted and untrusted material and
\* triggers: evidence, the gate, and progress.
CONSTANTS
    p1 = p1
    p2 = p2
    Nothing = Nothing
    Nobody = Nobody
    Procs = {p1, p2}
    Unlocked = {p2}
    Items = {1, 2, 3, 4}
    Observations <- Seen
    Snapshots <- OnePage
    Materials = {"old", "new"}
    Trusted = {"new"}
    Triggers = {"MANUAL", "UNKNOWN"}
    Paths = {"cli"}
    MayNotify = TRUE
    ZeroIsFailure = TRUE
    MaxExecutions = 2
    MaxFaults = 1
    MaxCrashes = 1
SPECIFICATION FairSpec
CHECK_DEADLOCK FALSE
INVARIANTS
    ExecutionLedger
    GateEarned
PROPERTY
    EveryRunReports
