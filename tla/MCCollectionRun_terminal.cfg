\* The store fails after the healthy evidence is in: the gate should not open.
CONSTANTS
    p1 = p1
    p2 = p2
    Nothing = Nothing
    Nobody = Nobody
    Procs = {p1, p2}
    Unlocked = {}
    Items = {1, 2, 3, 4}
    Observations <- Seen
    Snapshots <- OnePage
    Materials = {"old", "new"}
    Trusted = {"new"}
    Triggers = {"MANUAL"}
    Paths = {"cli"}
    MayNotify = TRUE
    ZeroIsFailure = TRUE
    MaxExecutions = 2
    MaxFaults = 1
    MaxCrashes = 0
SPECIFICATION Spec
CHECK_DEADLOCK FALSE
INVARIANT
    DivergentIneligible
