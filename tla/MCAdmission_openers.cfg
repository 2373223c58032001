\* Two openers of every generation, with kills, statement errors and a newer
\* release.
CONSTANTS
    p1 = p1
    p2 = p2
    Procs = {p1, p2}
    Tables <- AllTables
    Columns <- AllColumns
    Born = {"metadata_json"}
    Position <- Order
    Expected = 4
    Stores <- Generations
    MaxCrashes = 1
    MaxFaults = 1
    MaxUpgrades = 1
SPECIFICATION FairSpec
INVARIANTS
    AdmittedComplete
PROPERTIES
    MarkedNeverStranded
    MarkerNeverFalls
    MarkedOpensSucceed
