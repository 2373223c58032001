\* Two runs on two hosts and a backup, with a kill or an unwritten owner record anywhere.
CONSTANTS
    r1 = r1
    r2 = r2
    b1 = b1
    Runs = {r1, r2}
    Unlocked = {}
    Backups = {b1}
    ReadOnly = {b1}
    Hosts = {"h1", "h2"}
    Seeds = 2
    Articles = {1, 2, 3}
    Promoted = {1, 2}
    Feeds = {{3}, {1, 2, 3}}
    NoHost = NoHost
    Nobody = Nobody
    MaxRuns = 3
    MaxFaults = 1
SPECIFICATION FairSpec
CHECK_DEADLOCK FALSE
INVARIANTS
    HolderNamed
    SeedsPresent
    HostTrail
    EvidenceAccounted
    BackupSettled
PROPERTIES
    LockComesFree
