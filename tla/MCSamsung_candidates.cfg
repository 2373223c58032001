\* Locked and unlocked runs over changing catalogues and support sites.
CONSTANTS
    p1 = p1
    p2 = p2
    Procs = {p1, p2}
    Unlocked = {p2}
    Listings <- SmallListings
    Region <- RegionOf
    Base <- BaseOf
    Catalogues <- Shown
    SupportSites <- Sites
    Nobody = Nobody
    MaxRuns = 3
    MaxCrashes = 1
SPECIFICATION Spec
CHECK_DEADLOCK FALSE
INVARIANTS
    TypeOK
    EventsAccount
    EventsAreNews
PROPERTIES
    FirstSightKept
