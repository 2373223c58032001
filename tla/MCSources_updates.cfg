\* A feed that cannot be had once.
CONSTANTS
    Collectors = {"garmin_updates"}
    Urls = {1, 2, 3, 4, 5, 6}
    UrlsOf <- MCUrlsOf
    Sites <- MCSites
    Start <- MCStart
    Ids = {"m1", "m2", "p1", "p2", "p3", "g1", "g2"}
    Attempts = 2
    None = None
    MaxRuns = 3
    MaxEdits = 0
    MaxCrashes = 0
SPECIFICATION Spec
CHECK_DEADLOCK FALSE
PROPERTIES
    OnlyNewAppear
