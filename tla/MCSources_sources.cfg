\* Three collectors, one for each way to meet a page that cannot be had, two
\* edits of the web and a crash anywhere.
CONSTANTS
    Collectors = {"samsung_support", "garmin_updates", "garmin_catalogue"}
    Urls = {1, 2, 3, 4, 5, 6}
    UrlsOf <- MCUrlsOf
    Sites <- MCSites
    Start <- MCStart
    Ids = {"m1", "m2", "p1", "p2", "p3", "g1", "g2"}
    Attempts = 2
    None = None
    MaxRuns = 3
    MaxEdits = 2
    MaxCrashes = 1
SPECIFICATION FairSpec
CHECK_DEADLOCK FALSE
PROPERTIES
    RemovalsTrue
    CollectionsEnd
