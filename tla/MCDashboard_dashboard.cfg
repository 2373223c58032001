\* Two dashboards, one of them read-only, two requests at a time and a run
\* of the command line, with one dashboard killed anywhere.
CONSTANTS
    s1 = s1
    s2 = s2
    q1 = q1
    q2 = q2
    k1 = k1
    k2 = k2
    c1 = c1
    Dashboards = {s1, s2}
    Operators = {s1}
    Requests = {q1, q2}
    Threads = {k1, k2}
    Commands = {c1}
    Decisions = {"USEFUL", "NOT_USEFUL"}
    Limit = 1
    None = None
    Nobody = Nobody
    MaxFound = 1
    MaxRequests = 3
    MaxCrashes = 1
SPECIFICATION FairSpec
CHECK_DEADLOCK FALSE
INVARIANTS
    AnswersStand
    ArchivesOpen
    ControllerTells
PROPERTIES
    CollectionsSettle
