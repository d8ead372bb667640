\* Liveness with fair threads of the judge and no fairness for its workers, every
\* packet of the site, workers that crash and a SIGINT.
CONSTANTS
    s1 = s1
    s2 = s2
    None = None
    Submissions <- MCSubmissions
    Plan <- MCOnePlan
    SiteSends = {"terminate", "query", "disconnect"}
    Faults = {"crash", "stall", "interrupt"}
SPECIFICATION FairSpec
CHECK_DEADLOCK FALSE
PROPERTIES
    EventuallyAnswered
    NetworkResponsive
    OrphansExit
