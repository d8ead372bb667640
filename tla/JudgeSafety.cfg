\* Two submissions one after the other; the worker may crash, raise, hang or be
\* killed at a timeout, the site aborts at any time and a SIGINT may come.
CONSTANTS
    s1 = s1
    s2 = s2
    None = None
    Submissions <- MCSubmissions
    Plan <- MCPlan
    SiteSends = {"terminate"}
    Faults = {"crash", "stall", "linger", "raise", "interrupt"}
SPECIFICATION Spec
SYMMETRY MCSymmetry
CHECK_DEADLOCK FALSE
INVARIANTS
    OneGrading
    OneWorker
    CasesBelong
    ResultsInOrder
    NoCutCaseReported
    AbortAfterHandshake
PROPERTIES
    ImplementsLife
