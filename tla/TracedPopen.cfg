\* A process with a time limit and every thread, and the two processes of its program: safety and termination.
SPECIFICATION FairSpec
CONSTANTS
    Limited = TRUE
INVARIANTS
    SignalsReachProgram
    TimeVerdict
    FaultVerdict
    NoSurvivors
PROPERTIES
    WaitReturns
CHECK_DEADLOCK FALSE
