\* The installer has finished with every step well: what a client is offered then.
SPECIFICATION Spec
CONSTANTS
    Threads = {main}
    Main = main
    Boots <- AllSteps
    Steps = {}
    MaxAge = 2
    Probe = 1
    Fails = FALSE
INVARIANTS
    OnlyExecutable
CHECK_DEADLOCK FALSE
