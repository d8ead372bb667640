\* Two lines, of which the terminal holds one, and two outputs; the limit of two
\* ticks lets the program compute before and after a wait.  POST /run waits as long
\* as RLIMIT_CPU lets a program compute, ten seconds both.
SPECIFICATION Spec
CONSTANTS
    Kinds = {"terminal", "http"}
    Stubborn = {"http"}
    Mains = {"terminal", "futex", "pipe"}
    Wide = {1}
    Lines = 2
    Writes = 2
    InRoom = 1
    OutRoom = 2
    Limit = 2
    CpuLimit = 3
    HttpLimit = 3
INVARIANTS
    ProtocolKept
    DataKept
    TimeLimitExact
PROPERTIES
    SessionsEnd
CHECK_DEADLOCK FALSE
