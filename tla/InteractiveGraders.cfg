\* Two points, a limit of two ticks and two more for the interactor, as many as by
\* default; each pipe holds one message.
SPECIFICATION Spec
CONSTANTS
    Graders = {"interactive", "bridged"}
    Contribs = {"default", "testlib", "coci", "peg"}
    Points = 2
    TL = 2
    WallFactor = 3
    Extra = 2
    Room = 1
    ErrRoom = 1
INVARIANTS
    VerdictEarned
PROPERTIES
    GradingEnds
    WaitingInteractorSpared
CHECK_DEADLOCK FALSE
