\* Any one of fourteen steps failed before the server was started, or none, or the
\* script was aborted; one more is under way; three threads ask for the catalogue.
SPECIFICATION Spec
CONSTANTS
    Threads = {main, t1, t2}
    Main = main
    Boots <- MCBoots
    Steps = {"openjdk"}
    MaxAge = 2
    Probe = 1
    Fails = TRUE
INVARIANTS
    OffersRun
PROPERTIES
    AnswersFresh
SYMMETRY Symmetry
CHECK_DEADLOCK FALSE
