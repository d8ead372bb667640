\* Five executors of three sources, two of them with one key, over a cache of two;
\* files may vanish.
SPECIFICATION CacheSpec
CONSTANTS
    Objects = {o1, o2, o3, o4, o5}
    s1 = s1
    s2 = s2
    s3 = s3
    k1 = k1
    k2 = k2
    Sources <- MCSources
    Key <- MCKey
    None = None
    Size = 2
    Sweeps = TRUE
SYMMETRY Symmetry
INVARIANTS
    EntriesKeepFiles
    RightBinary
    CleanedUp
CHECK_DEADLOCK FALSE
