\* Three versions of the files, one connection.
SPECIFICATION FairSpec
CONSTANTS
    MaxVersion = 2
PROPERTIES
    SiteLearnsAll
    PingsAttempted
    UpdaterEnds
CHECK_DEADLOCK FALSE
