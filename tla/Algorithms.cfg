\* Policies of up to two rules, outputs of up to three characters, archives of up
\* to four files, files of up to five characters.
SPECIFICATION Spec
CONSTANTS
    FileSystems <- MCFileSystems
    Rules <- MCRules
    Threads <- MCThreads
    Calls <- MCCalls
    Files <- MCFiles
    MaxRules = 2
    Number <- MCNumber
    Infinite <- MCInfinite
    Nan = {"n"}
    Upper <- MCUpper
    One = 100
    Alphabets <- MCAlphabets
    Epsilons = {1, 30, 100}
    MaxOutput = 3
    None = None
    ArchiveFiles <- MCArchiveFiles
    CasePoints <- MCCasePoints
    MaxFiles = 4
    Bytes <- MCBytes
    BlockSizes = {1, 2, 3}
    MaxData = 5
    Nothing = Nothing
    Cases <- MCCases
    Disks <- MCDisks
    Runs <- MCRuns
    NoRoot = NoRoot
    ProblemDirs <- MCProblemDirs
    PatternLists <- MCPatternLists
    Ids = {"p", "q"}
    Absent = Absent
    Broken = Broken
    Nodes <- MCNodes
    Dashed <- MCDashed
INVARIANTS
    
    RulesFollowed
    CheckersAgree
    ProblemsRead
CHECK_DEADLOCK FALSE
