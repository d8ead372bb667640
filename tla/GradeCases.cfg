\* Problems of up to three items, and of up to two with up to two pretests; every
\* combination of verdicts.
CONSTANT Problems <- MCProblems
SPECIFICATION Spec
CHECK_DEADLOCK FALSE
INVARIANTS
    SkipRule
    DependenciesRespected
PROPERTIES
    AllCasesReported
