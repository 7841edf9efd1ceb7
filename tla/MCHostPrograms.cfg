\* Five programs compete for three accelerators.
SPECIFICATION Spec
CONSTANTS
    p1 = p1
    p2 = p2
    a1 = a1
    a2 = a2
    a3 = a3
    NoProc = NoProc
    Procs <- MCProcs
    Accels <- MCAccels
    Address <- MCAddress
    MayRun <- MCMayRun
    Args <- MCArgs
    MaxTokens = 2
    MaxAllowed = 3
INVARIANTS
    TypeOK
    TestRunsOnItsAccels
    NothingLeftBehind
    ZeroStatusMeansTested
PROPERTY EveryRunEnds
