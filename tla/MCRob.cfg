CONSTANTS
    N_ENTRIES = 8
    MAX_ALLOC_PER_CYCLE = 2
    MIN_FREE_SLOTS = 4
    NUM_VALID_MAX = 3
    RESET_CYCLES = 2
    Data <- MCData
    NoData <- MCNoData
    Response <- MCResponse
SPECIFICATION FairSpec
INVARIANTS TypeOK AllocNeverOverruns ReadyEntriesAreReadable
PROPERTIES OrderedDelivery OldestBecomesReady EmptyBecomesAvailable
