\* Small regions of one accelerator, bandwidth of two, one engine left out.
SPECIFICATION Spec
CONSTANTS
    a0 = a0
    a1 = a1
    Accels <- MCTwoAccels
    NumEngines <- MCTwoAndOne
    RunStages = 1
    ActiveStages = 2
    CountStages = 1
    HoldCycles = 3
    RoundTrip = 3
    MaxOut = 1
    Runs <- MCTwoAccelRuns
INVARIANTS
    TypeOK
    ResetFindsEngineIdle
    ResultsAreFinal
    ClockReadsAgree
PROPERTIES
    NoCommandIsLost
    RunsEnd
CONSTRAINT NotMisled
