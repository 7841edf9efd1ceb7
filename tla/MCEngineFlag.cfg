\* Small regions of one accelerator.
SPECIFICATION Spec
CONSTANTS
    a0 = a0
    a1 = a1
    Accels <- MCOneAccel
    NumEngines <- MCTwoEngines
    RunStages = 2
    ActiveStages = 2
    CountStages = 2
    HoldCycles = 6
    RoundTrip = 12
    MaxOut = 1
    Runs <- MCSmallRegions
INVARIANT LowFlagMeansDone
