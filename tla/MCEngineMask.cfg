\* Bandwidth with only the engine of the second of two accelerators selected.
SPECIFICATION Spec
CONSTANTS
    a0 = a0
    a1 = a1
    Accels <- MCTwoAccels
    NumEngines <- MCOneEngine
    RunStages = 2
    ActiveStages = 2
    CountStages = 2
    HoldCycles = 6
    RoundTrip = 4
    MaxOut = 1
    Runs <- MCSecondOnly
PROPERTY RunsEnd
