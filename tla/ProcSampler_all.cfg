CONSTANTS
    Cores = 2
    Horizon = 3
    MaxSamples = 3
    Word = 64
    ReadsMayFail = FALSE
SPECIFICATION Spec
INVARIANTS
    TypeOK
    CpuConserved
    WindowsTile
    DrainComplete
PROPERTIES
    NoSampleAfterDrain
    StopReturns
