CONSTANTS
    Cores = 1
    Horizon = 2
    MaxSamples = 2
    Word = 64
    ReadsMayFail = TRUE
SPECIFICATION Spec
INVARIANTS
    CpuDeltaIsReal
