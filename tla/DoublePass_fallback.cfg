CONSTANTS
    Files = {"chaindata", "ancient"}
    Links = {"current"}
    Stores = {"chaindata", "ancient"}
    Ancient = "ancient"
    Extra = "wal"
    Verdicts = {TRUE}
    IOErrors = FALSE
    CpFails = TRUE
    MaxRuns = 1
SPECIFICATION Spec
INVARIANTS
    FallbackCopies
