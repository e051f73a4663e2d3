CONSTANTS
    Files = {"chaindata"}
    Links = {"ancient"}
    Stores = {"chaindata", "ancient"}
    Ancient = "ancient"
    Extra = "wal"
    Verdicts = {TRUE}
    IOErrors = FALSE
    CpFails = FALSE
    MaxRuns = 1
SPECIFICATION Spec
INVARIANTS
    NoFreezerContention
