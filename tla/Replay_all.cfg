CONSTANTS
    Files = {"chaindata", "ancient"}
    Links = {"current"}
    Stores = {"chaindata", "ancient"}
    Ancient = "ancient"
    Extra = "wal"
    Verdicts = {TRUE, FALSE}
    IOErrors = TRUE
    CpFails = TRUE
    MaxRuns = 2
    BadFlags = TRUE
    BadCorpora = TRUE
SPECIFICATION CmdSpec
INVARIANTS
    ReplayTypeOK
    PristineOpen
    PassesAgree
    WarmIsWarm
    ResultNeverPartial
    CSVsNotNewer
    ExitZeroMeansAllThree
    NoTempLeft
PROPERTIES
    InterruptWins
    ResultOnlyAfterMeasured
    RunEnds
