CONSTANTS
    Probes <- MCProbes
    Questions <- MCQuestions
    Needed <- MCNeeded
    Inputs <- MCInputs
SPECIFICATION MCSpec
INVARIANTS
    ReportTypeOK
    NoSendOnClosed
    FoundIsUsable
    PercentilesAreRanks
    DiskTotalsAreTrue
    DisksAreTheHolders
    CoresCounted
PROPERTIES
    ImplementsFirstAnswer
    NothingLeaks
