CONSTANTS
    Accounts <- MCAccounts
    SystemContracts <- MCSystemContracts
    OtherAddresses <- MCOtherAddresses
    Create = Create
    Malformed = Malformed
    Corpora <- MCCorpora
    ReadBytes = 0
    MaxBytes = 0
    Horizon = 2
    ClockSteps = TRUE
    Word = 64
SPECIFICATION MCSpec
INVARIANTS
    PhaseShorterThanPass
