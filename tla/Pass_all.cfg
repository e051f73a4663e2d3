CONSTANTS
    Accounts <- MCAccounts
    SystemContracts <- MCSystemContracts
    OtherAddresses <- MCOtherAddresses
    Create = Create
    Malformed = Malformed
    Corpora <- MCCorpora
    ReadBytes = 1
    MaxBytes = 2
    Horizon = 2
    ClockSteps = TRUE
    Word = 64
SPECIFICATION MCSpec
INVARIANTS
    TypeOK
    CountersAgree
    RejectOnlyAfterSkip
    BytesCountedOnce
    PhasesWithinWall
PROPERTIES
    ImplementsReplay
    AtMostOneBlockAfterInterrupt
