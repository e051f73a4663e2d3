CONSTANTS
    Accounts <- MCAccounts
    SystemContracts <- MCSystemContracts
    OtherAddresses <- MCOtherAddresses
    Create = Create
    Malformed = Malformed
    Missing = Missing
    Garbled = Garbled
    Unset = Unset
    FromBlock = 2
    Stride = 2
    WriterPct = 67
    GasLimit = 12
    WriterGas = 4
    WriterUsed = 2
    TransferGas = 1
    BlockFlags = {0, 1, 2}
    TxFlags = {0, 1, 3, 5, 9}
    SchemeFlags = {"hash", "path", "snap"}
    Sender = "sender"
    Writer = "writer"
    Recipient = "recipient"
    Miner = "miner"
    IOErrors = TRUE
    MaxRuns = 2
SPECIFICATION Spec
INVARIANTS
    TypeOK
    ExitZeroIsWhole
    FailsForAReason
    HashTells
    StreamExecutes
    ColdSlotsUnique
