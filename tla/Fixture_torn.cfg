CONSTANTS
    Accounts <- MCAccounts
    SystemContracts <- MCSystemContracts
    OtherAddresses <- MCOtherAddresses
    Create = Create
    Malformed = Malformed
    Missing = Missing
    Garbled = Garbled
    Unset = Unset
    FromBlock = 2
    Stride = 2
    WriterPct = 67
    GasLimit = 12
    WriterGas = 4
    WriterUsed = 2
    TransferGas = 1
    BlockFlags = {1, 2}
    TxFlags = {1}
    SchemeFlags = {"hash"}
    Sender = "sender"
    Writer = "writer"
    Recipient = "recipient"
    Miner = "miner"
    IOErrors = FALSE
    MaxRuns = 2
SPECIFICATION Spec
INVARIANTS
    LoadedCountFits
