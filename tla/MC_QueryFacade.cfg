CONSTANTS
    a = a
    b = b
    c = c
    e1 = e1
    e2 = e2
    Forged = Forged
    MalformedId = MalformedId
    MaxTick = 5
    TxIds <- MCTxIds
    Epochs <- MCEpochs
    Body <- MCBody
    EpochOf <- MCEpochOf
    EmptyTicks = {2}
    Transfers <- MCTransfers
    AssetTxs <- MCAssetTxs
    MaxCrashes = 2
    FirstVoteMayDissent = FALSE
    NodeMayRepeat = FALSE
SPECIFICATION FacadeSpec
INVARIANTS
    FacadeTypeOK
    ProcessedTicksIndexed
    NoOrphanTransactions
    ReadAfterLastProcessedTick
PROPERTIES
    EveryTickArchived
    ImplementsArchiveIndex
    LastProcessedNeverRegresses

