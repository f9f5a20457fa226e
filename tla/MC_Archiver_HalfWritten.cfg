CONSTANTS
    a = a
    b = b
    c = c
    e1 = e1
    e2 = e2
    Forged = Forged
    MaxTick = 5
    TxIds <- MCTxIds
    Epochs <- MCEpochs
    Body <- MCBody
    EpochOf <- MCEpochOf
    EmptyTicks = {2}
    Transfers <- MCTransfers
    AssetTxs <- MCAssetTxs
    MaxCrashes = 0
    FirstVoteMayDissent = FALSE
    NodeMayRepeat = FALSE
SPECIFICATION Spec
INVARIANTS
    TickDataComplete
