CONSTANTS
    Ticks <- MC_Ticks
    TxIds = {"a", "b", "c"}
    Body <- MC_Body
    AssetTxs = {"a", "c"}
    NoTick = NoTick
    MaxCrashes = 2
    ReadMayFail = TRUE
    FreshStore = FALSE
SPECIFICATION Spec
INVARIANTS
    MigratedIndexComplete
