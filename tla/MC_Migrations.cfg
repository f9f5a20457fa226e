CONSTANTS
    Ticks <- MC_Ticks
    TxIds = {"a", "b", "c"}
    Body <- MC_Body
    AssetTxs = {"a", "c"}
    NoTick = NoTick
    MaxCrashes = 2
    ReadMayFail = FALSE
    FreshStore = FALSE
SPECIFICATION Spec
INVARIANTS
    TypeOK
    MigratedIndexComplete
PROPERTIES
    StartupCompletes
