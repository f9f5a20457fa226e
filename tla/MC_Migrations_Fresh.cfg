CONSTANTS
    Ticks <- MC_Ticks
    TxIds = {"a", "b", "c"}
    Body <- MC_Body
    AssetTxs = {"a", "c"}
    NoTick = NoTick
    MaxCrashes = 2
    ReadMayFail = FALSE
    FreshStore = TRUE
SPECIFICATION Spec
PROPERTIES
    StartupCompletes
