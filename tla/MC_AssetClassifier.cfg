CONSTANTS
    A = A
    B = B
    QX = QX
    QUTIL = QUTIL
    Identities = {A, B}
    AssetNames = {"CFB"}
INIT Init
NEXT Next
INVARIANT QxAssetIndexSound
