CONSTANTS
    KeyTicks = {1, 2, 3}
    MaxIdsPerTick = 2
    TickModulus = 5
    LastProcessedTick = 3
    EndTicks = {0, 2, 3}
    Limits = {0, 1, 2}
    MaxCalls = 8
SPECIFICATION Spec
INVARIANTS
    TypeOK
    PageMatchesReference
    NothingSkipped
