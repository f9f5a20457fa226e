CONSTANTS
    KeyTicks = {2, 3}
    MaxIdsPerTick = 2
    TickModulus = 5
    LastProcessedTick = 3
    EndTicks = {3}
    Limits = {1, 2}
    MaxCalls = 8
SPECIFICATION Spec
INVARIANTS
    PaginationLaw
