CONSTANTS
    Units = 3
    Large = {0}
    Orders <- Blocks2
    GiveUp <- RefinerFirst
    Calls = 2
    Changes = 1
    MayFail = {"settle"}
    U = 1
    Regions = 1
    Keeps = {0}
    InFlight = 1
    BatchOps = 1
    Buffers = {1}
    MetalCalls = 1
    Patches = 0
    MetalMayFail = {}
SPECIFICATION MCSpec
CHECK_DEADLOCK FALSE
INVARIANTS
    KernelsReadTheirUnit
