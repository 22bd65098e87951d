CONSTANTS
    Units = 3
    Large = {0}
    Orders <- Blocks2
    GiveUp <- RefinerFirst
    Calls = 2
    Changes = 2
    MayFail = {"launch", "read"}
    U = 3
    Regions = 2
    Keeps = {0, 2}
    InFlight = 1
    BatchOps = 2
    Buffers <- MCBuffers
    MetalCalls = 2
    Patches = 1
    MetalMayFail = {"read", "wrap", "region", "block", "slow"}
SPECIFICATION MCSpec
CHECK_DEADLOCK FALSE
INVARIANTS
    KernelsReadTheirUnit
    HoldsWhatItSays
    NothingOwed
    KernelsReadTheirOwn
PROPERTIES
    EveryCallEnds
