CONSTANTS
    Names = {1, 2}
    Calls <- MCCalls
    Room = 14
    PageCells = 2
    ChunkCells = 2
    ReadDepth = 1
    WriteDepth = 2
    Patience = 1
    MayFail = {"open", "link", "register", "join", "post", "wire", "leave"}
SPECIFICATION Spec
INVARIANTS
    LandsWhole
    QuietBetween
PROPERTIES
    TouchesWhatIsHeld
    EveryCallReturns
