SPECIFICATION Spec
CONSTANTS
    N = 3
    Paths <- MCPaths
    Tries = 1
    MayFail = {"refuse", "join", "decode", "register", "read", "link"}
INVARIANTS
    InItsPlace
    FailsForAReason
    NothingHandedStays
PROPERTIES
    EverythingEnds
