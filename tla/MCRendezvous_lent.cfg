CONSTANTS
    N = 2
    Phases = 1
    Steps = 1
    Ports = {}
    Local <- Apart
    Failing <- TheLowestCannotDial
    LeaderMayStop = FALSE
SPECIFICATION Spec
CHECK_DEADLOCK FALSE
PROPERTIES
    EverySessionEnds
