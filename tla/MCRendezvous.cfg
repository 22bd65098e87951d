CONSTANTS
    N = 4
    Phases = 2
    Steps = 2
    Ports = {0, 3}
    Local <- OneMachine
    Failing <- Anything
    LeaderMayStop = TRUE
SPECIFICATION Spec
CHECK_DEADLOCK FALSE
INVARIANTS
    Connected
    OfThisSession
    MeetAllOrNone
PROPERTIES
    LeaderEnds
    SessionsEnd
