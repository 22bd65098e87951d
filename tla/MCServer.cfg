CONSTANTS
    i1 = i1
    i2 = i2
    w1 = w1
    c1 = c1
    c2 = c2
    c3 = c3
    l1 = l1
    Ids <- TwoIds
    Watchers <- OneWatcher
    Steps = 2
    MayFail = {"form", "run", "panic"}
    Devices <- TwoDevices
    Connections <- ThreeConnections
    Leaders <- OneLeader
    On <- OnOneOrTheOther
    Serves <- ServesTheFirst
    Asks <- AsksOfEach
    Kinds <- OneKind
    Streamed = {}
    Keys <- OneKey
    Adapters = 1
    Room <- RoomForThree
    Requests <- Once
    ReadsFail = TRUE
SPECIFICATION MCSpec
CHECK_DEADLOCK FALSE
INVARIANTS
    TypeOK
    RunningKeepsItsFiles
    DoneHasItsVideo
    NothingLeftBehind
    EndIsSaid
    LentCounted
    KeptIsWhatItSays
PROPERTIES
    EveryJobEnds
    EveryRequestEnds
