CONSTANTS
    N = 3
    Linked <- OneLink
    Rounds = 2
    MaxWrites = 2
    Capacity = 1
    Faulty = {1}
SPECIFICATION FairSpec
INVARIANTS
    BarrierHolds
    NothingOutstanding
PROPERTIES
    EveryRankEnds
    AbstractSpec
