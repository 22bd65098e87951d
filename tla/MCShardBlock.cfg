CONSTANTS
    N = 3
    Settings <- MCSettings
    Blocks = 2
    BlocksPerStep = 1
SPECIFICATION FairSpec
INVARIANTS
    KernelsReadTheirBlock
    SourcesStay
PROPERTIES
    EveryShareEnds
    IsUlysses
