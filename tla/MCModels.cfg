SPECIFICATION ModelsSpec
CONSTANTS
    Blocks <- MCBlocks
    Refiners <- MCRefiners
    None = None
    Off = Off
    CudaKinds <- MCCudaKinds
    Loras <- MCLoras
    Contexts = {1, 2}
    Methods = {"dense", "vsa", "veda"}
    Captures = {{}, {2}}
    Calls = 2
    MetalKinds <- MCMetalKinds
    MetalLoras <- MCMetalLoras
    MetalContexts = {1}
    MetalMethods = {"dense", "vsa", "veda"}
    MetalCaptures = {{}, {2}, {1, 3}}
    MetalCalls = 1
INVARIANTS
    DitAgrees
    VideoAgrees
    PromptAndSoundAgree
    RunAgrees
    RowsAgree
CHECK_DEADLOCK FALSE
