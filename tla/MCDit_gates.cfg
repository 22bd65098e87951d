SPECIFICATION MCSpec
CONSTANTS
    Blocks <- MCBlocks
    Refiners <- MCRefiners
    None = None
    CudaKinds <- MCCudaKinds
    Loras <- MCGateLoras
    Contexts = {1, 2}
    Methods = {"dense", "vsa", "veda"}
    Captures = {{}, {2}}
    Calls = 2
    MetalKinds <- MCMetalKinds
    MetalLoras <- MCMetalLoras
    MetalContexts = {1}
    MetalMethods = {"dense", "vsa", "veda"}
    MetalCaptures = {{}, {2}, {1, 3}}
    MetalCalls = 0
INVARIANTS
    DitAgrees
CHECK_DEADLOCK FALSE
