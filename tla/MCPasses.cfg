SPECIFICATION FairSpec
CONSTANTS
    OptimizeSize = 3
    OptimizeInputs <- MCOptimizeInputs
    GenerateFunctions <- MCGenerateFunctions
    GenerateOptions <- MCGenerateOptions
    FenceFunctions <- MCFenceFunctions
    MaxCut = 3
    MitigateInputs <- MCMitigateInputs
    MitigateSize = 6
    InlinePrograms <- MCInlinePrograms
    InlineLimit = 3
    StackPrograms <- MCStackPrograms
    StackSize = 3
    MaxDepth = 4
    NumFunctions = 3
    FrontierInstr = {1, 2, 3, 4}
    FrontierInputs <- MCFrontierInputs
INVARIANTS
    Covers
    NothingAdded
    CutsStopLeaks
    FencesRealiseCut
    NoLeakIsLeft
    InlineBounded
    SecretStoresHandled
    FramesDisjoint
    SPTracksFrames
    InitialisedOnAllPaths
PROPERTY Terminates
