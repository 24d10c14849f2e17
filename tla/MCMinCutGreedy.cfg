SPECIFICATION FairSpec
CONSTANTS
    Node = {0, 1, 2, 3}
    Timeout = 1
    Inputs <- MCInputs
    LocalCuts <- MCLocalCuts
INVARIANTS
    TypeOK
    GraphExact
    CutSeparates
    Irredundant
PROPERTIES
    AugmentOnlyGrows
    Terminates
    ImplementsMinCut
