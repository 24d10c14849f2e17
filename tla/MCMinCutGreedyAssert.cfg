SPECIFICATION FairSpec
CONSTANTS
    Node = {0, 1, 2, 3}
    Timeout = 0
    Inputs <- ReturnInputs
    LocalCuts <- MCLocalCuts
INVARIANT LoopAssert
