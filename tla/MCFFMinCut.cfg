SPECIFICATION FairSpec
CONSTANTS
    Node = {0, 1, 2, 3}
    Width = 16
    None = None
    Inputs <- FFMinCutInputs
INVARIANT LocalMinCut
