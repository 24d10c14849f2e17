SPECIFICATION FairSpec
CONSTANTS
    Node = {0, 1, 2}
    Width = 16
    None = None
    Inputs <- MCInputs
INVARIANTS
    TypeOK
    Contract
    ParentPresent
    FlowAssert
    ResidualBalance
    SourceSideResult
PROPERTY Terminates
