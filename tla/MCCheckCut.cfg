SPECIFICATION Spec
CONSTANTS
    Node = {1, 2, 3}
    None = None
    MaxWalk = 6
    Inputs <- MCInputs
INVARIANTS
    TypeOK
    AcceptsOnlyCuts
    RejectsOnlyNonCuts
    ParentPresent
    ReportedPathIsReal
    AcceptedHasNoWalk
