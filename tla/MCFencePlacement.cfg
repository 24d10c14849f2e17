SPECIFICATION Spec
CONSTANTS
    Functions <- Switch
    MaxCut = 3
INVARIANT FenceOnEveryPath
