SPECIFICATION FairSpec
CONSTANTS
    Programs <- Shift
INVARIANT Sound
