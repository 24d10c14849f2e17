SPECIFICATION Spec
CONSTANTS
    Function = {1, 2}
    Modules <- MCModules
INVARIANT AllDirectCallsReplaced
