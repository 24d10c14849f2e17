SPECIFICATION Spec
CONSTANTS
    Functions <- FirstStore
    Options <- MCOptions
INVARIANT SourcesAsserted
