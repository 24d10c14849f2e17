SPECIFICATION FairSpec
CONSTANTS
    TaintPrograms <- MCTaintPrograms
    LeakInputs <- MCLeakInputs
    PublicInputs <- MCPublicInputs
    NumFunctions = 3
    AddressModules <- MCAddressModules
    ContractInputs <- MCContractInputs
INVARIANTS
    NoFalseTaint
    SoundUnlessLate
    LeaksExact
    PublicExact
    TagsExact
    VerdictExact
PROPERTY Terminates
