SPECIFICATION Spec
CONSTANTS
    HOST_NAME_MAX = 64
    map <- TwoShells
    Programs <- AllPrograms
    Environ <- Variables
    MaxErrors = 1
INVARIANTS
    SameOutcome
    NoLeakToJobs
    GetReturnsPut
    FenceSeparates

    
\* A job ends; after a failure tasks may wait for ever.
CHECK_DEADLOCK FALSE
