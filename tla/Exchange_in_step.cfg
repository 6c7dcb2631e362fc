SPECIFICATION FairSpec
CONSTANTS
    Size = 5
    Fanout = 0
    Collect = {TRUE}
    MaxCalls = 2
    MaxPending = 1
    Faults = {}
    MaxFaults = 0
INVARIANTS
    TypeOK
    InStep
    Barrier
PROPERTY
    RoundCompletes
