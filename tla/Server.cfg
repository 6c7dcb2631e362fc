SPECIFICATION FairSpec
CONSTANTS
    LocalProcs = 2
    MaxUpcalls = 3
    MaxFences = 2
    Faults = {"init", "send", "recv", "decode", "abort_decode", "enter"}
    MaxFaults = 1
INVARIANTS
    TypeOK
    NoDanglingUse
    OnePlace
    ExchangeFree
PROPERTIES
    FencesInOrder
    UpcallEnds
    AbortRaises
\* The plugin is gone when the shell has ended.
CHECK_DEADLOCK FALSE
