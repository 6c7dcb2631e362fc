SPECIFICATION Spec
CONSTANTS
    Size = 4
    Fanout = 0
    Collect = {TRUE}
    MaxCalls = 2
    MaxPending = 2
    Faults = {"send", "unpack", "respond", "respond_error", "get_data", "request", "enter"}
    MaxFaults = 1
INVARIANTS
    GatherComplete
    AnsweredOnce
    RoundInv
    NoCallGatheredTwice
    LostOnlyBelowError
PROPERTIES
    ImplementsAllGather
CHECK_DEADLOCK FALSE
