SPECIFICATION Spec
CONSTANTS
    Size = 4
    Fanout = 0
    Collect = {TRUE, FALSE}
    MaxCalls = 2
    MaxPending = 1
    Faults = {"send", "then", "unpack", "respond", "respond_error", "get_data", "request", "append", "enter", "enter_append"}
    MaxFaults = 1
INVARIANTS
    SuccessFromOwnGather
CHECK_DEADLOCK FALSE
