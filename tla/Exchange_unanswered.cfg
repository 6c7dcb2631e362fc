SPECIFICATION FairSpec
CONSTANTS
    Size = 3
    Fanout = 0
    Collect = {TRUE}
    MaxCalls = 1
    MaxPending = 1
    Faults = {"respond"}
    MaxFaults = 1
PROPERTIES
    GatheredIsAnswered
CHECK_DEADLOCK FALSE
