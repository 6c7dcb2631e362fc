SPECIFICATION Spec
CONSTANTS
    INFOVEC_CHUNK = 8
    HOST_NAME_MAX = 64
    AllocFails = FALSE
    MaxTasks = 4
    MaxNodes = 3
INVARIANTS
    LookupFindsHost
\* px_init returns.
CHECK_DEADLOCK FALSE
