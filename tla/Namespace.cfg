SPECIFICATION Spec
CONSTANTS
    INFOVEC_CHUNK = 4
    HOST_NAME_MAX = 64
    AllocFails = TRUE
    MaxTasks = 4
    MaxNodes = 3
INVARIANTS
    NamespaceAgrees
    NodesDistinct
    NothingLeaked
    NoUseAfterFree
    LookupFindsHostInBlocks
\* px_init returns.
CHECK_DEADLOCK FALSE
