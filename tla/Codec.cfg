SPECIFICATION Spec
CONSTANTS
    ByteValues = 4
    NameMax = 3
    AllocFails = TRUE
    UpcallTypes = {"PMIX_BOOL", "PMIX_BYTE", "PMIX_STRING", "PMIX_SIZE", "PMIX_PID", "PMIX_INT", "PMIX_INT8", "PMIX_INT16", "PMIX_INT32", "PMIX_INT64", "PMIX_UINT", "PMIX_UINT8", "PMIX_UINT16", "PMIX_UINT32", "PMIX_UINT64", "PMIX_PROC_RANK", "PMIX_FLOAT", "PMIX_DOUBLE", "PMIX_TIME", "PMIX_STATUS", "PMIX_PROC", "PMIX_BYTE_OBJECT"}
    MaxInfo = 2
    IntBits = 5
    Bytes = {0, 90, 255}
    MaxShort = 3
    MaxLong = 30
    MaxBlobs = 2
INVARIANTS
    DecodeUndoesEncode
    NothingLeft
PROPERTY
    DataSurvives
\* An upcall ends, and so does an exchange.
CHECK_DEADLOCK FALSE
