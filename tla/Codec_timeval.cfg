SPECIFICATION Spec
CONSTANTS
    ByteValues = 4
    NameMax = 3
    AllocFails = FALSE
    UpcallTypes = {"PMIX_INT", "PMIX_TIMEVAL"}
    MaxInfo = 1
    IntBits = 5
    Bytes = {0}
    MaxShort = 1
    MaxLong = 1
    MaxBlobs = 1
INVARIANTS
    DecodeUndoesEncode
\* An upcall ends, and so does an exchange.
CHECK_DEADLOCK FALSE
