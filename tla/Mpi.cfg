SPECIFICATION FairSpec
CONSTANTS
    AllRanks = {0, 1, 2, 3}
    Jobs <- AllJobs
    Unpaired <- JobsUnpaired
    AllocFails = {"abort", "leave"}
    LARGE_MESSAGE_SIZE = 4
    WINDOW_SIZES <- Varied
INVARIANTS
    CollectivesAgree
    BuffersFit
    MessagesFit
    AveragesItsSamples
    CleanExit
PROPERTY
    AllFinish
\* A job ends.
CHECK_DEADLOCK FALSE
