SPECIFICATION Spec
CONSTANTS
    MaxSize = 12
    MaxFanout = 14
INVARIANTS
    ParentChildInverse
    CountsSenders
PROPERTY
    ReachesRoot
\* A walk that has reached the root is over.
CHECK_DEADLOCK FALSE
