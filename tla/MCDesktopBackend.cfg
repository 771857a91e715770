SPECIFICATION FairSpec
CONSTANTS
    Workers = {1, 2, 3}
    Dirs = {shipped, bundle}
    None = none
    MaxEvents = 4
INVARIANTS BackendIsSound
PROPERTIES EventuallyRestored StopReturns
CHECK_DEADLOCK FALSE
