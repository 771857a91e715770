SPECIFICATION LockFairSpec
CONSTANTS
    Procs = {p1, p2, p3}
    None = none
    Attempts = 3
    MaxStalls = 1
    MaxFaults = 2
 
PROPERTIES LockIsNeverStuck
CHECK_DEADLOCK FALSE
