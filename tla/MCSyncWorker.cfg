SPECIFICATION WorkerFairSpec
CONSTANTS
    Plans = {1}
    Accounts = {A, B}
    LoggedOut = loggedout
    Absent = absent
    TooLarge = {1}
    MaxRetries = 1
    MaxEdits = 1
    SwitchAt = {"idle", "start", "await", "finish"}
    MaxPending = 1
    MaxFaults = 1
 
PROPERTIES SyncedStays EventuallySynced
CHECK_DEADLOCK FALSE
