SPECIFICATION FairSpec
CONSTANTS
    NoSub = NoSub
    NoPlan = NoPlan
    NoJob = NoJob
    Subs = {s1, s2}
    Plans = {p1}
    MaxRows = 4
    MaxChains = 2
    MaxRelated = 2
    InlineBatch = 1
    AccountBatch = 1
    CleanupBatch = 2
    MaxEvents = 3
    MaxFaults = 1
INVARIANTS DeletionIsSound
PROPERTIES RowsFollowStripe CleanupDrains DeletionEnds
CHECK_DEADLOCK FALSE
