SPECIFICATION Spec
CONSTANTS
    l1 = l1
    l2 = l2
    k = k
    a = a
    b = b
    c = c
    RowIds = {1, 2}
    Requests = {q1, q2}
    Locals = {l1, l2}
    Keys = {k}
    NoKey = nokey
    KeyOf <- MCKeyOf
    Texts = {a, b}
    LowValue = {b}
    HashOf <- MCTwoHashes
    NoHash = nohash
    Unborn = unborn
    Gone = gone
    Retention = 1
    PruneBatch = 2
    MaxVersion = 2
    MaxTime = 2
INVARIANTS OneRowPerLocal HistoryIsCurrent BaselineIsKept
PROPERTIES LateFirstSyncKeepsNewer
CHECK_DEADLOCK FALSE
SYMMETRY DeviceSymmetry
