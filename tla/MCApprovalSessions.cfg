SPECIFICATION Spec
CONSTANTS
    Ids = {i1, i2}
    Owners = {o1, o2}
    Revisions = {r1, r2}
    Requests = {q1, q2}
    Feedbacks = {f1, f2}
    NoFeedback = nofeedback
    Lease = 2
    Retention = 1
    MaxTimeout = 3
    Capacity = 1
    MaxTime = 5
    MaxCreated = 3
SYMMETRY Symmetric
INVARIANTS CapacityBound
PROPERTIES DecisionsAreFinal DeliveryIsKept LiveReviewsKept
