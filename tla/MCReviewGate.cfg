SPECIFICATION FairGateSpec
CONSTANTS
    Ids = {h1}
    Owners = {h1}
    Revisions = {r1, r2}
    Requests = {q1}
    Feedbacks = {f1}
    NoFeedback = nofeedback
    NoFile = nofile
    Lease = 1
    Retention = 0
    MaxTimeout = 2
    Timeout = 2
    Capacity = 1
    MaxTime = 3
    MaxCreated = 1
INVARIANTS CancelledIsNeverGranted GrantSawTheFile
PROPERTIES HookAnswers RefinesPlanGate
