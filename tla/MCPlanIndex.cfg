SPECIFICATION FairSpec
CONSTANTS
    Files = {f}
    Flushes = {b1, b2}
    Callers = {c}
    Boot = boot
    Replay = replay
    None = none
    MaxChanges = 3
    MaxFailures = 1
INVARIANTS ReportedIsIndexed
PROPERTIES CallersSeeTheirChange IndexIsLive
