SPECIFICATION FairSpec
CONSTANTS
    Workers = {w1, w2}
    CliWorkers = {c1}
    Cli = cli
    NoOne = noone
    OrphansSeen = TRUE
    MaxRestarts = 1
    MaxCrashes = 1
 
PROPERTIES EventuallyServed StatusIsHonest
CHECK_DEADLOCK FALSE
