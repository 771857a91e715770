SPECIFICATION FairSpec
CONSTANTS
    Jobs = {1, 2}
    Annotations = {a}
    Plans = {1, 2}
    Devices = {d}
    Home <- MCHome
    Targets <- MCTargets
    NoDevice = nodevice
    None = none
    MaxEvents = 1
INVARIANTS SubmittedIsCarried DeliveredOnce
PROPERTIES RefinesOutbox EventuallySettled
CHECK_DEADLOCK FALSE
