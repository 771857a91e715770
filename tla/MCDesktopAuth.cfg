SPECIFICATION Spec
CONSTANTS
    None = none
    MaxAttempts = 2
    MaxRotations = 1
    MaxCalls = 2
    MaxEvents = 2
 
PROPERTIES LiveSessionKept TokensMoveForward
CHECK_DEADLOCK FALSE
