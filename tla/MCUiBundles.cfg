SPECIFICATION UiFairSpec
CONSTANTS
    Revisions = {2, 4}
    Floors = {1, 3}
    Broken = {4}
    Pinned = pinned
    Nothing = none
    MaxSentinels = 2
    MaxDialogs = 1
    MaxUiEvents = 1
INVARIANTS UiIsSound
PROPERTIES PinHolds UiSettles
CHECK_DEADLOCK FALSE
