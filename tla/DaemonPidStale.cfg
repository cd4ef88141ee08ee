\* Two starters that retire the marker of a crashed daemon at the same time.
CONSTANTS
    Starter = {d1, d2, d3}
    Stranger = {}
    Pid = {i1, i2, i3}
    None = None
    MaxAttempts = 2
    MaxCrashes = 1
    PidfdWorks = TRUE
SPECIFICATION Spec
PROPERTY LiveMarkerStays
CHECK_DEADLOCK FALSE
