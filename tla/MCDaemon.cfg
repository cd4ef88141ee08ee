\* Three starters, or two and another program that may get a freed pid; the
\* other parts' instances are in the module.
CONSTANTS
    Starter = {d1, d2, d3}
    Stranger = {x1}
    Pid = {i1, i2, i3}
    None = None
    MaxAttempts = 2
    MaxCrashes = 1
    PidfdWorks = TRUE
SYMMETRY Symmetry
SPECIFICATION DaemonSpec
INVARIANTS
    MarkerIsTrue
    StopHitsOnlyTheDaemon
    MicrophoneIsShared
    BriefingIsExact
PROPERTY LiveMarkerKept
CHECK_DEADLOCK FALSE
