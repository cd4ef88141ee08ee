\* Two browsers, three turns and two speculations over a limit of two; the other
\* parts' instances are in the module.
CONSTANTS
    Socket = {s1, s2}
    Turn = {t1, t2, t3}
    Speculation = {p1, p2}
    None = None
    MaxJobs = 2
    MaxBackground = 1
SYMMETRY Symmetry
SPECIFICATION PathSpec
INVARIANTS
    NewestTurnOwns
    ChargesExact
    StopLeavesNothing
    AdoptionIsWhole
    MicrophoneGivenBack
    ActivationsAreApart
CHECK_DEADLOCK FALSE
