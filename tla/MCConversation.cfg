\* Two browsers, a microphone, local turns, and recordings that wait; the other
\* parts' instances are in the module.
CONSTANTS
    Socket = {s1, s2}
    MaxJobs = 2
    MaxConversations = 3
    LocalSurface = TRUE
    LiveStt = TRUE
    None = None
    child = child
    parent = parent
SYMMETRY Symmetry
SPECIFICATION PathSpec
INVARIANTS
    DebtIsExact
    ReportedWorkEnds
    SessionIsSound
    ConsentIsExact
    CreditAndOrder
    MergedFaithfully
    WatchKeepsUp
PROPERTIES
    NeverDroppedUnderneath
    SettledStartInheritsNothing
CHECK_DEADLOCK FALSE
