CONSTANTS
    coder = coder
    scout = scout
    job1 = job1
    none = none
    p0 = p0
    p1 = p1
    p2 = p2
    t1 = t1
    t2 = t2
    Lane <- MCLane
    Job <- MCJob
    None <- none
    Budgets <- MCBudgets
    CanCall = TRUE
SPECIFICATION OwnersSpec
INVARIANTS
    NothingFromOldTurns
    NothingLeftAfterStop
    SlotHolds
    TreesAccounted
    SpeechAccounted
    ReplyIsWhole
    EndsAreReal
PROPERTIES
    LaneStartsNeverOverlap
    StopNeverHostage
    StopSettles
    NothingHangs
    TurnsEnd
    FloorComesBack
    SignalEnds
CHECK_DEADLOCK FALSE
