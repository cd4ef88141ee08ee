CONSTANTS
    Socket = {s1, s2}
    MaxJobs = 2
    MaxConversations = 3
    LocalSurface = TRUE
    LiveStt = FALSE
SPECIFICATION Spec
INVARIANTS
    NoStaleWork
CHECK_DEADLOCK FALSE
