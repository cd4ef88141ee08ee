CONSTANTS
    Socket = {s1, s2}
    MaxJobs = 2
    MaxConversations = 3
    LocalSurface = FALSE
    LiveStt = FALSE
SPECIFICATION Spec
PROPERTIES
    StartInheritsNothing
CHECK_DEADLOCK FALSE
