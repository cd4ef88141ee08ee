\* Who owns the foreground: three turns of two sessions.  What is said: two
\* turns of one session, with room for one word and two clips.
CONSTANTS
    Lease = {l1, l2, l3}
    Session = {s1, s2}
    TurnId = {t1, t2}
    Capture = {c1}
    None = None
    MaxRecent = 1
    MaxText = 1
    MaxAudio = 2
    MaxClip = 1
    MaxEvents = 4
    MaxInFlight = 2
SYMMETRY Symmetry
SPECIFICATION PartSpec
INVARIANTS
    OwnershipExact
    SupersededIffOvertaken
    OutcomeExact
PROPERTY ImplementsOwnership
CHECK_DEADLOCK FALSE
