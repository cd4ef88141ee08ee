\* Voice mode goes off while a reply is spoken, and on again.
CONSTANTS
    MaxActivations = 2
    GraceAttempts = 1
    MaxUnusual = 0
SPECIFICATION Spec
INVARIANT ListensWhileActive
CHECK_DEADLOCK FALSE
