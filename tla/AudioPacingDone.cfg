\* Clips that fit, fill and exceed the credit.
CONSTANTS
    Duration = {1, 2, 5}
    MaxMs = 4
    MaxClips = 3
    StallMs = 2
    Early = 1
    MaxAudio = 5
SPECIFICATION Spec
INVARIANT DoneArrives
CHECK_DEADLOCK FALSE
