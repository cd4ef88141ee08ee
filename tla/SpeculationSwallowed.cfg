\* A reply of up to two tokens and one permission that is held.
CONSTANTS
    MaxTokens = 2
    MaxHeld = 1
SPECIFICATION Spec
INVARIANT NothingSwallowed
CHECK_DEADLOCK FALSE
