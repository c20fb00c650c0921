SPECIFICATION Spec
CONSTANTS
    Messages = {1, 2}
    Core = TRUE
    MaxRestarts = 1
    MaxFaults = 1
INVARIANT
    RejectedIsUnheard
CHECK_DEADLOCK FALSE
