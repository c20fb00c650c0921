SPECIFICATION Behaviours
CONSTANTS
    s1 = s1
    NoSession = NoSession
    MaxSpeech = 3
    MaxRequests = 3
    MaxAttempts = 2
INVARIANTS
    SilenceBeforeCapture
    OneAtATime
    RequestsAreServed
PROPERTIES
    OwnersEnd
    EveryWaitEnds
CHECK_DEADLOCK FALSE
