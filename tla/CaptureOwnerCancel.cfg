SPECIFICATION FairSpec
CONSTANTS
    MaxSpeech = 1
    MaxRequests = 2
    MaxAttempts = 1
PROPERTIES
    CancelStopsRecording
CHECK_DEADLOCK FALSE
