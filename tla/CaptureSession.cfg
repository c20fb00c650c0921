SPECIFICATION FairSpec
CONSTANTS
    Cancels = {c1, c2}
    Faults = {"destination", "provider", "microphone", "silent", "finish",
              "transcribe", "deliver", "history", "stop"}
INVARIANTS
    EndIsQuiet
    CancelIsTruthful
    OneReport
    AudioIsAccounted
PROPERTIES
    ExitDeliversNothing
    SessionEnds
CHECK_DEADLOCK FALSE
