SPECIFICATION Cases
CONSTANTS
    s1 = s1
    s2 = s2
    app = app
    Session = {s1, s2}
    NoSession = NoSession
    AppLinks = {}
    MaxRecording = 1
    Spoken = {"short"}
    Outcomes = {"Accepted"}
    Sightings = {"send"}
    MaxAttempts = 1
    MaxChoices = 2
    ClockJumps = FALSE
    PrivacyChanges = FALSE
INVARIANTS
    NeverRetargeted
PROPERTIES
    NewestChoiceWins
    BreaksHold
SYMMETRY
    SessionSymmetry
CHECK_DEADLOCK FALSE
