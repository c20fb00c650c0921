SPECIFICATION Spec
CONSTANTS
    s1 = s1
    Session = {s1}
    NoSession = NoSession
    AppLinks = {}
    MaxRecording = 2
    Spoken = {"empty", "short"}
    Outcomes = {"Accepted", "Taken", "Held", "Busy", "Rejected", "Unconfirmed"}
    Sightings = {"queue", "blocked"}
    MaxAttempts = 2
    MaxChoices = 0
    ClockJumps = FALSE
    PrivacyChanges = FALSE
INVARIANTS
    TypeOK
    NeverWrittenAgain
    StopHolds
    NothingIsLost
    WhatIsShownIsTrue
PROPERTIES
    OneShot
CHECK_DEADLOCK FALSE
