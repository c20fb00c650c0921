SPECIFICATION Behaviours
CONSTANTS
    left = left
    right = right
    NoneOf = NoneOf
    N = 2
    Interrupt = TRUE
    MaxToggles = 1
    MaxRestarts = 1
    MaxExits = 1
    MaxFaults = 1
    Meetings = {1, 2}
    MaxMeetings = 1
    MaxTitles = 1
    MaxRetries = 1
    MaxFailures = 1
    Kill = TRUE
INVARIANTS
    TypesOK
    PlacesStand
    ShownIsTrue
    MeetingsStand
PROPERTIES
    AnnotationsStand
    TransportsKeepTheirPromise
    TextIsExact
CHECK_DEADLOCK FALSE
