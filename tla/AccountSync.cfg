SPECIFICATION Behaviours
CONSTANTS
    d1 = d1
    d2 = d2
    n1 = n1
    Notes = {n1}
    Devices <- TwoDevices
    Slots <- Calls
    Unheard = {}
    Maker <- MadeOnFirst
    Oversize = {}
    Removable = {}
    Typists = {}
    MaxEdits = 3
    MaxSessions = 2
    MaxLost = 1
    MaxAsides = 1
    MaxKeeps = 1
    MaxFails = 1
INVARIANTS
    DeletionIsFinal
    PrivateStays
PROPERTIES
    NothingIsOverwritten
    RemovedWritesNothing
CHECK_DEADLOCK FALSE
