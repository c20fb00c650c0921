SPECIFICATION Behaviours
CONSTANTS
    d1 = d1
    d2 = d2
    n1 = n1
    left = left
    right = right
    NoneOf = NoneOf
    Notes = {n1}
    Devices <- TwoDevices
    Slots <- Calls
    Unheard = {}
    Maker <- MadeOnFirst
    Oversize = {}
    Removable = {}
    Typists = {}
    MaxEdits = 2
    MaxSessions = 1
    MaxLost = 0
    MaxAsides = 0
    MaxKeeps = 1
    MaxFails = 0
PROPERTIES
    Converges
    AnnotationEnds
CHECK_DEADLOCK FALSE
