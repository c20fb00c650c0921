SPECIFICATION PartSpec
CONSTANTS
    laptop = laptop
    web = web
    Native = TRUE
    Notes = {1, 2}
    Slots = {"call", "list", "stray"}
    Unheard = {"stray"}
    Oversize = {}
    MaxText = 2
    MaxOther = 1
    MaxMissing = 1
    MaxReloads = 0
    MaxAsides = 0
    MaxTabs = 0
    Records = FALSE
    Sessions = {1}
    Desktops = {laptop}
    Browsers = {web}
    Capacity = 2
    Shown = 2
    MaxSaid = 2
    MaxShown = 0
    MaxBreaks = 1
    MaxDies = 0
    MaxPrivate = 0
    Removable = {web}
    Leaves = {web}
    MaxChunks = 3
    QueueLimit = 1
    PcmLimit = 2
    PrepareLimit = 1
    AudioLimit = 1
    MaxTicks = 2
    MaxLost = 1
    MaxCrashes = 1
    IncognitoPhone = FALSE
INVARIANTS
    TypesOK
    LiveWordsAreWhole
    WordsAreSomewhere
    PhoneSoundArrives
PROPERTIES
    ReplacesWhatWasShown
CHECK_DEADLOCK FALSE
