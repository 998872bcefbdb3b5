SPECIFICATION FairSpec
CONSTANTS
    DesktopEvents = {}
    CliEvents = {c1, c2}
    Unreadable = {c2}
    Recipes = {ask, act}
    Asking = {ask}
    RateLimit = 1
    SeenCap = 4
    Capacity = 1
    PollLimit = 1
    MaxFaults = 2
PROPERTIES
    DecidedIsFinal
    DecisionsResume
    LedgerIsHandled
CHECK_DEADLOCK FALSE
