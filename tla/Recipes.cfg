SPECIFICATION Spec
CONSTANTS
    DesktopEvents = {d1, d2}
    CliEvents = {c1}
    Unreadable = {}
    Recipes = {act}
    Asking = {}
    RateLimit = 1
    SeenCap = 4
    Capacity = 1
    PollLimit = 2
    MaxFaults = 1
INVARIANTS
    TypeOK
    FiredOnce
    SkippedWasHandled
    RateLimitHolds
CHECK_DEADLOCK FALSE
