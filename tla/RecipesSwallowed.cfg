SPECIFICATION Spec
CONSTANTS
    DesktopEvents = {d1}
    CliEvents = {c1}
    Unreadable = {}
    Recipes = {act}
    Asking = {}
    RateLimit = 10
    SeenCap = 256
    Capacity = 256
    PollLimit = 200
    MaxFaults = 0
INVARIANTS CliEventRuns
CHECK_DEADLOCK FALSE
