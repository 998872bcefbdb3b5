CONSTANTS
    Runs = {r1, r2}
    Workspaces = {w1}
    NoWorkspace = noWorkspace
    Kinds = {"agent", "context", "stream", "api", "cli"}
    MaxCrashes = 1
    MaxReloads = 1
SPECIFICATION FairSpec
INVARIANTS
    TypeOK
    OverlapIsMutual
    CliIsVisible
PROPERTIES
    StaleRowsGo
    KillEnds
CHECK_DEADLOCK FALSE
