CONSTANTS
    Resumers = {r1}
    NumSteps = 2
    MaxAttempts = 2
    Outcomes = {"success", "lost", "dated", "undated", "failed", "unlogged"}
    MaxTime = 4
    MaxCrashes = 0
    MaxManual = 2
    MaxElsewhere = 2
    Interleaved = FALSE
SPECIFICATION FairSpec
INVARIANTS
    MirrorAgrees
    AbandonedRunIsAnError
PROPERTY
    EveryPauseEnds
CHECK_DEADLOCK FALSE
