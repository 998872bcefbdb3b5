CONSTANTS
    Resumers = {r1, r2}
    NumSteps = 2
    MaxAttempts = 2
    Outcomes = {"success", "lost", "dated", "undated", "failed", "unlogged"}
    MaxTime = 3
    MaxCrashes = 1
    MaxManual = 1
    MaxElsewhere = 1
    Interleaved = TRUE
SPECIFICATION Spec
SYMMETRY ResumerSymmetry
INVARIANTS
    TypeOK
    RepeatedOnlyIfMisled
PROPERTY
    ImplementsLifecycle
CHECK_DEADLOCK FALSE
