CONSTANTS
    Ticks = {t1, t2}
    Attempts = {a1, a2}
    NoAttempt = none
    MaxLoops = 2
    TokenBudget = 9
    CostPerRun = 1
    MaxTime = 4
    MaxExternal = 1
    ManualKinds = {"manual", "loop"}
    ArgvForms = {TRUE, FALSE}
    SlowWorkers = {a2}
    TickCrashes = TRUE
    SlugTicks = TRUE
    OwnerChecks = TRUE
    OwnerStates = {"in_progress", "complete"}
    OwnerCategories = {"ignored"}
SYMMETRY TickSymmetry
SPECIFICATION Spec
INVARIANTS
    NoOutcomeUnseen
    EvaluationsSeeThePast
CHECK_DEADLOCK FALSE
