CONSTANTS
    Observers = {o1}
    Files = {f1}
    Formats = {"claude", "codex", "array"}
    MaxLines = 6
    MaxRead = 3
    MaxRewinds = 1
    MaxCrashes = 2
SPECIFICATION FairSpec
INVARIANTS
    TypeOK
    RowsAreTrue
    LossIsBounded
    RecordedOnce
PROPERTY
    CatchesUp
CHECK_DEADLOCK FALSE
