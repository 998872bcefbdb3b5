CONSTANTS
    Desktops = {d1}
    Cli = cli
    Calls = {c1, c2}
    NoCall = noCall
    Keys = {k1, k2, k3, k4}
    NoKey = noKey
    Binary = binary
    Rows = {r1, r2}
    Installs = {"fresh", "upgraded"}
    RekeyIfApplicable = TRUE
    FirstRunAlone = TRUE
    TimeOuts = TRUE
    LookupFails = FALSE
SPECIFICATION Spec
SYMMETRY Symmetry
INVARIANTS
    TypeOK
    Readable
    CanaryVouches
    CacheCurrent
