SPECIFICATION Spec
CONSTANTS
    ann = ann
    ben = ben
    cal = cal
    built = built
    tested = tested
    Operators = {o1}
    Agents = {ann, ben, cal}
    Criteria = {built, tested}
    Clashes <- MCClashes
    Needs <- MCNeeds
    Breaks <- MCBreaks
    MaxChecks = 4
    MaxCrashes = 1
    MaxRefusals = 1
INVARIANTS
    TypeOK
    MergedIsIntegrated
    BranchIsAccounted
    CompleteIsVerified
CHECK_DEADLOCK FALSE
