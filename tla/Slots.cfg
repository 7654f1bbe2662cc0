SPECIFICATION Spec
CONSTANTS
    p1 = p1
    p2 = p2
    Posts = {p1, p2}
    Horizon = 2
    DayLen = 2
    Configs <- TwoConfigs
    Ops = {"fail", "publish", "retry", "revive", "reschedule", "config", "tick"}
SYMMETRY Symmetry
INVARIANTS TypeOK ClashesExplained NeverSkips
PROPERTY WithinLimit
CHECK_DEADLOCK FALSE
