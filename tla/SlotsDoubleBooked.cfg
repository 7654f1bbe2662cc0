SPECIFICATION Spec
CONSTANTS
    p1 = p1
    p2 = p2
    Posts = {p1, p2}
    Horizon = 2
    DayLen = 2
    Configs <- OneConfig
    Ops = {"tick"}
SYMMETRY Symmetry
INVARIANT NoDoubleBooking
CHECK_DEADLOCK FALSE
