SPECIFICATION Spec
CONSTANTS
    NPosts = 1
    NShares = 2
    MaxTime = 1
    MaxFaults = 2
    MaxFresh = 0
    Slots = {1}
    Runs = {r1}
    Clicks = {c1}
    Ops = {"decide_approval", "crash"}
    NeedApproval = TRUE
INVARIANT AtMostOnce
CHECK_DEADLOCK FALSE
