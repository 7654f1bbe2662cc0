SPECIFICATION Spec
CONSTANTS
    NPosts = 1
    NShares = 2
    MaxTime = 1
    MaxFaults = 0
    MaxFresh = 0
    Slots = {1}
    Runs = {r1, r2}
    Clicks = {c1, c2}
    Ops = {"post_decision"}
    NeedApproval = TRUE
INVARIANT AtMostOnce
CHECK_DEADLOCK FALSE
