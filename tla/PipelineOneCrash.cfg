SPECIFICATION Spec
CONSTANTS
    NPosts = 1
    NShares = 2
    MaxTime = 2
    MaxFaults = 1
    MaxFresh = 0
    Slots = {1, 2}
    Runs = {r1}
    Clicks = {c1}
    Ops = {"toggle", "decide_approval", "post_decision", "reschedule", "delete", "expire", "crash", "raise"}
    NeedApproval = TRUE
INVARIANT AtMostOnce
CHECK_DEADLOCK FALSE
