SPECIFICATION Spec
CONSTANTS
    NPosts = 2
    NShares = 1
    MaxTime = 1
    MaxFaults = 3
    MaxFresh = 2
    Slots = {1}
    Runs = {r1}
    Clicks = {c1}
    Ops = {"retry", "post_decision", "crash"}
    NeedApproval = TRUE
PROPERTY NeverCrossed
CHECK_DEADLOCK FALSE
