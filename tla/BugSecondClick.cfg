SPECIFICATION Spec
CONSTANTS
    NPosts = 1
    NShares = 1
    MaxTime = 1
    MaxFaults = 0
    MaxFresh = 0
    Slots = {1}
    Runs = {r1}
    Clicks = {c1, c2}
    Ops = {"post_decision"}
    NeedApproval = TRUE
PROPERTY NeverEarly
CHECK_DEADLOCK FALSE
