SPECIFICATION Spec
CONSTANTS
    NPosts = 1
    NShares = 1
    MaxTime = 1
    MaxFaults = 0
    MaxFresh = 0
    Slots = {1}
    Runs = {r1}
    Clicks = {c1}
    Ops = {"decide_approval"}
    NeedApproval = TRUE
PROPERTY RejectionIsFinal
CHECK_DEADLOCK FALSE
