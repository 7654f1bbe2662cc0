SPECIFICATION Spec
CONSTANTS
    NPosts = 1
    NShares = 1
    MaxTime = 1
    MaxFaults = 1
    MaxFresh = 0
    Slots = {1}
    Runs = {r1, r2}
    Clicks = {c1}
    Ops = {"decide_approval", "sheet", "expire", "delete", "crash"}
    NeedApproval = TRUE
SYMMETRY Symmetry
INVARIANT PublishedMeansRecorded
PROPERTY ConsentBeforePublish
CHECK_DEADLOCK FALSE
