SPECIFICATION FairSpec
CONSTANTS
    NPosts = 1
    NShares = 1
    MaxTime = 1
    MaxFaults = 0
    MaxFresh = 1
    Slots = {1}
    Runs = {r1}
    Clicks = {c1}
    Ops = {"retry"}
    NeedApproval = FALSE
PROPERTY ScheduledLeaves
CHECK_DEADLOCK FALSE
