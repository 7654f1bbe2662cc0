SPECIFICATION FairSpec
CONSTANTS
    NPosts = 1
    NShares = 1
    MaxTime = 2
    MaxFaults = 2
    MaxFresh = 0
    Slots = {1, 2}
    Runs = {r1}
    Clicks = {c1, c2}
    Ops = {"post_decision", "toggle", "crash", "raise"}
    NeedApproval = TRUE
PROPERTIES ScheduledLeaves NotBeforeSlot
CHECK_DEADLOCK FALSE
