SPECIFICATION Spec
CONSTANTS
    NPosts = 2
    NShares = 2
    MaxTime = 1
    MaxFaults = 2
    MaxFresh = 1
    Slots = {1}
    Runs = {r1}
    Clicks = {c1}
    Ops = {"trigger", "retry", "publish_now", "post_decision", "delete", "crash", "raise"}
    NeedApproval = TRUE
INVARIANTS TypeOK PublicationInv
PROPERTY RejectionHonoured
CHECK_DEADLOCK FALSE
