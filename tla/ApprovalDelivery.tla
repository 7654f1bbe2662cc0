-------------------------- MODULE ApprovalDelivery --------------------------
(***************************************************************************)
(* What the approval queue promises, whatever the Sheet, Slack and crashes *)
(* do: a paused graph is resumed at most once, with an answer a human gave *)
(* or with a timeout after the deadline, and a poll changes the queue in   *)
(* one atomic step, by such answers only.                                  *)
(***************************************************************************)
CONSTANT Approvals

Answers == {"approved", "rejected"}

VARIABLES
    asked,     \* answers that humans gave
    overdue,   \* approvals past expires_at
    decision,  \* approval_queue.decision
    outcome    \* what the paused graph was resumed with

Init ==
    /\ asked = {} /\ overdue = {}
    /\ decision = [a \in Approvals |-> "pending"]
    /\ outcome = [a \in Approvals |-> "none"]

Justified(a, d) == \/ <<a, d>> \in asked
                   \/ d = "timeout" /\ a \in overdue

Ask(a, d) == asked' = asked \cup {<<a, d>>} /\ UNCHANGED <<overdue, decision, outcome>>
Deadline(a) == overdue' = overdue \cup {a} /\ UNCHANGED <<asked, decision, outcome>>

\* One poll commits: any number of approvals change, each for a reason.
Record ==
    /\ decision' \in [Approvals -> {"pending", "timeout"} \cup Answers]
    /\ \A a \in Approvals : decision'[a] # decision[a] => Justified(a, decision'[a])
    /\ UNCHANGED <<asked, overdue, outcome>>

\* The graph wakes up and approve_node writes what it was given.
Wake(a, d) ==
    /\ outcome[a] = "none" /\ Justified(a, d)
    /\ outcome' = [outcome EXCEPT ![a] = d]
    /\ decision' = [decision EXCEPT ![a] = d]
    /\ UNCHANGED <<asked, overdue>>

Next ==
    \/ Record
    \/ \E a \in Approvals : \/ Deadline(a)
                            \/ \E d \in Answers : Ask(a, d)
                            \/ \E d \in Answers \cup {"timeout"} : Wake(a, d)

Spec == Init /\ [][Next]_<<asked, overdue, decision, outcome>>
=============================================================================
