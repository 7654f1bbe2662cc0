--------------------------- MODULE MCApprovalSync ---------------------------
EXTENDS ApprovalSync
\* Two approvals; somebody typed the first one's id in two rows.
MCRowOf == [r \in 1 .. NRows |-> IF r < 3 THEN "a1" ELSE "a2"]
\* The second one may be answered twice.
MCMaxAnswers == [a \in Approvals |-> IF a = "a2" THEN 2 ELSE 1]
=============================================================================
