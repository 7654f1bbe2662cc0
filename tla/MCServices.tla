----------------------------- MODULE MCServices -----------------------------
(* Model checking of two components that share nothing, LinkedInClient and *)
(* LogRing: a behaviour is one of the one or one of the other.             *)
EXTENDS LinkedInClient, LogRing

VARIABLE subject

ErrorInfoError == <<2, 1, 2>>

vars == <<subject, clientVars, logVars>>

Init ==
    /\ ClientInit /\ LogInit
    /\ \/ subject = "client"
       \/ /\ subject = "logs"
          /\ server.used = 0 /\ settings.token.life = Life /\ settings.token.expiry = Life
          /\ settings.refresh = "valid"

InClient(A) == subject = "client" /\ A /\ UNCHANGED <<subject, logVars>>
InLogs(A) == subject = "logs" /\ A /\ UNCHANGED <<subject, clientVars>>

Next == InClient(ClientNext) \/ InLogs(LogNext)

Fairness ==
    /\ WF_vars(InClient(Tick))
    /\ \A t \in Threads : WF_vars(InClient(ThreadStep(t)))

Spec == Init /\ [][Next]_vars /\ Fairness
=============================================================================
