----------------------------- MODULE MCLlmCalls -----------------------------
(* Model checking of LlmCalls with its PromptTemplates. *)
EXTENDS LlmCalls, TLC

Symmetry == Permutations(Runs) \cup Permutations(Editors) \cup Permutations(Posts)

\* Bound: without edits two calls are recorded, and MaxCalls as long as the
\* costs of every post are in one thread; with edits one run
\* renders a prompt while up to two versions exist, and MaxRows versions of all
\* Names are edited while no run is in progress.
EditsOrCalls ==
    \/ /\ Len(templates) = 1 /\ \A i \in Rows : templates[i].rank = 1
       /\ ~clashed /\ \A e \in Editors : edit[e].pc = "idle"
       /\ calls <= 2 \/ \A p \in Posts : ~post[p].mixed /\ ~post[p].retried
    \/ calls = 0 /\ run = [r \in Runs |-> NoRun] /\ post = [p \in Posts |-> NoRow]
    \/ /\ calls = 1 /\ Len(templates) <= 2
       /\ \A i \in Rows : templates[i].name = Main /\ templates[i].rank <= 2
       /\ thread = [u \in Uploads |-> NoChannels]
       /\ \E r \in Runs, p \in Posts :
            /\ run[r].pc \in {"budget", "prompt"} /\ run[r].ch.post = p
            /\ \A q \in Runs \ {r} : run[q] = NoRun
            /\ \A q \in Posts \ {p} : post[q] = NoRow
=============================================================================
