------------------------------- MODULE LlmCalls -------------------------------
(***************************************************************************)
(* What the runs of the pipeline spend on the language model, while        *)
(* templates are edited: the sanitize, transform and validate nodes, the   *)
(* rows of llm_costs, the monthly budget that transform checks, and        *)
(* posts.cost_usd, which the nodes derive from the channels of the thread. *)
(*                                                                         *)
(* A second start of an upload goes on with the channels of its thread, a  *)
(* retry has a thread of its own. A call and the commit of its row are one *)
(* step; the checkpoint that holds the new total is a later one.           *)
(***************************************************************************)
EXTENDS PromptTemplates

CONSTANTS
    Runs,      \* runs in progress at once
    Uploads,   \* content_uploads; each has one thread upload-<id>
    Posts,     \* bound: rows of posts
    Nothing,   \* no post, or a thread of its own
    Budget,    \* llm_monthly_budget
    MaxCost,   \* the most one call costs
    MaxCalls   \* bound: calls recorded

ASSUME CostAssumption == Budget \in Nat \ {0} /\ MaxCost \in Nat /\ MaxCalls \in Nat
ASSUME RunsAssumption == IsFiniteSet(Runs)
ASSUME NothingAssumption == Nothing \notin Posts \cup Uploads

VARIABLES
    run,      \* the runs: the node to come, and the channels they hold
    post,     \* the rows of posts
    thread,   \* the channels in the last checkpoint of each upload's thread
    spent,    \* sum of the month's llm_costs
    drafts,   \* history: the part of it that transform_node recorded
    calls     \* rows of llm_costs in all

costVars == <<run, post, thread, spent, drafts, calls>>
llmVars == <<costVars, templateVars>>

\* post_id, total_cost_usd and whether error is set.
NoChannels == [post |-> Nothing, total |-> 0, error |-> FALSE]

\* dirty: a call is recorded that no checkpoint of the thread has in its total.
NoRun == [pc |-> "idle", thread |-> Nothing, ch |-> NoChannels, dirty |-> FALSE]

\* recorded: sum of the llm_costs rows of the post. History: retried, a retry or
\* publish-now ran it; mixed, no single thread has all that was spent on it.
NoRow == [upload |-> Nothing, cost_usd |-> 0, recorded |-> 0, retried |-> FALSE, mixed |-> FALSE]

Channels == [post : Posts \cup {Nothing}, total : 0 .. MaxCost * MaxCalls, error : BOOLEAN]
PCs == {"idle", "extract", "sanitize", "budget", "prompt", "transform", "validate", "end"}

LlmTypeOK ==
    /\ run \in [Runs -> [pc : PCs, thread : Uploads \cup {Nothing}, ch : Channels, dirty : BOOLEAN]]
    /\ DOMAIN post = Posts
    /\ \A p \in Posts :
         /\ post[p].upload \in Uploads \cup {Nothing}
         /\ post[p].cost_usd \in 0 .. MaxCost * MaxCalls
         /\ post[p].recorded \in 0 .. MaxCost * calls
         /\ post[p].retried \in BOOLEAN /\ post[p].mixed \in BOOLEAN
    /\ thread \in [Uploads -> Channels]
    /\ drafts \in 0 .. spent /\ spent \in 0 .. MaxCost * calls
    /\ calls \in 0 .. MaxCalls

LlmInit ==
    /\ TemplatesInit
    /\ run = [r \in Runs |-> NoRun]
    /\ post = [p \in Posts |-> NoRow]
    /\ thread = [u \in Uploads |-> NoChannels]
    /\ spent = 0 /\ drafts = 0 /\ calls = 0

-----------------------------------------------------------------------------
(* Starts *)

At(r, pc) == run[r].pc = pc
money == <<spent, drafts, calls>>

\* Another run of p is in progress.
Busy(p) == \E q \in Runs : ~At(q, "idle") /\ run[q].ch.post = p

Start(r, u, ch) == run' = [run EXCEPT ![r] = [NoRun EXCEPT !.pc = "extract", !.thread = u, !.ch = ch]]

\* Mutant: a second start counts from zero, for the same row.
MutTrigger(r, u) ==
    LET p == thread[u].post
    IN  /\ At(r, "idle")
        /\ Start(r, u, [thread[u] EXCEPT !.total = 0])
        /\ post' = IF p = Nothing THEN post
                   ELSE [post EXCEPT ![p].mixed = @ \/ post[p].retried \/ Busy(p)]
        /\ UNCHANGED <<thread, money>>

\* A start of thread upload-<id>: what its channels hold is still there, with
\* the row and its total.
Trigger(r, u) ==
    LET p == thread[u].post
    IN  /\ At(r, "idle")
        /\ Start(r, u, thread[u])
        /\ post' = IF p = Nothing THEN post
                   ELSE [post EXCEPT ![p].mixed = @ \/ post[p].retried \/ Busy(p)]
        /\ UNCHANGED <<thread, money>>

\* retry_post, publish_now: the row on a thread of its own, whose total is zero.
Retry(r, p) ==
    /\ At(r, "idle") /\ post[p].upload # Nothing
    /\ Start(r, Nothing, [NoChannels EXCEPT !.post = p])
    /\ post' = [post EXCEPT ![p].mixed = @ \/ post[p].recorded # 0 \/ Busy(p), ![p].retried = TRUE]
    /\ UNCHANGED <<thread, money>>

-----------------------------------------------------------------------------
(* Nodes *)

\* The run is at node pc, with channels ch.
Step(r, pc, ch) == run' = [run EXCEPT ![r].pc = pc, ![r].ch = ch]

\* extract_node takes the row of the channels, or makes one; dedup_node ends the
\* run of a duplicate, and of a thread whose error channel an earlier run set.
Extract(r) ==
    /\ At(r, "extract")
    /\ \E p \in Posts, duplicate \in BOOLEAN :
         LET error == run[r].ch.error \/ duplicate
         IN  /\ \/ run[r].ch.post = p /\ UNCHANGED post
                \/ /\ run[r].ch.post = Nothing /\ post[p].upload = Nothing
                   /\ post' = [post EXCEPT ![p].upload = run[r].thread]
             /\ Step(r, IF error THEN "end" ELSE "sanitize",
                     [run[r].ch EXCEPT !.post = p, !.error = error])
    /\ UNCHANGED <<thread, money>>

\* Mutant: the row of llm_costs gets the running total.
MutBill(r, cost, next, error) ==
    LET total == run[r].ch.total + cost
    IN  /\ calls < MaxCalls
        /\ run' = [run EXCEPT ![r].pc = next, ![r].dirty = run[r].thread # Nothing,
                              ![r].ch = [run[r].ch EXCEPT !.total = total, !.error = error]]
        /\ post' = [post EXCEPT ![run[r].ch.post].cost_usd = total,
                                ![run[r].ch.post].recorded = @ + total]
        /\ spent' = spent + total
        /\ calls' = calls + 1

\* CostTracker.record and posts.cost_usd, in one transaction.
Bill(r, cost, next, error) ==
    LET total == run[r].ch.total + cost
    IN  /\ calls < MaxCalls
        /\ run' = [run EXCEPT ![r].pc = next, ![r].dirty = run[r].thread # Nothing,
                              ![r].ch = [run[r].ch EXCEPT !.total = total, !.error = error]]
        /\ post' = [post EXCEPT ![run[r].ch.post].cost_usd = total,
                                ![run[r].ch.post].recorded = @ + cost]
        /\ spent' = spent + cost
        /\ calls' = calls + 1

\* sanitize_node: unsafe content ends the run.
Sanitize(r) ==
    /\ At(r, "sanitize")
    /\ \E cost \in 0 .. MaxCost :
         Bill(r, cost, "budget", FALSE) \/ Bill(r, cost, "end", TRUE)
    /\ UNCHANGED <<thread, drafts>>

\* Mutant: a budget that is just used up is not over.
MutOverBudget == spent > Budget

\* is_over_budget
OverBudget == spent >= Budget

\* transform_node, first transaction.
CheckBudget(r) ==
    /\ At(r, "budget")
    /\ Step(r, IF OverBudget THEN "end" ELSE "prompt", [run[r].ch EXCEPT !.error = OverBudget])
    /\ UNCHANGED <<post, thread, money>>

\* PromptManager.get; without an active template it raises (see CallRaises).
RenderPrompt(r) ==
    /\ At(r, "prompt")
    /\ \E i \in ActiveRows : templates[i].name = Main
    /\ Step(r, "transform", run[r].ch)
    /\ UNCHANGED <<post, thread, money>>

\* transform_node: the call, then the second transaction.
Transform(r) ==
    /\ At(r, "transform")
    /\ \E cost \in 0 .. MaxCost : Bill(r, cost, "validate", FALSE) /\ drafts' = drafts + cost
    /\ UNCHANGED thread

\* validate_node with its tone check; no node after it calls the model.
Validate(r) ==
    /\ At(r, "validate")
    /\ \E cost \in 0 .. MaxCost, error \in BOOLEAN : Bill(r, cost, "end", error)
    /\ UNCHANGED <<thread, drafts>>

\* No tone check is configured, or the text is blank: no row of llm_costs.
ValidateLocally(r) ==
    /\ At(r, "validate")
    /\ \E error \in BOOLEAN : Step(r, "end", [run[r].ch EXCEPT !.error = error])
    /\ post' = [post EXCEPT ![run[r].ch.post].cost_usd = run[r].ch.total]
    /\ UNCHANGED <<thread, money>>

-----------------------------------------------------------------------------
(* Checkpoints and faults *)

\* AsyncPostgresSaver writes the channels of r, while the next node may be running.
Save(r) == thread' = IF run[r].thread = Nothing THEN thread
                     ELSE [thread EXCEPT ![run[r].thread] = run[r].ch]

Checkpoint(r) ==
    /\ ~At(r, "idle") /\ ~At(r, "extract")
    /\ Save(r)
    /\ run' = [run EXCEPT ![r].dirty = FALSE]
    /\ UNCHANGED <<post, money>>

Stop(r) == run' = [run EXCEPT ![r] = NoRun]

\* The run is over, or paused for a human: astream has waited for its checkpoints.
Finish(r) ==
    /\ At(r, "end")
    /\ Save(r) /\ Stop(r)
    /\ UNCHANGED <<post, money>>

\* A node raises before its commit: what the nodes before it returned is saved.
CallRaises(r) ==
    /\ ~At(r, "idle") /\ ~At(r, "end")
    /\ (IF At(r, "extract") THEN UNCHANGED thread ELSE Save(r))
    /\ Stop(r)
    /\ UNCHANGED <<post, money>>

\* What these runs recorded since their last checkpoints is in no thread.
Forget(S) ==
    post' = [p \in Posts |->
               [post[p] EXCEPT !.mixed = @ \/ \E r \in S : run[r].dirty /\ run[r].ch.post = p]]

\* Writing the checkpoint raises: the run is over.
CheckpointFails(r) ==
    /\ ~At(r, "idle")
    /\ Forget({r}) /\ Stop(r)
    /\ UNCHANGED <<thread, money>>

\* The process is killed: no run goes on.
KillRuns ==
    /\ run' = [r \in Runs |-> NoRun]
    /\ Forget(Runs)
    /\ UNCHANGED <<thread, money>>

\* get_monthly_total counts the current month.
NewMonth ==
    /\ spent' = 0 /\ drafts' = 0
    /\ UNCHANGED <<run, post, thread, calls>>

Spend ==
    \/ \E r \in Runs :
         \/ \E u \in Uploads : Trigger(r, u)
         \/ \E p \in Posts : Retry(r, p)
         \/ Extract(r) \/ Sanitize(r) \/ CheckBudget(r) \/ RenderPrompt(r)
         \/ Transform(r) \/ Validate(r) \/ ValidateLocally(r)
         \/ Checkpoint(r) \/ Finish(r) \/ CallRaises(r) \/ CheckpointFails(r)
    \/ KillRuns \/ NewMonth

LlmNext ==
    \/ EditTemplates /\ UNCHANGED costVars
    \/ Spend /\ UNCHANGED templateVars

LlmSpec == LlmInit /\ [][LlmNext]_llmVars

-----------------------------------------------------------------------------
(* Properties *)

\* The budget is read before the call and spent after it: what the transform
\* nodes record in a month stays below the budget plus one call of every run
\* that can be in progress. Nothing bounds what the other nodes spend.
TransformOverdraft == drafts <= Budget - 1 + MaxCost * Cardinality(Runs)

\* posts.cost_usd is the sum of the post's llm_costs, however often its upload
\* was started again and whatever node raised, unless a retry or publish-now
\* came beside other costs of the post, two runs of it were in progress at once,
\* or a checkpoint was lost after a call was recorded.
CostOfOneThread == \A p \in Posts : ~post[p].mixed => post[p].cost_usd = post[p].recorded

=============================================================================
