---------------------------- MODULE LlmCallsProofs ----------------------------
(***************************************************************************)
(* What runs spend on the language model, for any number of runs, any      *)
(* budget and any prices; and the versions of the prompt templates, for    *)
(* any number of editors, names and versions.                              *)
(***************************************************************************)
EXTENDS LlmCalls, SelectionProofs, SequenceTheorems

USE CostAssumption

-----------------------------------------------------------------------------
(* Types and the bound of every amount *)

\* No amount exceeds what the calls so far can have cost.
Limit == MaxCost * calls

Chan(n)  == [post : Posts \cup {Nothing}, total : 0 .. n, error : BOOLEAN]
RunOf(n) == [pc : PCs, thread : Uploads \cup {Nothing}, ch : Chan(n), dirty : BOOLEAN]
RowOf(n) == [upload : Uploads \cup {Nothing}, cost_usd : 0 .. n, recorded : 0 .. n,
             retried : BOOLEAN, mixed : BOOLEAN]

TypeInv ==
    /\ run \in [Runs -> RunOf(Limit)] /\ post \in [Posts -> RowOf(Limit)]
    /\ thread \in [Uploads -> Chan(Limit)]
    /\ spent \in 0 .. Limit /\ drafts \in 0 .. spent /\ calls \in 0 .. MaxCalls

LEMMA Products ==
  ASSUME NEW c \in Nat
  PROVE  /\ MaxCost * c \in Nat
         /\ MaxCost * (c + 1) = MaxCost * c + MaxCost
         /\ \A d \in Nat : c <= d => MaxCost * c <= MaxCost * d
<1>1. MaxCost * c \in Nat /\ MaxCost * (c + 1) = MaxCost * c + MaxCost
  OBVIOUS
<1>2. ASSUME NEW d \in Nat, c <= d PROVE MaxCost * c <= MaxCost * d
  <2>1. /\ d - c \in Nat /\ d = c + (d - c)
    BY <1>2
  <2>2. MaxCost * (c + (d - c)) = MaxCost * c + MaxCost * (d - c)
    BY <2>1
  <2>3. MaxCost * (d - c) \in Nat
    BY <2>1
  <2> QED BY <1>1, <2>1, <2>2, <2>3
<1> QED BY <1>1, <1>2

\* A larger bound admits what a smaller one does.
LEMMA Grown ==
  ASSUME NEW m \in Nat, NEW n \in Nat, m <= n
  PROVE  Chan(m) \subseteq Chan(n) /\ RunOf(m) \subseteq RunOf(n) /\ RowOf(m) \subseteq RowOf(n)
<1>1. 0 .. m \subseteq 0 .. n
  OBVIOUS
<1>2. Chan(m) \subseteq Chan(n)
  BY <1>1 DEF Chan
<1>3. RunOf(m) \subseteq RunOf(n)
  BY <1>2 DEF RunOf
<1>4. RowOf(m) \subseteq RowOf(n)
  BY <1>1 DEF RowOf
<1> QED BY <1>2, <1>3, <1>4

LEMMA TypeInvSuffices == TypeInv => LlmTypeOK
<1> SUFFICES ASSUME TypeInv PROVE LlmTypeOK
  OBVIOUS
<1> DEFINE top == MaxCost * MaxCalls
<1>1. Limit \in Nat /\ top \in Nat /\ Limit <= top
  BY Products DEF TypeInv, Limit
<1> HIDE DEF top
<1>2. /\ run \in [Runs -> RunOf(top)] /\ thread \in [Uploads -> Chan(top)]
      /\ post \in [Posts -> RowOf(top)]
  BY <1>1, Grown DEF TypeInv
<1>3. post \in [Posts -> RowOf(Limit)] /\ spent \in 0 .. Limit /\ drafts \in 0 .. spent
      /\ calls \in 0 .. MaxCalls
  BY DEF TypeInv
<1>4. Chan(top) = Channels
  BY DEF Chan, Channels, top
<1>5. /\ run \in [Runs -> [pc : PCs, thread : Uploads \cup {Nothing}, ch : Channels, dirty : BOOLEAN]]
      /\ thread \in [Uploads -> Channels]
  BY <1>2, <1>4 DEF RunOf
<1>6. \A p \in Posts :
         /\ post[p].upload \in Uploads \cup {Nothing} /\ post[p].cost_usd \in 0 .. top
         /\ post[p].recorded \in 0 .. Limit
         /\ post[p].retried \in BOOLEAN /\ post[p].mixed \in BOOLEAN
  BY <1>2, <1>3 DEF RowOf
<1> QED BY <1>3, <1>5, <1>6 DEF LlmTypeOK, Limit, top

LEMMA TypeInit == LlmInit => TypeInv
<1> SUFFICES ASSUME LlmInit PROVE TypeInv
  OBVIOUS
<1>1. Limit = 0
  BY DEF LlmInit, Limit
<1> QED BY <1>1 DEF LlmInit, TypeInv, NoRun, NoRow, NoChannels, Chan, RunOf, RowOf, PCs

\* Billing raises every amount by the cost of one call at most.
LEMMA BillTypes ==
  ASSUME TypeInv, NEW r \in Runs, NEW cost \in 0 .. MaxCost, NEW next \in PCs,
         NEW error \in BOOLEAN, Bill(r, cost, next, error), UNCHANGED thread,
         drafts' \in {drafts, drafts + cost}
  PROVE  TypeInv'
<1>1. Limit \in Nat /\ Limit' = Limit + MaxCost /\ calls' \in 0 .. MaxCalls
  BY Products DEF TypeInv, Bill, Limit
<1> DEFINE newer == Limit'
           total == run[r].ch.total + cost
           ch == [run[r].ch EXCEPT !.total = total, !.error = error]
           d == run[r].thread # Nothing
           p == run[r].ch.post
<1>2. newer \in Nat /\ Limit <= newer /\ \A n \in 0 .. Limit : n + cost \in 0 .. newer
  BY <1>1
<1>3. run[r] \in RunOf(Limit) /\ run[r].ch \in Chan(Limit) /\ p \in Posts \cup {Nothing}
  BY DEF TypeInv, RunOf, Chan
<1>4. total \in 0 .. newer /\ ch \in Chan(newer)
  BY <1>2, <1>3 DEF Chan
<1>5. run' = [run EXCEPT ![r].pc = next, ![r].dirty = d, ![r].ch = ch]
  BY DEF Bill
<1>6. post' = [post EXCEPT ![p].cost_usd = total, ![p].recorded = @ + cost]
  BY DEF Bill
<1>7. /\ run \in [Runs -> RunOf(newer)] /\ post \in [Posts -> RowOf(newer)]
      /\ thread \in [Uploads -> Chan(newer)] /\ post \in [Posts -> RowOf(Limit)]
  BY <1>1, <1>2, Grown DEF TypeInv
<1>8. d \in BOOLEAN
  OBVIOUS
<1>9. spent' \in 0 .. newer /\ drafts' \in 0 .. spent'
  BY <1>1, <1>2 DEF Bill, TypeInv
<1> HIDE DEF ch, d, newer, total, p
<1>10. run' \in [Runs -> RunOf(newer)]
  BY <1>4, <1>5, <1>7, <1>8 DEF RunOf
<1>11. post' \in [Posts -> RowOf(newer)]
  <2>1. ASSUME NEW q \in Posts PROVE post'[q] \in RowOf(newer)
    <3>1. post[q].recorded + cost \in 0 .. newer
      BY <1>2, <1>7 DEF RowOf
    <3> QED BY <1>4, <1>6, <1>7, <3>1 DEF RowOf
  <2> QED BY <1>6, <1>7, <2>1
<1> QED BY <1>1, <1>7, <1>9, <1>10, <1>11 DEF TypeInv, newer

\* Every other step of a run moves amounts, and makes none.
LEMMA MoveTypes ==
  ASSUME TypeInv, NEW r \in Runs,
         \/ \E u \in Uploads : Trigger(r, u)
         \/ \E p \in Posts : Retry(r, p)
         \/ Extract(r) \/ CheckBudget(r) \/ RenderPrompt(r) \/ ValidateLocally(r)
         \/ Checkpoint(r) \/ Finish(r) \/ CallRaises(r) \/ CheckpointFails(r)
  PROVE  TypeInv'
<1> DEFINE C == Chan(Limit)
           R == RunOf(Limit)
           W == RowOf(Limit)
<1>1. Limit \in Nat
  BY Products DEF TypeInv, Limit
<1>2. /\ run \in [Runs -> R] /\ post \in [Posts -> W] /\ thread \in [Uploads -> C]
      /\ run[r] \in R /\ run[r].ch \in C /\ NoChannels \in C /\ NoRun \in R
  BY <1>1 DEF TypeInv, RunOf, Chan, NoChannels, NoRun, PCs
<1>3. /\ UNCHANGED money
      /\ run' \in [Runs -> R] /\ post' \in [Posts -> W] /\ thread' \in [Uploads -> C]
  <2>1. ASSUME NEW u \in Uploads, Trigger(r, u)
        PROVE  run' \in [Runs -> R] /\ post' \in [Posts -> W] /\ UNCHANGED <<thread, money>>
    <3>1. thread[u] \in C
      BY <1>2
    <3>2. run' \in [Runs -> R]
      BY <1>2, <2>1, <3>1 DEF Trigger, Start, NoRun, RunOf, PCs
    <3>3. post' \in [Posts -> W]
      BY <1>2, <2>1 DEF Trigger, RowOf, Busy
    <3> QED BY <2>1, <3>2, <3>3 DEF Trigger
  <2>2. ASSUME NEW p \in Posts, Retry(r, p)
        PROVE  run' \in [Runs -> R] /\ post' \in [Posts -> W] /\ UNCHANGED <<thread, money>>
    <3>1. [NoChannels EXCEPT !.post = p] \in C
      BY <1>2 DEF Chan
    <3>2. run' \in [Runs -> R]
      BY <1>2, <2>2, <3>1 DEF Retry, Start, NoRun, RunOf, PCs
    <3>3. post' \in [Posts -> W]
      BY <1>2, <2>2 DEF Retry, RowOf, Busy
    <3> QED BY <2>2, <3>2, <3>3 DEF Retry
  <2>3. ASSUME Extract(r)
        PROVE  run' \in [Runs -> R] /\ post' \in [Posts -> W] /\ UNCHANGED <<thread, money>>
    <3>1. PICK p \in Posts, duplicate \in BOOLEAN :
             LET error == run[r].ch.error \/ duplicate
             IN  /\ \/ run[r].ch.post = p /\ UNCHANGED post
                    \/ /\ run[r].ch.post = Nothing /\ post[p].upload = Nothing
                       /\ post' = [post EXCEPT ![p].upload = run[r].thread]
                 /\ Step(r, IF error THEN "end" ELSE "sanitize",
                         [run[r].ch EXCEPT !.post = p, !.error = error])
      BY <2>3 DEF Extract
    <3>2. run[r].thread \in Uploads \cup {Nothing}
      BY <1>2 DEF RunOf
    <3>3. post' \in [Posts -> W]
      BY <1>2, <3>1, <3>2 DEF RowOf
    <3>4. PICK n \in PCs, e \in BOOLEAN : Step(r, n, [run[r].ch EXCEPT !.post = p, !.error = e])
      BY <1>2, <3>1 DEF PCs, Chan
    <3>5. [run[r].ch EXCEPT !.post = p, !.error = e] \in C
      BY <1>2 DEF Chan
    <3>6. run' \in [Runs -> R]
      BY <1>2, <3>4, <3>5 DEF Step, RunOf
    <3> QED BY <2>3, <3>3, <3>6 DEF Extract
  <2>4. ASSUME CheckBudget(r) \/ RenderPrompt(r) \/ ValidateLocally(r)
        PROVE  run' \in [Runs -> R] /\ post' \in [Posts -> W] /\ UNCHANGED <<thread, money>>
    <3>1. PICK n \in PCs, e \in BOOLEAN : Step(r, n, [run[r].ch EXCEPT !.error = e])
      <4>1. run[r].ch = [run[r].ch EXCEPT !.error = run[r].ch.error] /\ run[r].ch.error \in BOOLEAN
        BY <1>2 DEF Chan
      <4>2. CASE CheckBudget(r)
        <5>1. OverBudget \in BOOLEAN /\ (IF OverBudget THEN "end" ELSE "prompt") \in PCs
          BY DEF OverBudget, PCs
        <5> QED BY <4>2, <5>1 DEF CheckBudget
      <4>3. CASE RenderPrompt(r)
        BY <4>1, <4>3 DEF RenderPrompt, PCs
      <4>4. CASE ValidateLocally(r)
        BY <4>4 DEF ValidateLocally, PCs
      <4> QED BY <2>4, <4>2, <4>3, <4>4
    <3>2. [run[r].ch EXCEPT !.error = e] \in C /\ run[r].ch.total \in 0 .. Limit
      BY <1>2 DEF Chan
    <3>3. run' \in [Runs -> R]
      BY <1>2, <3>1, <3>2 DEF Step, RunOf
    <3>4. post' \in [Posts -> W]
      BY <1>2, <2>4, <3>2 DEF CheckBudget, RenderPrompt, ValidateLocally, RowOf
    <3> QED BY <2>4, <3>3, <3>4 DEF CheckBudget, RenderPrompt, ValidateLocally
  <2>5. ASSUME Checkpoint(r) \/ Finish(r) \/ CallRaises(r) \/ CheckpointFails(r)
        PROVE  /\ run' \in [Runs -> R] /\ post' \in [Posts -> W] /\ thread' \in [Uploads -> C]
               /\ UNCHANGED money
    <3>1. run' \in [Runs -> R]
      BY <1>2, <2>5 DEF Checkpoint, Finish, CallRaises, CheckpointFails, Stop, RunOf
    <3>2. thread' \in [Uploads -> C]
      BY <1>2, <2>5 DEF Checkpoint, Finish, CallRaises, CheckpointFails, Save
    <3>3. post' \in [Posts -> W]
      <4>1. CASE UNCHANGED post
        BY <1>2, <4>1
      <4>2. CASE CheckpointFails(r)
        BY <1>2, <4>2 DEF CheckpointFails, Forget, RowOf
      <4> QED BY <2>5, <4>1, <4>2 DEF Checkpoint, Finish, CallRaises
    <3> QED BY <2>5, <3>1, <3>2, <3>3 DEF Checkpoint, Finish, CallRaises, CheckpointFails
  <2> QED BY <1>2, <2>1, <2>2, <2>3, <2>4, <2>5
<1>4. Limit' = Limit
  BY <1>3 DEF Limit, money
<1> QED BY <1>3, <1>4 DEF TypeInv, money

LEMMA TypeStep == TypeInv /\ [LlmNext]_llmVars => TypeInv'
<1> SUFFICES ASSUME TypeInv, [LlmNext]_llmVars PROVE TypeInv'
  OBVIOUS
<1>1. CASE UNCHANGED costVars
  BY <1>1 DEF TypeInv, Limit, costVars
<1>2. ASSUME NEW r \in Runs, Sanitize(r) \/ Transform(r) \/ Validate(r) PROVE TypeInv'
  <2>1. PICK cost \in 0 .. MaxCost, next \in PCs, error \in BOOLEAN :
             Bill(r, cost, next, error) /\ drafts' \in {drafts, drafts + cost}
    BY <1>2 DEF Sanitize, Transform, Validate, PCs
  <2>2. UNCHANGED thread
    BY <1>2 DEF Sanitize, Transform, Validate
  <2> QED BY <2>1, <2>2, BillTypes
<1>3. CASE KillRuns
  <2>1. Limit \in Nat /\ Limit' = Limit /\ UNCHANGED <<thread, spent, drafts, calls>>
    BY <1>3, Products DEF KillRuns, money, TypeInv, Limit
  <2>2. run' \in [Runs -> RunOf(Limit)]
    BY <1>3, <2>1 DEF KillRuns, NoRun, NoChannels, RunOf, Chan, PCs
  <2>3. post' \in [Posts -> RowOf(Limit)]
    BY <1>3 DEF KillRuns, Forget, TypeInv, RowOf
  <2> QED BY <2>1, <2>2, <2>3 DEF TypeInv
<1>4. CASE NewMonth
  <2>1. Limit \in Nat /\ Limit' = Limit
    BY <1>4, Products DEF NewMonth, TypeInv, Limit
  <2> QED BY <1>4, <2>1 DEF NewMonth, TypeInv
<1> QED BY <1>1, <1>2, <1>3, <1>4, MoveTypes DEF LlmNext, Spend, llmVars

\* Every amount of LlmCalls keeps its type and stays below what calls can cost.
THEOREM LlmTypesSound == LlmSpec => []LlmTypeOK
<1>1. LlmSpec => []TypeInv
  BY TypeInit, TypeStep, PTL DEF LlmSpec
<1> QED BY <1>1, TypeInvSuffices, PTL

-----------------------------------------------------------------------------
(* Overdraft of the budget *)

\* Runs between the look at the budget and the end of their call.
Drafting == {r \in Runs : run[r].pc \in {"prompt", "transform"}}

\* Each of them may still spend MaxCost.
DraftInv == drafts + MaxCost * Cardinality(Drafting) <= Budget - 1 + MaxCost * Cardinality(Runs)

LEMMA Counting ==
  ASSUME NEW S, S \subseteq Runs
  PROVE  /\ IsFiniteSet(S) /\ Cardinality(S) \in Nat /\ Cardinality(S) <= Cardinality(Runs)
         /\ Cardinality(Runs) \in Nat
         /\ MaxCost * Cardinality(S) \in Nat /\ MaxCost * Cardinality(Runs) \in Nat
         /\ MaxCost * Cardinality(S) <= MaxCost * Cardinality(Runs)
<1>1. /\ IsFiniteSet(S) /\ Cardinality(S) \in Nat /\ Cardinality(S) <= Cardinality(Runs)
      /\ Cardinality(Runs) \in Nat
  BY RunsAssumption, FS_Subset, FS_CardinalityType
<1> QED BY <1>1, Products

\* Fewer runs draft: what they may still spend does not grow.
LEMMA FewerDrafts ==
  ASSUME NEW S, NEW T, T \subseteq S, S \subseteq Runs
  PROVE  MaxCost * Cardinality(T) <= MaxCost * Cardinality(S)
<1>1. IsFiniteSet(S) /\ Cardinality(S) \in Nat /\ Cardinality(T) \in Nat
  BY Counting
<1>2. Cardinality(T) <= Cardinality(S)
  BY <1>1, FS_Subset
<1> QED BY <1>1, <1>2, Products

\* One run less: it may spend MaxCost now.
LEMMA OneDraftLess ==
  ASSUME NEW S, S \subseteq Runs, NEW r \in S
  PROVE  MaxCost * Cardinality(S) = MaxCost * Cardinality(S \ {r}) + MaxCost
<1>1. IsFiniteSet(S) /\ Cardinality(S) \in Nat /\ Cardinality(S \ {r}) \in Nat
  BY Counting
<1>2. Cardinality(S \ {r}) = Cardinality(S) - 1
  BY <1>1, FS_RemoveElement, Zenon
<1>3. Cardinality(S) = Cardinality(S \ {r}) + 1
  BY <1>1, <1>2
<1> QED BY <1>1, <1>3, Products

LEMMA DraftInit == LlmInit => DraftInv
<1> SUFFICES ASSUME LlmInit PROVE DraftInv
  OBVIOUS
<1>1. Drafting = {}
  BY DEF LlmInit, Drafting, NoRun
<1>2. MaxCost * Cardinality(Drafting) = 0
  BY <1>1, FS_EmptySet
<1>3. drafts = 0
  BY DEF LlmInit
<1> QED BY <1>2, <1>3, Counting DEF DraftInv

\* A step that draws nothing and lets no run past the look.
LEMMA DraftFewer ==
  ASSUME TypeInv, DraftInv, drafts' = drafts \/ drafts' = 0, Drafting' \subseteq Drafting
  PROVE  DraftInv'
<1>1. Drafting \subseteq Runs /\ Drafting' \subseteq Runs
  BY DEF Drafting
<1>2. MaxCost * Cardinality(Drafting') <= MaxCost * Cardinality(Drafting)
  BY <1>1, FewerDrafts
<1>3. drafts \in Nat
  BY Products DEF TypeInv, Limit
<1> QED BY <1>1, <1>2, <1>3, Counting DEF DraftInv

\* Where a step takes the run it is about; no other run moves.
LEMMA RunMoves ==
  ASSUME TypeInv, NEW r \in Runs
  PROVE  /\ \A u \in Uploads : Trigger(r, u) => run'[r].pc = "extract"
         /\ \A p \in Posts : Retry(r, p) => run'[r].pc = "extract"
         /\ Extract(r) => run'[r].pc \in {"end", "sanitize"}
         /\ Sanitize(r) => run'[r].pc \in {"budget", "end"}
         /\ CheckBudget(r) => run'[r].pc = IF OverBudget THEN "end" ELSE "prompt"
         /\ RenderPrompt(r) => run[r].pc = "prompt" /\ run'[r].pc = "transform"
         /\ Transform(r) => run[r].pc = "transform" /\ run'[r].pc = "validate"
         /\ Validate(r) \/ ValidateLocally(r) => run'[r].pc = "end"
         /\ Checkpoint(r) => run'[r].pc = run[r].pc
         /\ Finish(r) \/ CallRaises(r) \/ CheckpointFails(r) => run'[r].pc = "idle"
         /\ (\/ \E u \in Uploads : Trigger(r, u)
             \/ \E p \in Posts : Retry(r, p)
             \/ Extract(r) \/ Sanitize(r) \/ CheckBudget(r) \/ RenderPrompt(r)
             \/ Transform(r) \/ Validate(r) \/ ValidateLocally(r)
             \/ Checkpoint(r) \/ Finish(r) \/ CallRaises(r) \/ CheckpointFails(r))
            => \A q \in Runs \ {r} : run'[q] = run[q]
<1>1. run \in [Runs -> RunOf(Limit)] /\ run[r] \in RunOf(Limit)
  BY DEF TypeInv
<1>2. \A u : Trigger(r, u) => run'[r].pc = "extract" /\ \A q \in Runs \ {r} : run'[q] = run[q]
  BY <1>1 DEF Trigger, Start, NoRun
<1>3. \A p : Retry(r, p) => run'[r].pc = "extract" /\ \A q \in Runs \ {r} : run'[q] = run[q]
  BY <1>1 DEF Retry, Start, NoRun
<1>4. \A n, c : Step(r, n, c) => run'[r].pc = n /\ \A q \in Runs \ {r} : run'[q] = run[q]
  BY <1>1 DEF Step, RunOf
<1>5. \A cost, n, e : Bill(r, cost, n, e)
                       => run'[r].pc = n /\ \A q \in Runs \ {r} : run'[q] = run[q]
  <2> TAKE cost, n, e
  <2> DEFINE d == run[r].thread # Nothing
             c == [run[r].ch EXCEPT !.total = run[r].ch.total + cost, !.error = e]
  <2> HAVE Bill(r, cost, n, e)
  <2>1. run' = [run EXCEPT ![r].pc = n, ![r].dirty = d, ![r].ch = c]
    BY DEF Bill
  <2> HIDE DEF c, d
  <2> QED BY <1>1, <2>1 DEF RunOf
<1>6. /\ Extract(r) => run'[r].pc \in {"end", "sanitize"} /\ \A q \in Runs \ {r} : run'[q] = run[q]
      /\ CheckBudget(r) => /\ run'[r].pc = IF OverBudget THEN "end" ELSE "prompt"
                           /\ \A q \in Runs \ {r} : run'[q] = run[q]
      /\ RenderPrompt(r) => /\ run[r].pc = "prompt" /\ run'[r].pc = "transform"
                            /\ \A q \in Runs \ {r} : run'[q] = run[q]
      /\ ValidateLocally(r) => run'[r].pc = "end" /\ \A q \in Runs \ {r} : run'[q] = run[q]
  BY <1>4 DEF Extract, CheckBudget, RenderPrompt, ValidateLocally, At
<1>7. /\ Sanitize(r) => run'[r].pc \in {"budget", "end"} /\ \A q \in Runs \ {r} : run'[q] = run[q]
      /\ Transform(r) => /\ run[r].pc = "transform" /\ run'[r].pc = "validate"
                         /\ \A q \in Runs \ {r} : run'[q] = run[q]
      /\ Validate(r) => run'[r].pc = "end" /\ \A q \in Runs \ {r} : run'[q] = run[q]
  BY <1>5 DEF Sanitize, Transform, Validate, At
<1>8. /\ Checkpoint(r) => run'[r].pc = run[r].pc /\ \A q \in Runs \ {r} : run'[q] = run[q]
      /\ Finish(r) \/ CallRaises(r) \/ CheckpointFails(r)
           => run'[r].pc = "idle" /\ \A q \in Runs \ {r} : run'[q] = run[q]
  BY <1>1 DEF Checkpoint, Finish, CallRaises, CheckpointFails, Stop, NoRun, RunOf
<1> QED BY <1>2, <1>3, <1>6, <1>7, <1>8

LEMMA DraftStep == TypeInv /\ DraftInv /\ [LlmNext]_llmVars => DraftInv'
<1> SUFFICES ASSUME TypeInv, DraftInv, [LlmNext]_llmVars PROVE DraftInv'
  OBVIOUS
<1>1. Drafting \subseteq Runs /\ Drafting' \subseteq Runs /\ drafts \in Nat /\ spent \in Nat
      /\ drafts <= spent
  BY Products DEF Drafting, TypeInv, Limit
<1>2. CASE UNCHANGED costVars
  BY <1>2, DraftFewer DEF costVars, Drafting
<1>3. CASE KillRuns \/ NewMonth
  <2>1. Drafting' \subseteq Drafting
    BY <1>3 DEF KillRuns, NewMonth, Drafting, NoRun
  <2> QED BY <1>3, <2>1, DraftFewer DEF KillRuns, NewMonth, money
<1>4. ASSUME NEW r \in Runs,
             \/ \E u \in Uploads : Trigger(r, u)
             \/ \E p \in Posts : Retry(r, p)
             \/ Extract(r) \/ Sanitize(r) \/ RenderPrompt(r) \/ Validate(r) \/ ValidateLocally(r)
             \/ Checkpoint(r) \/ Finish(r) \/ CallRaises(r) \/ CheckpointFails(r)
      PROVE  DraftInv'
  <2>1. drafts' = drafts
    BY <1>4 DEF Trigger, Retry, Extract, Sanitize, RenderPrompt, Validate, ValidateLocally,
                Checkpoint, Finish, CallRaises, CheckpointFails, money
  <2>2. /\ \A q \in Runs \ {r} : run'[q] = run[q]
        /\ run'[r].pc \in {"prompt", "transform"} => run[r].pc \in {"prompt", "transform"}
    BY <1>4, RunMoves
  <2>3. Drafting' \subseteq Drafting
    BY <2>2 DEF Drafting
  <2> QED BY <2>1, <2>3, DraftFewer
<1>5. ASSUME NEW r \in Runs, CheckBudget(r) PROVE DraftInv'
  <2>1. drafts' = drafts
    BY <1>5 DEF CheckBudget, money
  <2>2. CASE OverBudget
    <3>1. run'[r].pc = "end" /\ \A q \in Runs \ {r} : run'[q] = run[q]
      BY <1>5, <2>2, RunMoves
    <3>2. Drafting' \subseteq Drafting
      BY <3>1 DEF Drafting
    <3> QED BY <2>1, <3>2, DraftFewer
  <2>3. CASE ~OverBudget
    <3>1. drafts <= Budget - 1
      BY <1>1, <2>3 DEF OverBudget
    <3> QED BY <1>1, <2>1, <3>1, Counting DEF DraftInv
  <2> QED BY <2>2, <2>3
<1>6. ASSUME NEW r \in Runs, Transform(r) PROVE DraftInv'
  <2>1. PICK cost \in 0 .. MaxCost : drafts' = drafts + cost
    BY <1>6 DEF Transform
  <2>2. run'[r].pc = "validate" /\ run[r].pc = "transform" /\ \A q \in Runs \ {r} : run'[q] = run[q]
    BY <1>6, RunMoves
  <2>3. r \in Drafting /\ Drafting' = Drafting \ {r}
    BY <2>2 DEF Drafting
  <2>4. MaxCost * Cardinality(Drafting) = MaxCost * Cardinality(Drafting') + MaxCost
    BY <1>1, <2>3, OneDraftLess
  <2> QED BY <1>1, <2>1, <2>4, Counting DEF DraftInv
<1> QED BY <1>2, <1>3, <1>4, <1>5, <1>6 DEF LlmNext, Spend, llmVars

\* is_over_budget is asked before the call and the call is billed after it:
\* transform_node overdraws the budget by less than one call of every run.
THEOREM OverdraftSound == LlmSpec => []TransformOverdraft
<1>1. LlmSpec => []TypeInv
  BY TypeInit, TypeStep, PTL DEF LlmSpec
<1>2. LlmSpec => []DraftInv
  BY <1>1, DraftInit, DraftStep, PTL DEF LlmSpec
<1>3. TypeInv /\ DraftInv => TransformOverdraft
  <2> SUFFICES ASSUME TypeInv, DraftInv PROVE TransformOverdraft
    OBVIOUS
  <2>1. Drafting \subseteq Runs /\ drafts \in Nat
    BY Products DEF Drafting, TypeInv, Limit
  <2> QED BY <2>1, Counting DEF DraftInv, TransformOverdraft
<1> QED BY <1>1, <1>2, <1>3, PTL

-----------------------------------------------------------------------------
(* posts.cost_usd *)

\* Run r is in progress with row p.
On(r, p) == run[r].pc # "idle" /\ run[r].ch.post = p

\* A run without a row is about to make one; every other run has a row of its
\* thread's upload, or is a retry of it.
RunRooted(r) ==
    LET p == run[r].ch.post
    IN  run[r].pc # "idle" =>
          /\ run[r].pc = "extract" => ~run[r].dirty
          /\ p = Nothing => /\ run[r].pc = "extract" /\ run[r].ch.total = 0
                            /\ run[r].thread # Nothing
          /\ p # Nothing /\ run[r].thread = Nothing =>
               /\ post[p].retried /\ post[p].upload # Nothing /\ ~run[r].dirty
          /\ p # Nothing /\ run[r].thread # Nothing => post[p].upload = run[r].thread

ThreadRooted(u) ==
    /\ thread[u].post = Nothing => thread[u].total = 0
    /\ thread[u].post # Nothing => post[thread[u].post].upload = u

\* All that was recorded for p is with its one run; and in its thread, unless a
\* run has not saved its last call.
Costs(p) ==
    /\ post[p].cost_usd = post[p].recorded
    /\ \A r \in Runs : On(r, p) => run[r].ch.total = post[p].recorded
    /\ \A r, q \in Runs : On(r, p) /\ On(q, p) => r = q
    /\ \A u \in Uploads : thread[u].post = p =>
         \/ post[p].retried \/ thread[u].total = post[p].recorded
         \/ \E r \in Runs : On(r, p) /\ run[r].dirty

CostInv ==
    /\ \A r \in Runs : RunRooted(r)
    /\ \A u \in Uploads : ThreadRooted(u)
    /\ \A p \in Posts : post[p].upload = Nothing => post[p].recorded = 0 /\ post[p].cost_usd = 0
    /\ \A p \in Posts : ~post[p].mixed => Costs(p)

LEMMA CostInit == LlmInit => CostInv
  BY DEF LlmInit, CostInv, RunRooted, ThreadRooted, Costs, On, NoRow, NoRun, NoChannels

\* The rows of a run that goes on as it is, and of the posts it leaves alone.
LEMMA StartCost ==
  ASSUME TypeInv, CostInv, NEW r \in Runs,
         \/ \E u \in Uploads : Trigger(r, u)
         \/ \E p \in Posts : Retry(r, p)
  PROVE  CostInv'
<1>1. /\ run \in [Runs -> RunOf(Limit)] /\ post \in [Posts -> RowOf(Limit)]
      /\ thread \in [Uploads -> Chan(Limit)] /\ thread' = thread /\ run[r].pc = "idle"
  BY DEF TypeInv, Trigger, Retry, At
<1>2. ASSUME NEW u \in Uploads, Trigger(r, u) PROVE CostInv'
  <2> DEFINE p == thread[u].post
  <2>1. /\ run'[r] = [pc |-> "extract", thread |-> u, ch |-> thread[u], dirty |-> FALSE]
        /\ \A q \in Runs \ {r} : run'[q] = run[q]
    BY <1>1, <1>2 DEF Trigger, Start, NoRun
  <2>2. /\ p \in Posts \cup {Nothing}
        /\ \A s \in Posts : /\ post'[s].upload = post[s].upload
                            /\ post'[s].cost_usd = post[s].cost_usd
                            /\ post'[s].recorded = post[s].recorded
                            /\ post'[s].retried = post[s].retried
                            /\ s # p => post'[s].mixed = post[s].mixed
        /\ p \in Posts /\ ~post'[p].mixed => ~post[p].mixed /\ ~post[p].retried /\ ~Busy(p)
    BY <1>1, <1>2, NothingAssumption DEF Trigger, RowOf, Chan
  <2>3. u # Nothing /\ Nothing \notin Posts
    BY NothingAssumption
  <2>4. ASSUME NEW q \in Runs PROVE RunRooted(q)'
    <3>1. CASE q = r
      BY <1>1, <2>1, <2>2, <2>3, <3>1 DEF CostInv, RunRooted, ThreadRooted
    <3>2. CASE q # r
      <4>1. run'[q] = run[q] /\ RunRooted(q) /\ run[q].ch.post \in Posts \cup {Nothing}
        BY <1>1, <2>1, <3>2 DEF CostInv, RunOf, Chan
      <4> QED BY <2>2, <4>1 DEF RunRooted
    <3> QED BY <3>1, <3>2
  <2>5. ASSUME NEW v \in Uploads PROVE ThreadRooted(v)'
    <3>1. thread[v].post \in Posts \cup {Nothing} /\ ThreadRooted(v)
      BY <1>1 DEF CostInv, Chan
    <3> QED BY <1>1, <2>2, <3>1 DEF ThreadRooted
  <2>6. ASSUME NEW s \in Posts, ~post'[s].mixed PROVE Costs(s)'
    <3>1. Costs(s) /\ ~post[s].mixed
      BY <2>2, <2>6 DEF CostInv
    <3>2. CASE s # p
      <4>1. \A q \in Runs : On(q, s)' <=> On(q, s)
        BY <1>1, <2>1, <2>3, <3>2 DEF On
      <4>2. \A q \in Runs : On(q, s) => run'[q] = run[q]
        BY <1>1, <2>1 DEF On
      <4> QED BY <1>1, <2>2, <3>1, <4>1, <4>2 DEF Costs
    <3>3. CASE s = p
      <4>1. \A q \in Runs : ~On(q, s)
        BY <2>2, <2>6, <3>3 DEF Busy, At, On
      <4>2. \A q \in Runs : On(q, s)' => q = r
        BY <2>1, <4>1 DEF On
      <4>3. ~post[s].retried
        BY <2>2, <2>6, <3>3
      <4>4. \A v \in Uploads : thread[v].post = s => thread[v].total = post[s].recorded
        BY <3>1, <4>1, <4>3 DEF Costs
      <4>5. run'[r].ch.total = post[s].recorded
        BY <2>1, <3>3, <4>4
      <4> QED BY <1>1, <2>2, <3>1, <4>2, <4>4, <4>5 DEF Costs
    <3> QED BY <3>2, <3>3
  <2> QED BY <2>2, <2>4, <2>5, <2>6 DEF CostInv
<1>3. ASSUME NEW p \in Posts, Retry(r, p) PROVE CostInv'
  <2>1. /\ run'[r] = [pc |-> "extract", thread |-> Nothing, dirty |-> FALSE,
                      ch |-> [post |-> p, total |-> 0, error |-> FALSE]]
        /\ \A q \in Runs \ {r} : run'[q] = run[q]
    BY <1>1, <1>3 DEF Retry, Start, NoRun, NoChannels
  <2>2. /\ post[p].upload # Nothing
        /\ \A s \in Posts : /\ post'[s].upload = post[s].upload
                            /\ post'[s].cost_usd = post[s].cost_usd
                            /\ post'[s].recorded = post[s].recorded
                            /\ post[s].retried => post'[s].retried
                            /\ s # p => post'[s].mixed = post[s].mixed
        /\ post'[p].retried
        /\ ~post'[p].mixed => ~post[p].mixed /\ post[p].recorded = 0 /\ ~Busy(p)
    BY <1>1, <1>3 DEF Retry, RowOf
  <2>3. p # Nothing
    BY NothingAssumption
  <2>4. ASSUME NEW q \in Runs PROVE RunRooted(q)'
    <3>1. CASE q = r
      BY <2>1, <2>2, <2>3, <3>1 DEF RunRooted
    <3>2. CASE q # r
      <4>1. run'[q] = run[q] /\ RunRooted(q) /\ run[q].ch.post \in Posts \cup {Nothing}
        BY <1>1, <2>1, <3>2 DEF CostInv, RunOf, Chan
      <4> QED BY <2>2, <4>1 DEF RunRooted
    <3> QED BY <3>1, <3>2
  <2>5. ASSUME NEW v \in Uploads PROVE ThreadRooted(v)'
    <3>1. thread[v].post \in Posts \cup {Nothing} /\ ThreadRooted(v)
      BY <1>1 DEF CostInv, Chan
    <3> QED BY <1>1, <2>2, <3>1 DEF ThreadRooted
  <2>6. ASSUME NEW s \in Posts, ~post'[s].mixed PROVE Costs(s)'
    <3>1. Costs(s) /\ ~post[s].mixed
      BY <2>2, <2>6 DEF CostInv
    <3>2. CASE s # p
      <4>1. \A q \in Runs : On(q, s)' <=> On(q, s)
        BY <1>1, <2>1, <3>2 DEF On
      <4>2. \A q \in Runs : On(q, s) => run'[q] = run[q]
        BY <1>1, <2>1 DEF On
      <4> QED BY <1>1, <2>2, <3>1, <4>1, <4>2 DEF Costs
    <3>3. CASE s = p
      <4>1. \A q \in Runs : On(q, s)' => q = r
        BY <2>1, <2>2, <2>6, <3>3 DEF Busy, At, On
      <4>2. run'[r].ch.total = post'[s].recorded
        BY <2>1, <2>2, <2>6, <3>3
      <4> QED BY <1>1, <2>2, <3>1, <3>3, <4>1, <4>2 DEF Costs
    <3> QED BY <3>2, <3>3
  <2> QED BY <2>2, <2>4, <2>5, <2>6 DEF CostInv
<1> QED BY <1>2, <1>3

LEMMA ExtractCost ==
  ASSUME TypeInv, CostInv, NEW r \in Runs, Extract(r)
  PROVE  CostInv'
<1>1. PICK p \in Posts, error \in BOOLEAN, n \in {"end", "sanitize"} :
         /\ \/ run[r].ch.post = p /\ UNCHANGED post
            \/ /\ run[r].ch.post = Nothing /\ post[p].upload = Nothing
               /\ post' = [post EXCEPT ![p].upload = run[r].thread]
         /\ Step(r, n, [run[r].ch EXCEPT !.post = p, !.error = error])
  BY DEF Extract, TypeInv, RunOf, Chan
<1>2. /\ run \in [Runs -> RunOf(Limit)] /\ post \in [Posts -> RowOf(Limit)]
      /\ thread \in [Uploads -> Chan(Limit)] /\ thread' = thread /\ run[r].pc = "extract"
  BY DEF TypeInv, Extract, At
<1>3. /\ run'[r].pc = n /\ run'[r].ch.post = p /\ run'[r].ch.total = run[r].ch.total
      /\ run'[r].thread = run[r].thread /\ run'[r].dirty = run[r].dirty
      /\ \A q \in Runs \ {r} : run'[q] = run[q]
  BY <1>1, <1>2 DEF Step, RunOf, Chan
<1>4. Nothing \notin Posts /\ Nothing \notin Uploads
  BY NothingAssumption
<1>5. CASE run[r].ch.post = p /\ UNCHANGED post
  <2>1. \A q \in Runs : RunRooted(q)'
    BY <1>2, <1>3, <1>4, <1>5 DEF CostInv, RunRooted
  <2>2. \A u \in Uploads : ThreadRooted(u)'
    BY <1>2, <1>5 DEF CostInv, ThreadRooted
  <2>3. ASSUME NEW s \in Posts, ~post'[s].mixed PROVE Costs(s)'
    <3>1. Costs(s)
      BY <1>5, <2>3 DEF CostInv
    <3>2. \A q \in Runs : /\ On(q, s)' <=> On(q, s)
                          /\ run'[q].ch.total = run[q].ch.total /\ run'[q].dirty = run[q].dirty
      BY <1>2, <1>3, <1>5 DEF On
    <3> QED BY <1>2, <1>5, <3>1, <3>2 DEF Costs
  <2> QED BY <1>5, <2>1, <2>2, <2>3 DEF CostInv
<1>6. CASE run[r].ch.post = Nothing /\ post[p].upload = Nothing
           /\ post' = [post EXCEPT ![p].upload = run[r].thread]
  <2>1. /\ run[r].thread # Nothing /\ run[r].ch.total = 0 /\ ~run[r].dirty
        /\ post[p].recorded = 0 /\ post[p].cost_usd = 0
    BY <1>2, <1>6 DEF CostInv, RunRooted
  <2>2. /\ post'[p].upload = run[r].thread
        /\ \A s \in Posts : /\ s # p => post'[s].upload = post[s].upload
                            /\ post'[s].cost_usd = post[s].cost_usd
                            /\ post'[s].recorded = post[s].recorded
                            /\ post'[s].retried = post[s].retried
                            /\ post'[s].mixed = post[s].mixed
    BY <1>2, <1>6 DEF RowOf
  <2>3. /\ \A q \in Runs : ~On(q, p)
        /\ \A u \in Uploads : thread[u].post # p
    BY <1>2, <1>4, <1>6 DEF CostInv, RunRooted, ThreadRooted, On, RunOf
  <2>4. ASSUME NEW q \in Runs PROVE RunRooted(q)'
    <3>1. CASE q = r
      BY <1>1, <1>3, <1>4, <2>1, <2>2, <3>1 DEF RunRooted
    <3>2. CASE q # r
      <4>1. run'[q] = run[q] /\ RunRooted(q) /\ run[q].ch.post \in Posts \cup {Nothing}
        BY <1>2, <1>3, <3>2 DEF CostInv, RunOf, Chan
      <4> QED BY <2>2, <2>3, <4>1 DEF RunRooted, On
    <3> QED BY <3>1, <3>2
  <2>5. ASSUME NEW u \in Uploads PROVE ThreadRooted(u)'
    <3>1. thread[u].post \in Posts \cup {Nothing} /\ ThreadRooted(u)
      BY <1>2 DEF CostInv, Chan
    <3> QED BY <1>2, <2>2, <2>3, <3>1 DEF ThreadRooted
  <2>6. ASSUME NEW s \in Posts, ~post'[s].mixed PROVE Costs(s)'
    <3>1. Costs(s)
      BY <2>2, <2>6 DEF CostInv
    <3>2. CASE s # p
      <4>1. \A q \in Runs : On(q, s)' <=> On(q, s)
        BY <1>2, <1>3, <1>4, <1>6, <3>2 DEF On
      <4>2. \A q \in Runs : On(q, s) => run'[q] = run[q]
        BY <1>3, <1>4, <1>6 DEF On
      <4> QED BY <1>2, <2>2, <3>1, <4>1, <4>2 DEF Costs
    <3>3. CASE s = p
      <4>1. \A q \in Runs : On(q, s)' => q = r
        BY <1>3, <2>3, <3>3 DEF On
      <4> QED BY <1>2, <1>3, <2>1, <2>2, <2>3, <3>1, <3>3, <4>1 DEF Costs
    <3> QED BY <3>2, <3>3
  <2> QED BY <1>4, <2>1, <2>2, <2>4, <2>5, <2>6 DEF CostInv
<1> QED BY <1>1, <1>5, <1>6

LEMMA BillCost ==
  ASSUME TypeInv, CostInv, NEW r \in Runs, NEW cost \in 0 .. MaxCost,
         NEW next \in {"budget", "end", "validate"}, NEW error \in BOOLEAN,
         Bill(r, cost, next, error), run[r].pc \notin {"idle", "extract"}, UNCHANGED thread
  PROVE  CostInv'
<1> DEFINE p == run[r].ch.post
<1>1. /\ run \in [Runs -> RunOf(Limit)] /\ post \in [Posts -> RowOf(Limit)]
      /\ thread \in [Uploads -> Chan(Limit)] /\ Limit \in Nat
  BY Products DEF TypeInv, Limit
<1>2. Nothing \notin Posts /\ Nothing \notin Uploads /\ RunRooted(r)
  BY NothingAssumption DEF CostInv
<1>3. p \in Posts
  BY <1>1, <1>2 DEF RunRooted, RunOf, Chan
<1> DEFINE total == run[r].ch.total + cost
           ch == [run[r].ch EXCEPT !.total = total, !.error = error]
           d == run[r].thread # Nothing
<1>4. /\ run' = [run EXCEPT ![r].pc = next, ![r].dirty = d, ![r].ch = ch]
      /\ post' = [post EXCEPT ![p].cost_usd = total, ![p].recorded = @ + cost]
  BY DEF Bill
<1>5. ch.post = p /\ ch.total = total
  BY <1>1 DEF RunOf, Chan
<1> HIDE DEF p, total, ch, d
<1>6. /\ run'[r].pc = next /\ run'[r].ch.post = p /\ run'[r].ch.total = total
      /\ run'[r].thread = run[r].thread /\ run'[r].dirty = d
      /\ \A q \in Runs \ {r} : run'[q] = run[q]
  BY <1>1, <1>4, <1>5 DEF RunOf
<1>7. /\ post'[p].cost_usd = total /\ post'[p].recorded = post[p].recorded + cost
      /\ \A s \in Posts : /\ post'[s].upload = post[s].upload
                          /\ post'[s].retried = post[s].retried
                          /\ post'[s].mixed = post[s].mixed
                          /\ s # p => post'[s] = post[s]
  BY <1>1, <1>3, <1>4 DEF RowOf
<1>8. post[p].upload # Nothing /\ (run[r].thread = Nothing => post[p].retried)
  BY <1>1, <1>2, <1>3 DEF RunRooted, RunOf, p
<1>9. ASSUME NEW q \in Runs PROVE RunRooted(q)'
  <2>1. CASE q = r
    BY <1>2, <1>3, <1>6, <1>7, <1>8, <2>1 DEF RunRooted, p, d
  <2>2. CASE q # r
    <3>1. run'[q] = run[q] /\ RunRooted(q) /\ run[q].ch.post \in Posts \cup {Nothing}
      BY <1>1, <1>6, <2>2 DEF CostInv, RunOf, Chan
    <3> QED BY <1>7, <3>1 DEF RunRooted
  <2> QED BY <2>1, <2>2
<1>10. ASSUME NEW u \in Uploads PROVE ThreadRooted(u)'
  <2>1. thread[u].post \in Posts \cup {Nothing} /\ ThreadRooted(u)
    BY <1>1 DEF CostInv, Chan
  <2> QED BY <1>7, <2>1 DEF ThreadRooted
<1>11. ASSUME NEW s \in Posts, ~post'[s].mixed PROVE Costs(s)'
  <2>1. Costs(s)
    BY <1>7, <1>11 DEF CostInv
  <2>2. \A q \in Runs : On(q, s)' <=> On(q, s)
    BY <1>6 DEF On, p
  <2>3. CASE s # p
    <3>1. \A q \in Runs : On(q, s) => run'[q] = run[q]
      BY <1>6, <2>3 DEF On, p
    <3> QED BY <1>7, <2>1, <2>2, <2>3, <3>1 DEF Costs
  <2>4. CASE s = p
    <3>1. On(r, s) /\ \A q \in Runs : On(q, s) => q = r
      BY <2>1, <2>4 DEF Costs, On, p
    <3>2. total = post'[s].recorded
      BY <1>7, <2>1, <2>4, <3>1 DEF Costs, total
    <3>3. d \/ post'[s].retried
      BY <1>7, <1>8, <2>4 DEF d
    <3> QED BY <1>6, <1>7, <2>1, <2>2, <2>4, <3>1, <3>2, <3>3 DEF Costs
  <2> QED BY <2>3, <2>4
<1>12. ASSUME NEW s \in Posts, post'[s].upload = Nothing
       PROVE  post'[s].recorded = 0 /\ post'[s].cost_usd = 0
  BY <1>7, <1>8, <1>12 DEF CostInv
<1> QED BY <1>9, <1>10, <1>11, <1>12 DEF CostInv

LEMMA NodeCost ==
  ASSUME TypeInv, CostInv, NEW r \in Runs, CheckBudget(r) \/ RenderPrompt(r) \/ ValidateLocally(r)
  PROVE  CostInv'
<1> DEFINE p == run[r].ch.post
<1>1. /\ run \in [Runs -> RunOf(Limit)] /\ post \in [Posts -> RowOf(Limit)]
      /\ run[r].pc \notin {"idle", "extract"} /\ thread' = thread
      /\ Nothing \notin Posts /\ Nothing \notin Uploads /\ RunRooted(r)
  BY NothingAssumption DEF TypeInv, CostInv, CheckBudget, RenderPrompt, ValidateLocally, At
<1>2. p \in Posts
  BY <1>1 DEF RunRooted, RunOf, Chan
<1>3. PICK n \in {"end", "prompt", "transform"} :
         /\ run'[r].pc = n /\ run'[r].ch.post = p /\ run'[r].ch.total = run[r].ch.total
         /\ run'[r].thread = run[r].thread /\ run'[r].dirty = run[r].dirty
         /\ \A q \in Runs \ {r} : run'[q] = run[q]
  <2>1. /\ run[r].ch = [run[r].ch EXCEPT !.error = run[r].ch.error]
        /\ OverBudget \in BOOLEAN /\ run[r].ch.error \in BOOLEAN
    BY <1>1 DEF RunOf, Chan, OverBudget
  <2>2. PICK n \in {"end", "prompt", "transform"}, e \in BOOLEAN :
             Step(r, n, [run[r].ch EXCEPT !.error = e])
    <3>1. CASE CheckBudget(r)
      BY <2>1, <3>1 DEF CheckBudget
    <3>2. CASE RenderPrompt(r)
      BY <2>1, <3>2 DEF RenderPrompt
    <3>3. CASE ValidateLocally(r)
      BY <3>3 DEF ValidateLocally
    <3> QED BY <3>1, <3>2, <3>3
  <2> QED BY <1>1, <2>2 DEF Step, RunOf, Chan
<1>4. /\ \A s \in Posts : /\ post'[s].upload = post[s].upload
                          /\ post'[s].recorded = post[s].recorded
                          /\ post'[s].retried = post[s].retried
                          /\ post'[s].mixed = post[s].mixed
                          /\ s # p => post'[s].cost_usd = post[s].cost_usd
      /\ post'[p].cost_usd \in {post[p].cost_usd, run[r].ch.total}
  BY <1>1, <1>2 DEF CheckBudget, RenderPrompt, ValidateLocally, RowOf
<1> HIDE DEF p
<1>5. post[p].upload # Nothing
  BY <1>1, <1>2 DEF RunRooted, RunOf, p
<1>6. ASSUME NEW q \in Runs PROVE RunRooted(q)'
  <2>1. CASE q = r
    BY <1>1, <1>2, <1>3, <1>4, <2>1 DEF RunRooted, p
  <2>2. CASE q # r
    <3>1. run'[q] = run[q] /\ RunRooted(q) /\ run[q].ch.post \in Posts \cup {Nothing}
      BY <1>1, <1>3, <2>2 DEF CostInv, RunOf, Chan
    <3> QED BY <1>4, <3>1 DEF RunRooted
  <2> QED BY <2>1, <2>2
<1>7. ASSUME NEW u \in Uploads PROVE ThreadRooted(u)'
  <2>1. thread[u].post \in Posts \cup {Nothing} /\ ThreadRooted(u)
    BY DEF TypeInv, CostInv, Chan
  <2> QED BY <1>1, <1>4, <2>1 DEF ThreadRooted
<1>8. ASSUME NEW s \in Posts, ~post'[s].mixed PROVE Costs(s)'
  <2>1. Costs(s)
    BY <1>4, <1>8 DEF CostInv
  <2>2. \A q \in Runs : /\ On(q, s)' <=> On(q, s)
                        /\ run'[q].ch.total = run[q].ch.total /\ run'[q].dirty = run[q].dirty
    BY <1>1, <1>3 DEF On, p
  <2>3. post'[s].cost_usd = post[s].recorded
    BY <1>1, <1>4, <2>1 DEF Costs, On, p
  <2> QED BY <1>1, <1>4, <2>1, <2>2, <2>3 DEF Costs
<1>9. ASSUME NEW s \in Posts, post'[s].upload = Nothing
      PROVE  post'[s].recorded = 0 /\ post'[s].cost_usd = 0
  BY <1>4, <1>5, <1>9 DEF CostInv
<1> QED BY <1>6, <1>7, <1>8, <1>9 DEF CostInv

\* The channels of r are saved, whether r goes on or is over.
LEMMA SaveCost ==
  ASSUME TypeInv, CostInv, NEW r \in Runs, run[r].pc \notin {"idle", "extract"}, Save(r),
         run' = [run EXCEPT ![r].dirty = FALSE] \/ Stop(r), UNCHANGED post
  PROVE  CostInv'
<1> DEFINE p == run[r].ch.post
           v == run[r].thread
<1>1. /\ run \in [Runs -> RunOf(Limit)] /\ post \in [Posts -> RowOf(Limit)]
      /\ thread \in [Uploads -> Chan(Limit)]
      /\ Nothing \notin Posts /\ Nothing \notin Uploads /\ RunRooted(r)
  BY NothingAssumption DEF TypeInv, CostInv
<1>2. p \in Posts /\ v \in Uploads \cup {Nothing}
  BY <1>1 DEF RunRooted, RunOf, Chan
<1>3. /\ run'[r].pc # "idle" => /\ run'[r].pc = run[r].pc /\ run'[r].ch = run[r].ch
                                /\ run'[r].thread = v
      /\ ~run'[r].dirty
      /\ \A q \in Runs \ {r} : run'[q] = run[q]
  BY <1>1 DEF Stop, NoRun, RunOf
<1>4. /\ \A u \in Uploads : u # v => thread'[u] = thread[u]
      /\ v \in Uploads => thread'[v] = run[r].ch
  BY <1>1, <1>2 DEF Save
<1>5. /\ v = Nothing => post[p].retried
      /\ v # Nothing => post[p].upload = v
  BY <1>1, <1>2 DEF RunRooted
<1> HIDE DEF p, v
<1>6. ASSUME NEW q \in Runs PROVE RunRooted(q)'
  BY <1>1, <1>3 DEF CostInv, RunRooted, v
<1>7. ASSUME NEW u \in Uploads PROVE ThreadRooted(u)'
  <2>1. CASE u = v
    BY <1>1, <1>2, <1>4, <1>5, <2>1 DEF ThreadRooted, p
  <2>2. CASE u # v
    BY <1>4, <2>2 DEF CostInv, ThreadRooted
  <2> QED BY <2>1, <2>2
<1>8. ASSUME NEW s \in Posts, ~post'[s].mixed PROVE Costs(s)'
  <2>1. Costs(s)
    BY <1>8 DEF CostInv
  <2>2. \A q \in Runs : On(q, s)' => On(q, s) /\ run'[q].ch = run[q].ch
    BY <1>3 DEF On
  <2>3. ASSUME NEW u \in Uploads, thread'[u].post = s
        PROVE  \/ post[s].retried \/ thread'[u].total = post[s].recorded
               \/ \E q \in Runs : On(q, s)' /\ run'[q].dirty
    <3>1. CASE u = v
      BY <1>1, <1>4, <2>1, <2>3, <3>1 DEF Costs, On
    <3>2. CASE u # v
      <4>1. thread'[u] = thread[u] /\ post[s].upload = u
        BY <1>1, <1>4, <2>3, <3>2 DEF CostInv, ThreadRooted
      <4>2. CASE s = p
        BY <1>5, <3>2, <4>1, <4>2
      <4>3. CASE s # p
        <5>1. \A q \in Runs : On(q, s) => On(q, s)' /\ run'[q] = run[q]
          BY <1>3, <4>3 DEF On, p
        <5> QED BY <2>1, <2>3, <4>1, <5>1 DEF Costs
      <4> QED BY <4>2, <4>3
    <3> QED BY <3>1, <3>2
  <2> QED BY <2>1, <2>2, <2>3 DEF Costs
<1> QED BY <1>6, <1>7, <1>8 DEF CostInv

\* Runs S end; what they recorded and did not save is in no thread.
LEMMA ForgetCost ==
  ASSUME TypeInv, CostInv, NEW S, S \subseteq Runs, Forget(S), UNCHANGED thread,
         \A q \in Runs : IF q \in S THEN run'[q].pc = "idle" ELSE run'[q] = run[q]
  PROVE  CostInv'
<1>1. \A p \in Posts : /\ post'[p].upload = post[p].upload
                       /\ post'[p].cost_usd = post[p].cost_usd
                       /\ post'[p].recorded = post[p].recorded
                       /\ post'[p].retried = post[p].retried
                       /\ ~post'[p].mixed => /\ ~post[p].mixed
                                             /\ \A r \in S : ~(run[r].dirty /\ run[r].ch.post = p)
  BY DEF TypeInv, RowOf, Forget
<1>2. ASSUME NEW q \in Runs PROVE RunRooted(q)'
  <2>1. RunRooted(q) /\ run[q].ch.post \in Posts \cup {Nothing}
    BY DEF TypeInv, CostInv, RunOf, Chan
  <2>2. run'[q].pc = "idle" \/ run'[q] = run[q]
    OBVIOUS
  <2> QED BY <1>1, <2>1, <2>2 DEF RunRooted
<1>3. ASSUME NEW u \in Uploads PROVE ThreadRooted(u)'
  <2>1. thread[u].post \in Posts \cup {Nothing} /\ ThreadRooted(u)
    BY DEF TypeInv, CostInv, Chan
  <2> QED BY <1>1, <2>1 DEF ThreadRooted
<1>4. ASSUME NEW p \in Posts, ~post'[p].mixed PROVE Costs(p)'
  <2>1. Costs(p)
    BY <1>1, <1>4 DEF CostInv
  <2>2. \A q \in Runs : On(q, p)' => On(q, p) /\ run'[q] = run[q]
    BY DEF On
  <2>3. \A q \in Runs : On(q, p) /\ run[q].dirty => On(q, p)' /\ run'[q] = run[q]
    BY <1>1, <1>4 DEF On
  <2> QED BY <1>1, <2>1, <2>2, <2>3 DEF Costs
<1> QED BY <1>1, <1>2, <1>3, <1>4 DEF CostInv

LEMMA CostStep == TypeInv /\ CostInv /\ [LlmNext]_llmVars => CostInv'
<1> SUFFICES ASSUME TypeInv, CostInv, [LlmNext]_llmVars PROVE CostInv'
  OBVIOUS
<1>1. CASE UNCHANGED <<run, post, thread>>
  BY <1>1 DEF CostInv, RunRooted, ThreadRooted, Costs, On
<1>2. ASSUME NEW r \in Runs, Sanitize(r) \/ Transform(r) \/ Validate(r) PROVE CostInv'
  <2>1. PICK cost \in 0 .. MaxCost, next \in {"budget", "end", "validate"}, error \in BOOLEAN :
             Bill(r, cost, next, error)
    BY <1>2 DEF Sanitize, Transform, Validate
  <2>2. run[r].pc \notin {"idle", "extract"} /\ UNCHANGED thread
    BY <1>2 DEF Sanitize, Transform, Validate, At
  <2> QED BY <2>1, <2>2, BillCost
<1>3. ASSUME NEW r \in Runs, Checkpoint(r) \/ Finish(r) PROVE CostInv'
  BY <1>3, SaveCost DEF Checkpoint, Finish, At
<1>4. ASSUME NEW r \in Runs, CallRaises(r) PROVE CostInv'
  <2>1. CASE run[r].pc = "extract"
    <3>1. ~run[r].dirty /\ post \in [Posts -> RowOf(Limit)]
      BY <2>1 DEF CostInv, RunRooted, TypeInv
    <3>2. post = [p \in Posts |->
                   [post[p] EXCEPT !.mixed = @ \/ \E q \in {r} : run[q].dirty /\ run[q].ch.post = p]]
      BY <3>1 DEF RowOf
    <3>3. Forget({r}) /\ UNCHANGED thread
      BY <1>4, <2>1, <3>2 DEF CallRaises, Forget, At
    <3>4. \A q \in Runs : IF q \in {r} THEN run'[q].pc = "idle" ELSE run'[q] = run[q]
      BY <1>4 DEF CallRaises, Stop, NoRun, TypeInv
    <3> QED BY <3>3, <3>4, ForgetCost
  <2>2. CASE run[r].pc # "extract"
    BY <1>4, <2>2, SaveCost DEF CallRaises, At
  <2> QED BY <2>1, <2>2
<1>5. ASSUME NEW r \in Runs, CheckpointFails(r) PROVE CostInv'
  <2>1. \A q \in Runs : IF q \in {r} THEN run'[q].pc = "idle" ELSE run'[q] = run[q]
    BY <1>5 DEF CheckpointFails, Stop, NoRun, TypeInv
  <2> QED BY <1>5, <2>1, ForgetCost DEF CheckpointFails
<1>6. CASE KillRuns
  BY <1>6, ForgetCost DEF KillRuns, NoRun
<1> QED BY <1>1, <1>2, <1>3, <1>4, <1>5, <1>6, StartCost, ExtractCost, NodeCost
        DEF LlmNext, Spend, NewMonth, llmVars, costVars

\* posts.cost_usd is the sum of the post's llm_costs on the thread of its upload,
\* whatever is started again and whatever node raises; and for a retry or
\* publish-now that came before anything was recorded.
THEOREM CostSound == LlmSpec => []CostOfOneThread
<1>1. LlmSpec => []TypeInv
  BY TypeInit, TypeStep, PTL DEF LlmSpec
<1>2. LlmSpec => []CostInv
  BY <1>1, CostInit, CostStep, PTL DEF LlmSpec
<1>3. CostInv => CostOfOneThread
  BY DEF CostInv, Costs, CostOfOneThread
<1> QED BY <1>2, <1>3, PTL

-----------------------------------------------------------------------------
(* The prompt templates *)

Known == UNION {[S -> BOOLEAN] : S \in SUBSET Nat}
Edit  == [pc : {"idle", "read", "flush"}, op : {"save", "activate"}, name : Names,
          target : Nat, version : Nat, known : Known, clash : BOOLEAN]

\* Versions are counted up from the rows that are there.
Counted == \A i \in Rows : templates[i].version <= i

\* What request e looks at exists, and it has its own name only.
Founded(e) ==
    /\ DOMAIN edit[e].known \subseteq Named(edit[e].name)
    /\ edit[e].op = "save" => /\ edit[e].target = 0
                              /\ edit[e].version \in 1 .. Len(templates) + 1
    /\ edit[e].op = "activate" => /\ edit[e].target \in DOMAIN edit[e].known
                                  /\ edit[e].version = 0

\* What an undisturbed request knows is still so.
Accurate(e) ==
    /\ \A i \in DOMAIN edit[e].known : edit[e].known[i] = templates[i].active
    /\ edit[e].pc = "flush" => DOMAIN edit[e].known = Named(edit[e].name)
    /\ edit[e].op = "save" => edit[e].version = Latest(edit[e].name) + 1

EditsInv ==
    /\ templates \in Seq(Template) /\ Len(templates) <= MaxRows /\ edit \in [Editors -> Edit]
    /\ clashed \in BOOLEAN /\ refused \subseteq {"other name", "order of ids"}
    /\ Counted
    /\ \A e \in Editors : IF edit[e].pc = "idle" THEN edit[e] = NoEdit
                          ELSE Founded(e) /\ (edit[e].clash \/ Accurate(e))

TemplatesInv ==
    /\ EditsInv
    /\ \A i, j \in ActiveRows : i = j
    /\ ActiveUnlessClash /\ VersionsUnlessClash

LEMMA RowsAre ==
  ASSUME EditsInv
  PROVE  /\ templates \in Seq(Template) /\ Len(templates) \in Nat /\ Len(templates) <= MaxRows
         /\ Rows = 1 .. Len(templates) /\ \A i \in Rows : templates[i] \in Template
<1>1. templates \in Seq(Template) /\ Len(templates) <= MaxRows
  BY DEF EditsInv
<1> QED BY <1>1, LenProperties DEF Rows

LEMMA Row == ASSUME EditsInv, NEW i \in Rows
             PROVE  /\ templates[i] \in Template /\ i \in 1 .. Len(templates) /\ Len(templates) \in Nat
                    /\ templates[i].version \in Nat /\ templates[i].version <= Len(templates)
<1>1. i \in 1 .. Len(templates) /\ Len(templates) \in Nat /\ templates[i].version <= i
  BY RowsAre DEF EditsInv, Counted
<1>2. templates[i] \in Template
  BY RowsAre
<1>3. templates[i].version \in Nat
  BY <1>2, RowsAssumption DEF Template
<1> QED BY <1>1, <1>2, <1>3

\* Latest is at least every version of the name and at most the number of rows.
LEMMA LatestIs ==
  ASSUME EditsInv, NEW n
  PROVE  /\ Latest(n) \in Nat /\ Latest(n) <= Len(templates)
         /\ \A i \in Named(n) : templates[i].version <= Latest(n)
<1> DEFINE S == {templates[i].version : i \in Named(n)} \cup {0}
<1>1. /\ Len(templates) \in Nat /\ S \in SUBSET Nat /\ S # {}
      /\ \A v \in S : v <= Len(templates)
  <2>1. Len(templates) \in Nat
    BY RowsAre
  <2>2. \A i \in Named(n) : templates[i].version \in Nat /\ templates[i].version <= Len(templates)
    BY Row DEF Named
  <2> QED BY <2>1, <2>2
<1>2. \E m \in S : \A v \in S : v <= m
  BY <1>1, Greatest
<1>3. Max(S) \in S /\ \A v \in S : Max(S) >= v
  <2> HIDE DEF S
  <2>1. \E m \in S : \A v \in S : m >= v
    BY <1>1, <1>2
  <2> QED BY <2>1 DEF Max
<1>4. Latest(n) = Max(S)
  BY DEF Latest
<1> QED BY <1>1, <1>3, <1>4

LEMMA NoEditType == NoEdit \in Edit
<1>1. <<>> \in [{} -> BOOLEAN]
  OBVIOUS
<1>2. <<>> \in Known
  BY <1>1 DEF Known
<1> QED BY <1>2, NamesAssumption DEF NoEdit, Edit

LEMMA ReadType ==
  ASSUME EditsInv, NEW S \in SUBSET Rows
  PROVE  /\ Read(S) \in Known /\ DOMAIN Read(S) = S
         /\ \A i \in S : Read(S)[i] = templates[i].active
<1>1. \A i \in S : templates[i].active \in BOOLEAN /\ i \in Nat
  BY Row DEF Template
<1>2. Read(S) \in [S -> BOOLEAN] /\ S \in SUBSET Nat
  BY <1>1 DEF Read
<1>3. Read(S) \in Known
  BY <1>2 DEF Known
<1> QED BY <1>3 DEF Read

\* Request e goes on, nothing is committed.
LEMMA EditMoves ==
  ASSUME EditsInv, NEW e \in Editors, NEW c \in Edit, SetEdit(e, c), UNCHANGED <<templates, clashed>>,
         refused' \subseteq {"other name", "order of ids"},
         c.pc = "idle" => c = NoEdit,
         edit'[e] = c /\ c.pc # "idle" => Founded(e)' /\ (c.clash \/ Accurate(e)')
  PROVE  EditsInv'
<1>1. /\ edit' \in [Editors -> Edit] /\ edit'[e] = c
      /\ \A d \in Editors : d # e => edit'[d] = edit[d]
  BY DEF SetEdit, EditsInv
<1>2. Rows' = Rows /\ \A n : Named(n)' = Named(n) /\ Latest(n)' = Latest(n)
  BY DEF Rows, Named, Latest
<1>3. ASSUME NEW d \in Editors, d # e, edit[d].pc # "idle"
      PROVE  Founded(d)' /\ (edit'[d].clash \/ Accurate(d)')
  <2>1. Founded(d) /\ (edit[d].clash \/ Accurate(d)) /\ edit'[d] = edit[d]
    BY <1>1, <1>3 DEF EditsInv
  <2> QED BY <1>2, <2>1 DEF Founded, Accurate
<1>4. /\ templates' \in Seq(Template) /\ Len(templates') <= MaxRows /\ clashed' \in BOOLEAN /\ Counted'
  BY <1>2 DEF EditsInv, Counted
<1>5. ASSUME NEW d \in Editors, edit'[d].pc # "idle"
      PROVE  Founded(d)' /\ (edit'[d].clash \/ Accurate(d)')
  <2>1. CASE d = e
    <3>1. c.pc # "idle" /\ edit'[d] = c
      BY <1>1, <1>5, <2>1
    <3>2. Founded(e)' /\ (c.clash \/ Accurate(e)')
      BY <1>1, <3>1
    <3> QED BY <2>1, <3>1, <3>2
  <2> QED BY <1>1, <1>3, <1>5, <2>1
<1>6. \A d \in Editors : edit'[d].pc = "idle" => edit'[d] = NoEdit
  BY <1>1 DEF EditsInv
<1> QED BY <1>1, <1>4, <1>5, <1>6 DEF EditsInv

LEMMA SaveKeeps ==
  ASSUME EditsInv, NEW e \in Editors, NEW n \in Names, SaveTemplate(e, n) PROVE EditsInv'
<1>1. PICK k \in SUBSET Named(n) :
        SetEdit(e, [NoEdit EXCEPT !.pc = "read", !.name = n, !.version = Latest(n) + 1, !.known = Read(k)])
  BY DEF SaveTemplate
<1>2. UNCHANGED <<templates, clashed, refused>>
  BY DEF SaveTemplate
<1> DEFINE c == [NoEdit EXCEPT !.pc = "read", !.name = n, !.version = Latest(n) + 1, !.known = Read(k)]
<1>3. /\ Latest(n) \in Nat /\ Latest(n) <= Len(templates) /\ Len(templates) \in Nat
      /\ k \in SUBSET Rows
  BY LatestIs, RowsAre DEF Named
<1>4. /\ c \in Edit /\ c.pc = "read" /\ c.op = "save" /\ c.name = n /\ c.target = 0
      /\ c.version = Latest(n) + 1 /\ c.known = Read(k) /\ ~c.clash
  <2>1. PICK known, v : known = Read(k) /\ v = Latest(n) + 1
    OBVIOUS
  <2>2. known \in Known /\ v \in Nat
    BY <1>3, <2>1, ReadType
  <2> QED BY <2>1, <2>2, NoEditType DEF Edit, NoEdit
<1> HIDE DEF c
<1>5. Named(n)' = Named(n) /\ Latest(n)' = Latest(n)
  BY <1>2 DEF Rows, Named, Latest
<1>6. edit'[e] = c => Founded(e)' /\ Accurate(e)'
  BY <1>2, <1>3, <1>4, <1>5, ReadType DEF Founded, Accurate
<1> QED BY <1>1, <1>2, <1>4, <1>6, EditMoves DEF EditsInv, c

LEMMA ActivateKeeps ==
  ASSUME EditsInv, NEW e \in Editors, NEW i \in Rows, ActivateTemplate(e, i) PROVE EditsInv'
<1> DEFINE c == [NoEdit EXCEPT !.pc = "read", !.op = "activate", !.name = templates[i].name,
                               !.target = i, !.known = Read({i})]
<1>1. SetEdit(e, c) /\ UNCHANGED <<templates, clashed, refused>>
  BY DEF ActivateTemplate
<1>2. templates[i].name \in Names /\ i \in Nat
  BY Row DEF Template
<1>3. /\ c \in Edit /\ c.pc = "read" /\ c.op = "activate" /\ c.name = templates[i].name /\ c.target = i
      /\ c.version = 0 /\ c.known = Read({i}) /\ ~c.clash
  BY <1>2, NoEditType, ReadType DEF Edit, NoEdit
<1> HIDE DEF c
<1>4. PICK n, known : n = templates[i].name /\ known = Read({i})
  OBVIOUS
<1>5. i \in Named(n) /\ \A m : Named(m)' = Named(m)
  BY <1>1, <1>4 DEF Named, Rows
<1>6. DOMAIN known = {i} /\ known[i] = templates[i].active
  BY <1>4, ReadType
<1>7. edit'[e] = c => Founded(e)' /\ Accurate(e)'
  BY <1>1, <1>3, <1>4, <1>5, <1>6 DEF Founded, Accurate
<1> QED BY <1>1, <1>3, <1>7, EditMoves DEF EditsInv

LEMMA VersionsKeep ==
  ASSUME EditsInv, NEW e \in Editors, ReadVersions(e) PROVE EditsInv'
<1> DEFINE n == edit[e].name
           old == edit[e].known
           known == [i \in Named(n) \cup DOMAIN old |-> IF i \in DOMAIN old THEN old[i] ELSE templates[i].active]
           c == [edit[e] EXCEPT !.pc = "flush", !.known = known]
<1>1. edit[e].pc = "read" /\ SetEdit(e, c) /\ UNCHANGED <<templates, clashed, refused>>
  BY DEF ReadVersions
<1>2. /\ edit[e] \in Edit /\ Founded(e) /\ (edit[e].clash \/ Accurate(e))
  BY <1>1 DEF EditsInv
<1>3. DOMAIN old \subseteq Named(n) /\ Named(n) \subseteq Rows /\ Rows \subseteq Nat
  BY <1>2, Row DEF Founded, Named
<1>4. known \in Known /\ DOMAIN known = Named(n)
  <2>1. \A i \in DOMAIN old : old[i] \in BOOLEAN
    <3>1. PICK S \in SUBSET Nat : old \in [S -> BOOLEAN]
      BY <1>2 DEF Edit, Known
    <3> QED BY <3>1
  <2>2. \A i \in Named(n) : templates[i].active \in BOOLEAN
    BY <1>3, Row DEF Template
  <2>3. known \in [Named(n) -> BOOLEAN]
    BY <1>3, <2>1, <2>2
  <2> HIDE DEF known
  <2>4. known \in Known
    BY <1>3, <2>3 DEF Known
  <2> QED BY <2>3, <2>4
<1>5. \A i \in Named(n) : known[i] = IF i \in DOMAIN old THEN old[i] ELSE templates[i].active
  BY <1>3
<1>6. DOMAIN old \subseteq DOMAIN known /\ n = edit[e].name
  BY <1>3, <1>4
<1> HIDE DEF known, n
<1>7. /\ c \in Edit /\ c.pc = "flush" /\ c.op = edit[e].op /\ c.name = edit[e].name
      /\ c.target = edit[e].target /\ c.version = edit[e].version /\ c.known = known
      /\ c.clash = edit[e].clash
  BY <1>2, <1>4 DEF Edit
<1> HIDE DEF c, old
<1>8. \A m : Named(m)' = Named(m) /\ Latest(m)' = Latest(m)
  BY <1>1 DEF Rows, Named, Latest
<1>9. edit'[e] = c => Founded(e)'
  BY <1>1, <1>2, <1>4, <1>6, <1>7, <1>8 DEF Founded, old
<1>10. edit'[e] = c => c.clash \/ Accurate(e)'
  <2>1. edit[e].clash \/ \A i \in Named(n) : known[i] = templates[i].active
    BY <1>2, <1>5 DEF Accurate, old
  <2> QED BY <1>1, <1>2, <1>4, <1>6, <1>7, <1>8, <2>1 DEF Accurate
<1> QED BY <1>1, <1>7, <1>9, <1>10, EditMoves DEF EditsInv

\* The table after the commit of request e.
LEMMA CommitRows ==
  ASSUME EditsInv, NEW e \in Editors, Commit(e)
  PROVE  \E k \in 1 .. MaxRows :
           /\ edit[e].op = "activate" => Len(templates') = Len(templates)
           /\ edit[e].op = "save" =>
                /\ Len(templates') = Len(templates) + 1
                /\ templates'[Len(templates) + 1] =
                     [name |-> edit[e].name, version |-> edit[e].version, rank |-> k, active |-> TRUE]
           /\ templates' \in Seq(Template) /\ Len(templates') <= MaxRows
           /\ \A i \in Rows :
                /\ templates'[i].name = templates[i].name /\ templates'[i].version = templates[i].version
                /\ templates'[i].active <=> \/ templates[i].active /\ i \notin SwitchedOff(e)
                                            \/ i \in SwitchedOn(e)
<1>1. PICK k \in 1 .. MaxRows : templates' = After(e) \o Inserted(e, k)
  BY DEF Commit
<1>2. edit[e] \in Edit /\ Founded(e) /\ edit[e].pc = "flush"
  BY DEF EditsInv, Commit
<1>3. templates \in Seq(Template) /\ Len(templates) \in Nat /\ Rows = 1 .. Len(templates)
      /\ Len(templates) <= MaxRows
  BY RowsAre
<1> DEFINE on(i) == (templates[i].active /\ i \notin SwitchedOff(e)) \/ i \in SwitchedOn(e)
           row(i) == [templates[i] EXCEPT !.active = on(i)]
           a == After(e)
<1>4. \A i \in Rows : row(i) \in Template
  BY <1>3, RowsAre DEF Template
<1>5. \A i \in Rows : /\ row(i).name = templates[i].name /\ row(i).version = templates[i].version
                      /\ row(i).active <=> on(i)
  BY RowsAre DEF Template
<1>6. a = [i \in 1 .. Len(templates) |-> row(i)]
  BY <1>3 DEF After
<1> HIDE DEF a, row
<1>7. /\ a \in Seq(Template) /\ Len(a) = Len(templates) /\ \A i \in Rows : a[i] = row(i)
  <2>1. PICK n : n = Len(templates)
    OBVIOUS
  <2>2. \A i \in 1 .. n : row(i) \in Template
    BY <1>3, <1>4, <2>1
  <2>3. a \in Seq(Template) /\ Len(a) = n /\ \A i \in 1 .. n : a[i] = row(i)
    BY <1>3, <1>6, <2>1, <2>2
  <2> QED BY <1>3, <2>1, <2>3
<1>8. CASE edit[e].op = "activate"
  <2>1. templates' = a
    BY <1>1, <1>7, <1>8 DEF Inserted, a
  <2> QED BY <1>3, <1>5, <1>7, <1>8, <2>1
<1>9. CASE edit[e].op = "save"
  <2> DEFINE t == [name |-> edit[e].name, version |-> edit[e].version, rank |-> k, active |-> TRUE]
  <2>1. templates' = a \o <<t>>
    BY <1>1, <1>9 DEF Inserted, a
  <2>2. t \in Template /\ Len(templates) < MaxRows
    <3>1. Len(templates) < MaxRows
      BY <1>9 DEF Commit
    <3>2. edit[e].version \in 1 .. MaxRows
      BY <1>2, <1>3, <1>9, <3>1, RowsAssumption DEF Founded
    <3> QED BY <1>2, <3>1, <3>2 DEF Template, Edit
  <2> HIDE DEF t
  <2>3. /\ templates' \in Seq(Template) /\ Len(templates') = Len(templates) + 1
        /\ templates'[Len(templates) + 1] = t /\ \A i \in Rows : templates'[i] = a[i]
    <3>1. <<t>> \in Seq(Template) /\ Len(<<t>>) = 1 /\ <<t>>[1] = t
      BY <2>2
    <3>2. /\ a \o <<t>> \in Seq(Template) /\ Len(a \o <<t>>) = Len(a) + 1
          /\ \A i \in 1 .. Len(a) + 1 :
               (a \o <<t>>)[i] = IF i <= Len(a) THEN a[i] ELSE <<t>>[i - Len(a)]
      BY <1>7, <3>1, ConcatProperties
    <3> QED BY <1>3, <1>7, <2>1, <3>1, <3>2
  <2>4. Len(templates') <= MaxRows
    BY <1>3, <2>2, <2>3, RowsAssumption
  <2> QED BY <1>5, <1>7, <1>9, <2>3, <2>4 DEF t
<1> QED BY <1>2, <1>8, <1>9 DEF Edit

LEMMA CommitEdits ==
  ASSUME EditsInv, NEW e \in Editors, Commit(e)
  PROVE  /\ edit' \in [Editors -> Edit] /\ edit'[e] = NoEdit
         /\ \A d \in Editors \ {e} :
              IF edit[d].pc = "idle" THEN edit'[d] = edit[d]
              ELSE /\ edit'[d].clash /\ edit'[d].pc = edit[d].pc /\ edit'[d].op = edit[d].op
                   /\ edit'[d].name = edit[d].name /\ edit'[d].target = edit[d].target
                   /\ edit'[d].version = edit[d].version /\ edit'[d].known = edit[d].known
<1>1. edit' = [Others(e) EXCEPT ![e] = NoEdit]
  BY DEF Commit
<1>2. \A d \in Editors : edit[d] \in Edit /\ [edit[d] EXCEPT !.clash = TRUE] \in Edit
  BY DEF EditsInv, Edit
<1>3. /\ Others(e) \in [Editors -> Edit]
      /\ \A d \in Editors \ {e} : Others(e)[d] = IF edit[d].pc = "idle" THEN edit[d]
                                                ELSE [edit[d] EXCEPT !.clash = TRUE]
  BY <1>2 DEF Others
<1>4. /\ edit' \in [Editors -> Edit] /\ edit'[e] = NoEdit
      /\ \A d \in Editors \ {e} : edit'[d] = IF edit[d].pc = "idle" THEN edit[d]
                                           ELSE [edit[d] EXCEPT !.clash = TRUE]
  BY <1>1, <1>3, NoEditType
<1> QED BY <1>2, <1>4 DEF Edit

LEMMA CommitKeeps == ASSUME EditsInv, NEW e \in Editors, Commit(e) PROVE EditsInv'
<1>1. PICK k \in 1 .. MaxRows :
           /\ edit[e].op = "activate" => Len(templates') = Len(templates)
           /\ edit[e].op = "save" =>
                /\ Len(templates') = Len(templates) + 1
                /\ templates'[Len(templates) + 1] =
                     [name |-> edit[e].name, version |-> edit[e].version, rank |-> k, active |-> TRUE]
           /\ templates' \in Seq(Template) /\ Len(templates') <= MaxRows
           /\ \A i \in Rows :
                /\ templates'[i].name = templates[i].name /\ templates'[i].version = templates[i].version
  BY CommitRows
<1>2. /\ edit[e] \in Edit /\ Founded(e) /\ Rows = 1 .. Len(templates) /\ Len(templates) \in Nat
  BY RowsAre DEF EditsInv, Commit
<1>3. /\ Rows' = 1 .. Len(templates') /\ Len(templates') \in Nat
      /\ Rows \subseteq Rows' /\ Len(templates) <= Len(templates')
      /\ \A i \in Rows' : i \in Rows \/ (edit[e].op = "save" /\ i = Len(templates) + 1)
  <2>1. Rows' = 1 .. Len(templates') /\ Len(templates') \in Nat
    BY <1>1, LenProperties DEF Rows
  <2> QED BY <1>1, <1>2, <2>1 DEF Edit
<1>4. Counted'
  <2>1. ASSUME NEW i \in Rows PROVE templates'[i].version <= i
    BY <1>1, <2>1 DEF Counted, EditsInv
  <2>2. ASSUME edit[e].op = "save"
        PROVE  templates'[Len(templates) + 1].version <= Len(templates) + 1
    BY <1>1, <1>2, <2>2 DEF Founded
  <2> QED BY <1>3, <2>1, <2>2 DEF Counted
<1>5. \A n : Named(n) \subseteq Named(n)'
  BY <1>1, <1>3 DEF Named
<1>6. /\ edit' \in [Editors -> Edit] /\ edit'[e] = NoEdit /\ edit'[e].pc = "idle"
      /\ \A d \in Editors \ {e} : edit[d].pc = "idle" => edit'[d] = edit[d]
      /\ \A d \in Editors \ {e} : edit'[d].pc = "idle" => edit'[d] = NoEdit
  <2>1. NoEdit.pc = "idle" /\ \A d \in Editors : edit[d].pc = "idle" => edit[d] = NoEdit
    BY DEF NoEdit, EditsInv
  <2>2. /\ edit' \in [Editors -> Edit] /\ edit'[e] = NoEdit
        /\ \A d \in Editors \ {e} : edit[d].pc = "idle" => edit'[d] = edit[d]
        /\ \A d \in Editors \ {e} : edit[d].pc # "idle" => edit'[d].pc = edit[d].pc
    BY CommitEdits
  <2> QED BY <2>1, <2>2
<1>7. ASSUME NEW d \in Editors, edit'[d].pc # "idle"
      PROVE  Founded(d)' /\ (edit'[d].clash \/ Accurate(d)')
  <2>1. d # e /\ edit[d].pc # "idle"
    BY <1>6, <1>7
  <2>2. /\ edit'[d].clash /\ edit'[d].op = edit[d].op
        /\ edit'[d].name = edit[d].name /\ edit'[d].target = edit[d].target
        /\ edit'[d].version = edit[d].version /\ edit'[d].known = edit[d].known
    BY <2>1, CommitEdits
  <2>3. Founded(d)
    BY <2>1 DEF EditsInv
  <2>4. Founded(d)'
    BY <1>2, <1>3, <1>5, <2>2, <2>3 DEF Founded
  <2> QED BY <2>2, <2>4
<1>8. clashed' \in BOOLEAN /\ refused' \subseteq {"other name", "order of ids"}
  BY <1>2 DEF Commit, EditsInv, Edit
<1> QED BY <1>1, <1>4, <1>6, <1>7, <1>8 DEF EditsInv

\* Only one row is active, so what an undisturbed request does not switch off is
\* of another name.
LEMMA KnowsAll ==
  ASSUME EditsInv, NEW e \in Editors, edit[e].pc = "flush", ~edit[e].clash, NEW j \in ActiveRows,
         templates[j].name = edit[e].name, j # edit[e].target
  PROVE  j \in SwitchedOff(e)
<1>1. Founded(e) /\ Accurate(e) /\ j \in Rows /\ templates[j].active
  BY DEF EditsInv, ActiveRows
<1>2. j \in DOMAIN edit[e].known /\ edit[e].known[j]
  BY <1>1 DEF Accurate, Named
<1> QED BY <1>2 DEF SwitchedOff

LEMMA RefuseKeeps ==
  ASSUME EditsInv, NEW e \in Editors, Refuse(e), \A i, j \in ActiveRows : i = j PROVE EditsInv'
<1>1. edit[e].pc = "flush" /\ IndexRefuses(e) /\ SetEdit(e, NoEdit) /\ UNCHANGED <<templates, clashed>>
  BY DEF Refuse
<1>2. /\ edit[e] \in Edit /\ Founded(e)
  BY <1>1 DEF EditsInv
<1>3. ASSUME ~edit[e].clash, \A i \in ActiveRows : templates[i].name = edit[e].name
      PROVE  \E i \in SwitchedOn(e) : \A j \in ActiveRows : templates[i].rank < templates[j].rank
  <2>1. \A j \in ActiveRows : j # edit[e].target => j \in SwitchedOff(e)
    BY <1>1, <1>3, KnowsAll
  <2>2. edit[e].op = "save" => ActiveRows \ SwitchedOff(e) = {}
    <3>1. ActiveRows \subseteq Rows /\ 0 \notin Rows
      BY RowsAre DEF ActiveRows
    <3> QED BY <1>2, <2>1, <3>1 DEF Founded
  <2>3. PICK i \in SwitchedOn(e), j \in ActiveRows :
          j # i /\ (j \notin SwitchedOff(e) \/ templates[j].rank > templates[i].rank)
    BY <1>1, <2>2 DEF IndexRefuses
  <2>4. i = edit[e].target
    BY DEF SwitchedOn
  <2>5. templates[j].rank > templates[i].rank /\ \A q \in ActiveRows : q = j
    BY <2>1, <2>3, <2>4
  <2>6. i \in Rows /\ j \in Rows
    BY <1>2 DEF SwitchedOn, ActiveRows, Founded, Named
  <2>7. templates[i].rank \in Nat /\ templates[j].rank \in Nat
    BY <2>6, RowsAre, RowsAssumption DEF Template
  <2> QED BY <2>5, <2>7
<1>4. edit[e].clash \/ Reason(e) \in {"other name", "order of ids"}
  BY <1>3 DEF Reason
<1>5. refused' \subseteq {"other name", "order of ids"}
  BY <1>4 DEF Refuse, EditsInv
<1> QED BY <1>1, <1>5, NoEditType, EditMoves DEF NoEdit

LEMMA EditsStep ==
  ASSUME EditsInv, \A i, j \in ActiveRows : i = j, [EditTemplates]_templateVars
  PROVE  EditsInv'
<1>1. CASE UNCHANGED templateVars
  <2>1. Rows' = Rows /\ \A n : Named(n)' = Named(n) /\ Latest(n)' = Latest(n)
    BY <1>1 DEF templateVars, Rows, Named, Latest
  <2> QED BY <1>1, <2>1 DEF templateVars, EditsInv, Counted, Founded, Accurate
<1> QED BY <1>1, SaveKeeps, ActivateKeeps, VersionsKeep, CommitKeeps, RefuseKeeps DEF EditTemplates

\* The commit leaves one active row: the new one, the target, or the one there was.
LEMMA CommitActive ==
  ASSUME TemplatesInv, NEW e \in Editors, Commit(e)
  PROVE  /\ (\A i, j \in ActiveRows : i = j)'
         /\ ActiveUnlessClash'
<1>1. PICK k \in 1 .. MaxRows :
           /\ edit[e].op = "activate" => Len(templates') = Len(templates)
           /\ edit[e].op = "save" =>
                /\ Len(templates') = Len(templates) + 1
                /\ templates'[Len(templates) + 1] =
                     [name |-> edit[e].name, version |-> edit[e].version, rank |-> k, active |-> TRUE]
           /\ templates' \in Seq(Template)
           /\ \A i \in Rows :
                /\ templates'[i].name = templates[i].name
                /\ templates'[i].active <=> \/ templates[i].active /\ i \notin SwitchedOff(e)
                                            \/ i \in SwitchedOn(e)
  BY CommitRows DEF TemplatesInv
<1>2. /\ EditsInv /\ edit[e] \in Edit /\ Founded(e) /\ Rows = 1 .. Len(templates) /\ Len(templates) \in Nat
      /\ edit[e].pc = "flush" /\ ~IndexRefuses(e) /\ (edit[e].clash \/ Accurate(e))
  BY RowsAre DEF TemplatesInv, EditsInv, Commit
<1>3. Rows' = 1 .. Len(templates')
  BY <1>1, LenProperties DEF Rows
<1>4. SwitchedOn(e) \subseteq Rows /\ \A i \in SwitchedOn(e) : i = edit[e].target /\ ~edit[e].known[i]
  BY <1>2 DEF SwitchedOn, Founded, Named
<1>5. clashed' <=> clashed \/ edit[e].clash
  BY DEF Commit
<1>6. ~edit[e].clash /\ ~clashed => \E a \in Rows : ActiveRows = {a} /\ templates[a].name = Main
  BY DEF TemplatesInv, ActiveUnlessClash
<1>7. CASE edit[e].op = "save"
  <2> DEFINE n == Len(templates) + 1
  <2>1. SwitchedOn(e) = {} /\ ActiveRows \subseteq SwitchedOff(e)
    BY <1>2, <1>4, <1>7 DEF Founded, IndexRefuses
  <2>2. n \in Rows' /\ Rows' = Rows \cup {n} /\ templates'[n].active /\ templates'[n].name = edit[e].name
    BY <1>1, <1>2, <1>3, <1>7
  <2>3. ActiveRows' = {n}
    BY <1>1, <2>1, <2>2 DEF ActiveRows
  <2>4. ~edit[e].clash /\ ~clashed => edit[e].name = Main
    BY <1>2, <1>6, <2>1 DEF SwitchedOff, Founded, Named
  <2> HIDE DEF n
  <2> QED BY <1>5, <2>2, <2>3, <2>4 DEF ActiveUnlessClash
<1>8. CASE edit[e].op = "activate"
  <2>0. PICK t : t = edit[e].target
    OBVIOUS
  <2>1. Rows' = Rows /\ t \in Rows /\ templates[t].name = edit[e].name /\ t \in DOMAIN edit[e].known
    BY <1>1, <1>2, <1>3, <1>8, <2>0 DEF Founded, Named
  <2>2. t \notin SwitchedOff(e)
    BY <2>0 DEF SwitchedOff
  <2>3. CASE ~edit[e].known[t]
    <3>1. SwitchedOn(e) = {t}
      BY <2>0, <2>1, <2>3 DEF SwitchedOn
    <3>2. \A j \in ActiveRows : j # t => j \in SwitchedOff(e)
      BY <1>2, <3>1 DEF IndexRefuses
    <3>3. ActiveRows' = {t}
      BY <1>1, <2>1, <3>1, <3>2 DEF ActiveRows
    <3>4. ~edit[e].clash /\ ~clashed => templates[t].name = Main
      <4>1. ASSUME ~edit[e].clash, ~clashed PROVE templates[t].name = Main
        <5>1. PICK a \in Rows : ActiveRows = {a} /\ templates[a].name = Main
          BY <1>6, <4>1
        <5>2. a = t \/ a \in DOMAIN edit[e].known
          BY <3>2, <5>1 DEF SwitchedOff
        <5> QED BY <1>2, <2>1, <5>1, <5>2 DEF Founded, Named
      <4> QED BY <4>1
    <3> QED BY <1>1, <1>5, <2>1, <3>3, <3>4 DEF ActiveUnlessClash
  <2>4. CASE edit[e].known[t]
    <3>1. SwitchedOn(e) = {}
      BY <1>4, <2>0, <2>4
    <3>2. ActiveRows' \subseteq ActiveRows
      BY <1>1, <2>1, <3>1 DEF ActiveRows
    <3>3. ~edit[e].clash /\ ~clashed => ActiveRows' = {t} /\ templates[t].name = Main
      <4>1. ASSUME ~edit[e].clash, ~clashed PROVE ActiveRows' = {t} /\ templates[t].name = Main
        <5>1. PICK a \in Rows : ActiveRows = {a} /\ templates[a].name = Main
          BY <1>6, <4>1
        <5>2. templates[t].active
          BY <1>2, <2>1, <2>4, <4>1 DEF Accurate
        <5>3. a = t /\ t \in ActiveRows'
          BY <1>1, <2>1, <2>2, <5>1, <5>2 DEF ActiveRows
        <5> QED BY <3>2, <5>1, <5>3
      <4> QED BY <4>1
    <3> QED BY <1>1, <1>5, <2>1, <3>2, <3>3 DEF ActiveUnlessClash, TemplatesInv
  <2> QED BY <2>3, <2>4
<1> QED BY <1>2, <1>7, <1>8 DEF Edit

LEMMA CommitVersions ==
  ASSUME TemplatesInv, NEW e \in Editors, Commit(e) PROVE VersionsUnlessClash'
<1>1. PICK k \in 1 .. MaxRows :
           /\ edit[e].op = "activate" => Len(templates') = Len(templates)
           /\ edit[e].op = "save" =>
                /\ Len(templates') = Len(templates) + 1
                /\ templates'[Len(templates) + 1] =
                     [name |-> edit[e].name, version |-> edit[e].version, rank |-> k, active |-> TRUE]
           /\ templates' \in Seq(Template)
           /\ \A i \in Rows :
                templates'[i].name = templates[i].name /\ templates'[i].version = templates[i].version
  BY CommitRows DEF TemplatesInv
<1>2. /\ EditsInv /\ edit[e] \in Edit /\ Rows = 1 .. Len(templates) /\ Len(templates) \in Nat
      /\ edit[e].clash \/ Accurate(e)
  BY RowsAre DEF TemplatesInv, EditsInv, Commit
<1>3. Rows' = 1 .. Len(templates')
  BY <1>1, LenProperties DEF Rows
<1>4. SUFFICES ASSUME ~clashed' PROVE \A i, j \in Rows' :
        templates'[i].name = templates'[j].name /\ templates'[i].version = templates'[j].version => i = j
  BY DEF VersionsUnlessClash
<1>5. /\ Accurate(e)
      /\ \A i, j \in Rows : templates[i].name = templates[j].name
                              /\ templates[i].version = templates[j].version => i = j
  BY <1>2, <1>4 DEF Commit, TemplatesInv, VersionsUnlessClash
<1>6. CASE edit[e].op = "activate"
  BY <1>1, <1>2, <1>3, <1>5, <1>6
<1>7. CASE edit[e].op = "save"
  <2>1. PICK n : n = Len(templates) + 1
    OBVIOUS
  <2>2. /\ Rows' = Rows \cup {n} /\ n \notin Rows
        /\ templates'[n].name = edit[e].name /\ templates'[n].version = edit[e].version
    BY <1>1, <1>2, <1>3, <1>7, <2>1
  <2>3. \A i \in Rows : templates[i].name = edit[e].name => templates[i].version # edit[e].version
    <3>1. edit[e].version = Latest(edit[e].name) + 1
      BY <1>5, <1>7 DEF Accurate
    <3>2. ASSUME NEW i \in Rows, templates[i].name = edit[e].name
          PROVE  templates[i].version # edit[e].version
      <4>1. /\ templates[i].version \in Nat /\ Latest(edit[e].name) \in Nat
            /\ templates[i].version <= Latest(edit[e].name)
        BY <1>2, <3>2, LatestIs, Row DEF Named
      <4> QED BY <3>1, <4>1
    <3> QED BY <3>2
  <2> QED BY <1>1, <1>5, <2>2, <2>3
<1> QED BY <1>2, <1>6, <1>7 DEF Edit

LEMMA TemplatesStep == TemplatesInv /\ [EditTemplates]_templateVars => TemplatesInv'
<1> SUFFICES ASSUME TemplatesInv, [EditTemplates]_templateVars PROVE TemplatesInv'
  OBVIOUS
<1>1. EditsInv'
  BY EditsStep DEF TemplatesInv
<1>2. UNCHANGED <<templates, clashed>> =>
        (\A i, j \in ActiveRows : i = j)' /\ ActiveUnlessClash' /\ VersionsUnlessClash'
  BY DEF TemplatesInv, ActiveRows, Rows, ActiveUnlessClash, VersionsUnlessClash
<1>3. ASSUME NEW e \in Editors, Commit(e)
      PROVE  (\A i, j \in ActiveRows : i = j)' /\ ActiveUnlessClash' /\ VersionsUnlessClash'
  BY <1>3, CommitActive, CommitVersions
<1>4. CASE \/ \E e \in Editors : \/ \E n \in Names : SaveTemplate(e, n)
                                 \/ \E i \in Rows : ActivateTemplate(e, i)
                                 \/ ReadVersions(e) \/ Refuse(e)
           \/ UNCHANGED templateVars
  <2>1. UNCHANGED <<templates, clashed>>
    BY <1>4 DEF SaveTemplate, ActivateTemplate, ReadVersions, Refuse, templateVars
  <2> QED BY <1>1, <1>2, <2>1 DEF TemplatesInv
<1>5. ASSUME NEW e \in Editors, Commit(e) PROVE TemplatesInv'
  BY <1>1, <1>3, <1>5 DEF TemplatesInv
<1> QED BY <1>4, <1>5 DEF EditTemplates

LEMMA TemplatesFirst == TemplatesInit => TemplatesInv
<1> SUFFICES ASSUME TemplatesInit PROVE TemplatesInv
  OBVIOUS
<1>1. PICK k \in 1 .. MaxRows :
        templates = <<[name |-> Main, version |-> 1, rank |-> k, active |-> TRUE]>>
  BY DEF TemplatesInit
<1> DEFINE t == [name |-> Main, version |-> 1, rank |-> k, active |-> TRUE]
<1>2. t \in Template /\ MaxRows \in Nat /\ 1 <= MaxRows
  BY NamesAssumption, RowsAssumption DEF Template
<1>3. templates \in Seq(Template) /\ Len(templates) = 1 /\ templates[1] = t
  BY <1>1, <1>2
<1>4. Rows = {1}
  BY <1>3, LenProperties DEF Rows
<1>5. ActiveRows = {1} /\ t.name = Main /\ t.version = 1
  BY <1>3, <1>4 DEF ActiveRows
<1>6. EditsInv
  <2>1. Counted /\ Len(templates) <= MaxRows
    BY <1>2, <1>3, <1>4, <1>5 DEF Counted
  <2>2. edit \in [Editors -> Edit] /\ \A e \in Editors : edit[e] = NoEdit /\ edit[e].pc = "idle"
    BY NoEditType DEF TemplatesInit, NoEdit
  <2> QED BY <1>3, <2>1, <2>2 DEF TemplatesInit, EditsInv
<1> QED BY <1>3, <1>4, <1>5, <1>6 DEF TemplatesInv, ActiveUnlessClash, VersionsUnlessClash

\* Every request holds what its statements can have read.
THEOREM TemplatesTypesSound == TemplatesSpec => []TemplatesTypeOK
<1>1. TemplatesSpec => []TemplatesInv
  BY TemplatesFirst, TemplatesStep, PTL DEF TemplatesSpec
<1>2. TemplatesInv => TemplatesTypeOK
  <2> SUFFICES ASSUME TemplatesInv PROVE TemplatesTypeOK
    OBVIOUS
  <2>1. EditsInv /\ Len(templates) \in Nat /\ Len(templates) <= MaxRows /\ MaxRows \in Nat
    BY RowsAre, RowsAssumption DEF TemplatesInv
  <2>2. ASSUME NEW e \in Editors
        PROVE  /\ edit[e].target \in Rows \cup {0} /\ edit[e].version \in 0 .. MaxRows + 1
               /\ DOMAIN edit[e].known \subseteq Rows
    <3>1. CASE edit[e] = NoEdit
      BY <2>1, <3>1 DEF NoEdit
    <3>2. CASE Founded(e) /\ edit[e] \in Edit
      BY <2>1, <3>2, RowsAre DEF Founded, Named, Edit
    <3> QED BY <2>1, <3>1, <3>2 DEF EditsInv
  <2> QED BY <2>1, <2>2 DEF EditsInv, Edit, TemplatesTypeOK
<1> QED BY <1>1, <1>2, PTL

\* There is exactly one active template and transform_node finds it, unless two
\* edits overlapped.
THEOREM ActiveSound == TemplatesSpec => []ActiveUnlessClash
<1>1. TemplatesSpec => []TemplatesInv
  BY TemplatesFirst, TemplatesStep, PTL DEF TemplatesSpec
<1> QED BY <1>1, PTL DEF TemplatesInv

\* Version numbers of a name are distinct, unless two edits overlapped.
THEOREM VersionsSound == TemplatesSpec => []VersionsUnlessClash
<1>1. TemplatesSpec => []TemplatesInv
  BY TemplatesFirst, TemplatesStep, PTL DEF TemplatesSpec
<1> QED BY <1>1, PTL DEF TemplatesInv

\* An edit that nobody disturbed is refused for two reasons only.
THEOREM RefusalsSound == TemplatesSpec => []RefusalsExplained
<1>1. TemplatesSpec => []TemplatesInv
  BY TemplatesFirst, TemplatesStep, PTL DEF TemplatesSpec
<1>2. TemplatesInv => RefusalsExplained
  BY DEF TemplatesInv, EditsInv, RefusalsExplained
<1> QED BY <1>1, <1>2, PTL

\* The runs leave the templates alone: what holds of the editors holds of the
\* whole.
THEOREM TemplatesOfCalls == LlmSpec => TemplatesSpec
<1>1. LlmInit => TemplatesInit
  BY DEF LlmInit
<1>2. [LlmNext]_llmVars => [EditTemplates]_templateVars
  BY DEF LlmNext, llmVars
<1> QED BY <1>1, <1>2, PTL DEF LlmSpec, TemplatesSpec

===============================================================================
