---------------------------- MODULE ApprovalSync ----------------------------
(***************************************************************************)
(* The approvals job in detail: ApprovalPoller.poll_once in one database   *)
(* transaction, the Sheet it reads and marks on the way, the Slack calls   *)
(* between, the commit, and the graphs resumed after it; and, beside it,   *)
(* POST /pipeline/approve, which resumes a graph directly.                 *)
(*                                                                         *)
(* The Sheet is outside the transaction: a decision is marked ":synced"    *)
(* there before the database commits it.                                   *)
(***************************************************************************)
EXTENDS Naturals, Sequences, SequencesExt, Selection

CONSTANTS
    Approvals,  \* rows of approval_queue
    NRows,      \* rows of the Sheet
    RowOf,      \* RowOf[r]: the approval_id typed in row r
    MaxAnswers, \* bound: answers given by humans, for each approval
    MaxFaults   \* bound: crashes, failed commits, calls and resumes

SheetRows == 1 .. NRows
Answers   == {"approved", "rejected"}
Verdicts  == Answers \cup {"timeout"}
None      == "none"

ASSUME SheetAssumption == NRows \in Nat /\ RowOf \in [SheetRows -> Approvals]
ASSUME ApprovalsAssumption == IsFiniteSet(Approvals)
ASSUME BoundsAssumption == MaxAnswers \in [Approvals -> Nat] /\ MaxFaults \in Nat

VARIABLES
    decision,  \* approval_queue.decision
    overdue,   \* approvals past expires_at
    parked,    \* approvals whose graph is paused at approve_node's interrupt
    outcome,   \* what that graph was resumed with
    stray,     \* resumes that found the graph somewhere else
    sheet,     \* the Sheet: the decision column
    poll,      \* poll_once and its transaction
    direct,    \* background tasks of POST /pipeline/approve
    answers,   \* history: how many answers humans gave
    asked,     \* history: which
    faults,
    lost,      \* history: approvals whose decision a rollback or crash dropped ...
    unwoken,   \* ... or whose parked graph a fault left asleep, since their last answer
    unmarked   \* history: approvals whose mark failed or was not reached

vars == <<decision, overdue, parked, outcome, stray, sheet, poll, direct,
          answers, asked, faults, lost, unwoken, unmarked>>

-----------------------------------------------------------------------------
(* Types *)

Entry == Approvals \X Verdicts
Cell  == [answer : {"pending"} \cup Answers, synced : BOOLEAN]
\* writes: the transaction's uncommitted decisions; act: poll_once's result;
\* marked: cells marked in this transaction.
Poll  == [pc : {"idle", "expire", "notify", "read", "record", "mark", "resume"},
          expired : SUBSET Approvals, todo : Seq(Entry),
          writes : [Approvals -> Verdicts \cup {None}], act : Seq(Approvals),
          marked : SUBSET Approvals, wake : Seq(Entry)]
NoPoll == [pc |-> "idle", expired |-> {}, todo |-> <<>>,
           writes |-> [a \in Approvals |-> None], act |-> <<>>, marked |-> {},
           wake |-> <<>>]

TypeOK ==
    /\ decision \in [Approvals -> {"pending"} \cup Verdicts]
    /\ overdue \subseteq Approvals
    /\ parked \subseteq Approvals
    /\ outcome \in [Approvals -> {None} \cup Verdicts]
    /\ stray \subseteq Approvals
    /\ sheet \in [SheetRows -> Cell]
    /\ poll \in Poll
    /\ direct \subseteq Entry
    /\ answers \in [Approvals -> Nat]
    /\ \A a \in Approvals : answers[a] <= MaxAnswers[a]
    /\ faults \in 0 .. MaxFaults
    /\ asked \subseteq Entry
    /\ lost \subseteq Approvals
    /\ unwoken \subseteq Approvals
    /\ unmarked \subseteq Approvals

Init ==
    /\ decision = [a \in Approvals |-> "pending"]
    /\ overdue = {}
    /\ parked = Approvals
    /\ outcome = [a \in Approvals |-> None]
    /\ stray = {}
    /\ sheet = [r \in SheetRows |-> [answer |-> "pending", synced |-> FALSE]]
    /\ poll = NoPoll
    /\ direct = {}
    /\ answers = [a \in Approvals |-> 0]
    /\ faults = 0
    /\ asked = {}
    /\ lost = {}
    /\ unwoken = {}
    /\ unmarked = {}

-----------------------------------------------------------------------------
(* Helpers *)

Fault   == faults < MaxFaults /\ faults' = faults + 1
At(pc)  == poll.pc = pc
rest    == <<answers, asked, overdue>>
graphs  == <<parked, outcome, stray>>
history == <<lost, unwoken, unmarked>>

\* The transaction has updated the row of a and holds its lock.
Locked(a) == poll.writes[a] # None

\* Mutant: cells without an answer are read, too.
MutOpen(a) == {r \in SheetRows : RowOf[r] = a /\ ~sheet[r].synced}

\* The rows of the Sheet that read_decisions returns for a.
Open(a) == {r \in SheetRows : RowOf[r] = a /\ sheet[r].answer \in Answers /\ ~sheet[r].synced}

\* What a rollback takes back from the queue but not from the Sheet.
Dropped(S) == {a \in S : Open(a) = {} /\ a \in parked}

-----------------------------------------------------------------------------
(* Humans and time *)

Answered(a, d) ==
    /\ answers[a] < MaxAnswers[a]
    /\ answers' = [answers EXCEPT ![a] = answers[a] + 1]
    /\ asked' = asked \cup {<<a, d>>}

\* A human fills in a decision cell of the Sheet, or changes it.
EditSheet(r, d) ==
    /\ Answered(RowOf[r], d)
    /\ sheet' = [sheet EXCEPT ![r] = [answer |-> d, synced |-> FALSE]]
    /\ lost' = lost \ {RowOf[r]}
    /\ unwoken' = unwoken \ {RowOf[r]}
    /\ UNCHANGED <<decision, overdue, graphs, poll, direct, faults, unmarked>>

\* A task of POST /pipeline/approve holds an answer for a.
Told(a) == \E d \in Answers : <<a, d>> \in direct

\* POST /pipeline/approve/{approval_id}: nothing is recorded, a task resumes the graph.
Approve(a, d) ==
    /\ Answered(a, d)
    /\ direct' = direct \cup {<<a, d>>}
    /\ unwoken' = unwoken \ {a}
    /\ UNCHANGED <<decision, overdue, graphs, sheet, poll, faults, lost, unmarked>>

Deadline(a) ==
    /\ a \notin overdue
    /\ overdue' = overdue \cup {a}
    /\ UNCHANGED <<decision, graphs, sheet, poll, direct, answers, asked, faults, history>>

-----------------------------------------------------------------------------
(* poll_once *)

SetPoll(p) == poll' = p

\* Any exception out of poll_once or of the commit: the transaction is rolled
\* back and _poll_approvals returns.
Abort ==
    /\ SetPoll(NoPoll)
    /\ lost' = lost \cup Dropped(poll.marked)
    /\ UNCHANGED <<decision, graphs, sheet, direct, rest, unwoken, unmarked>>

\* expire_timed_out: SELECT the pending approvals past their deadline.
SelectExpired ==
    /\ At("idle")
    /\ SetPoll([NoPoll EXCEPT !.pc = "expire",
                 !.expired = {a \in overdue : decision[a] = "pending"}])
    /\ UNCHANGED <<decision, graphs, sheet, direct, rest, faults, history>>

\* Mutant: the expired approvals are written but not returned.
MutExpire ==
    /\ At("expire")
    /\ SetPoll([poll EXCEPT !.pc = "notify",
                 !.writes = [a \in Approvals |-> IF a \in poll.expired THEN "timeout" ELSE None]])
    /\ UNCHANGED <<decision, graphs, sheet, direct, rest, faults, history>>

\* ... and write "timeout" to each, whatever its row says by now.
Expire ==
    /\ At("expire")
    /\ SetPoll([poll EXCEPT !.pc = "notify",
                 !.writes = [a \in Approvals |-> IF a \in poll.expired THEN "timeout" ELSE None],
                 !.act = SetToSeq(poll.expired)])
    /\ UNCHANGED <<decision, graphs, sheet, direct, rest, faults, history>>

NotifyExpired ==
    /\ At("notify")
    /\ SetPoll([poll EXCEPT !.pc = "read"])
    /\ UNCHANGED <<decision, graphs, sheet, direct, rest, faults, history>>

\* Slack refuses: notify_decision raises, outside of any try.
NotifyExpiredFails ==
    /\ At("notify") /\ poll.expired # {} /\ Fault
    /\ Abort

\* read_decisions: the unsynced answers, in the order of the rows.
ReadDecisions ==
    /\ At("read")
    /\ LET open == InOrder({r \in SheetRows : r \in Open(RowOf[r])})
       IN  SetPoll([poll EXCEPT !.pc = "record",
                 !.todo = [i \in DOMAIN open |-> <<RowOf[open[i]], sheet[open[i]].answer>>]])
    /\ UNCHANGED <<decision, graphs, sheet, direct, rest, faults, history>>

ReadDecisionsFails ==
    /\ At("read") /\ Fault
    /\ Abort

\* Mutant: the decision is not written to the row.
MutRecord ==
    /\ At("record") /\ poll.todo # <<>>
    /\ SetPoll([poll EXCEPT !.pc = "mark"])
    /\ UNCHANGED <<decision, graphs, sheet, direct, rest, faults, history>>

\* record_decision and Slack: the decision overwrites whatever the row says.
Record ==
    /\ At("record") /\ poll.todo # <<>>
    /\ LET a == Head(poll.todo)[1]
           d == Head(poll.todo)[2]
       IN  SetPoll([poll EXCEPT !.pc = "mark", !.writes = [@ EXCEPT ![a] = d],
                                !.act = Append(poll.act, a)])
    /\ UNCHANGED <<decision, graphs, sheet, direct, rest, faults, history>>

\* Mutant: the row is marked although its graph will not be resumed.
MutRecordSkipped ==
    /\ At("record") /\ poll.todo # <<>> /\ Fault
    /\ LET a == Head(poll.todo)[1]
           d == Head(poll.todo)[2]
       IN  SetPoll([poll EXCEPT !.pc = "mark", !.writes = [poll.writes EXCEPT ![a] = d]])
    /\ UNCHANGED <<decision, graphs, sheet, direct, rest, history>>

\* Slack refuses: the entry is skipped, but its flushed UPDATE stays in the
\* transaction.
RecordSkipped ==
    /\ At("record") /\ poll.todo # <<>> /\ Fault
    /\ LET a == Head(poll.todo)[1]
           d == Head(poll.todo)[2]
       IN  /\ SetPoll([poll EXCEPT !.writes = [@ EXCEPT ![a] = d], !.todo = Tail(poll.todo)])
           /\ unmarked' = unmarked \cup {a}
    /\ UNCHANGED <<decision, graphs, sheet, direct, rest, lost, unwoken>>

\* update_decision: worksheet.find takes the FIRST row with that id.
FirstRow(a) == CHOOSE r \in SheetRows : RowOf[r] = a /\ \A q \in 1 .. r - 1 : RowOf[q] # a

\* Mutant: the row is rewritten without the suffix ":synced".
MutMark ==
    /\ At("mark")
    /\ SetPoll([poll EXCEPT !.pc = "record", !.todo = Tail(poll.todo),
                            !.marked = poll.marked \cup {Head(poll.todo)[1]}])
    /\ UNCHANGED <<decision, graphs, sheet, direct, rest, faults, history>>

Mark ==
    /\ At("mark")
    /\ LET a == Head(poll.todo)[1]
           d == Head(poll.todo)[2]
       IN  /\ sheet' = [sheet EXCEPT ![FirstRow(a)] = [answer |-> d, synced |-> TRUE]]
           /\ SetPoll([poll EXCEPT !.pc = "record", !.todo = Tail(poll.todo),
                                   !.marked = poll.marked \cup {a}])
    /\ UNCHANGED <<decision, graphs, direct, rest, faults, history>>

\* The Sheets API refuses: logged, the row will be read again.
MarkFails ==
    /\ At("mark") /\ Fault
    /\ SetPoll([poll EXCEPT !.pc = "record", !.todo = Tail(poll.todo)])
    /\ unmarked' = unmarked \cup {Head(poll.todo)[1]}
    /\ UNCHANGED <<decision, graphs, sheet, direct, rest, lost, unwoken>>

\* session.commit(); actioned holds the ORM objects, so each is resumed with
\* the last decision written to it.
Commit ==
    /\ At("record") /\ poll.todo = <<>>
    /\ decision' = [a \in Approvals |-> IF Locked(a) THEN poll.writes[a] ELSE decision[a]]
    /\ SetPoll([NoPoll EXCEPT !.pc = "resume",
                 !.wake = [i \in DOMAIN poll.act |-> <<poll.act[i], poll.writes[poll.act[i]]>>]])
    /\ UNCHANGED <<graphs, sheet, direct, rest, faults, history>>

CommitFails ==
    /\ At("record") /\ poll.todo = <<>> /\ Fault
    /\ Abort

-----------------------------------------------------------------------------
(* Resuming the graphs *)

\* Mutant: a graph that has moved on is decided again.
MutResume(a, d) ==
    /\ parked' = parked \ {a}
    /\ outcome' = [outcome EXCEPT ![a] = d]
    /\ decision' = [decision EXCEPT ![a] = d]
    /\ UNCHANGED stray

\* resume_pipeline_for_approval: a graph paused at the interrupt takes the value
\* and approve_node records it; any other graph is disturbed, not decided.
Resume(a, d) ==
    IF a \in parked
      THEN /\ parked' = parked \ {a}
           /\ outcome' = [outcome EXCEPT ![a] = d]
           /\ decision' = [decision EXCEPT ![a] = d]
           /\ UNCHANGED stray
      ELSE /\ stray' = stray \cup {a}
           /\ UNCHANGED <<parked, outcome, decision>>

ResumeActioned ==
    /\ At("resume") /\ poll.wake # <<>>
    /\ Resume(Head(poll.wake)[1], Head(poll.wake)[2])
    /\ SetPoll([poll EXCEPT !.wake = Tail(poll.wake)])
    /\ UNCHANGED <<sheet, direct, rest, faults, history>>

\* The resume comes to nothing. astream raises before approve_node's commit, or
\* after it: the decision is then recorded, but the graph stays at the interrupt.
Unresumed(a, d) ==
    /\ unwoken' = unwoken \cup ({a} \cap parked)
    /\ \/ UNCHANGED decision
       \/ a \in parked /\ decision' = [decision EXCEPT ![a] = d]
    /\ UNCHANGED <<graphs, lost, unmarked>>

\* resume_pipeline_thread logs the exception; the next approval has its turn.
ResumeFails ==
    /\ At("resume") /\ poll.wake # <<>> /\ Fault
    /\ Unresumed(Head(poll.wake)[1], Head(poll.wake)[2])
    /\ SetPoll([poll EXCEPT !.wake = Tail(poll.wake)])
    /\ UNCHANGED <<sheet, direct, rest>>

\* Approvals still to be resumed after the commit.
ToWake == {a \in Approvals : \E i \in DOMAIN poll.wake : poll.wake[i][1] = a}

\* The SELECTs of resume_pipeline_for_approval raise: the job ends, and with it
\* the resumes that were still to come.
LookUpFails ==
    /\ At("resume") /\ poll.wake # <<>> /\ Fault
    /\ SetPoll(NoPoll)
    /\ unwoken' = unwoken \cup (ToWake \cap parked)
    /\ UNCHANGED <<decision, graphs, sheet, direct, rest, lost, unmarked>>

PollDone ==
    /\ At("resume") /\ poll.wake = <<>>
    /\ SetPoll(NoPoll)
    /\ UNCHANGED <<decision, graphs, sheet, direct, rest, faults, history>>

\* The task of POST /approve; approve_node's UPDATE waits for a row lock.
ResumeDirect(a, d) ==
    /\ <<a, d>> \in direct /\ ~Locked(a)
    /\ Resume(a, d)
    /\ direct' = direct \ {<<a, d>>}
    /\ UNCHANGED <<sheet, poll, rest, faults, history>>

\* The same task when its SELECTs or the graph raise.
ResumeDirectFails(a, d) ==
    /\ <<a, d>> \in direct /\ ~Locked(a) /\ Fault
    /\ Unresumed(a, d)
    /\ direct' = direct \ {<<a, d>>}
    /\ UNCHANGED <<sheet, poll, rest>>

\* The process dies: transaction, wake-ups and tasks are gone.
Crash ==
    /\ Fault
    /\ SetPoll(NoPoll)
    /\ direct' = {}
    /\ lost' = lost \cup Dropped(poll.marked)
    /\ unwoken' = unwoken \cup (ToWake \cap parked) \cup {a \in parked : Told(a)}
    /\ UNCHANGED <<decision, graphs, sheet, rest, unmarked>>

PollNext ==
    \/ SelectExpired \/ Expire \/ NotifyExpired \/ ReadDecisions \/ Record \/ Mark
    \/ Commit \/ ResumeActioned \/ PollDone

Next ==
    \/ \E r \in SheetRows, d \in Answers : EditSheet(r, d)
    \/ \E a \in Approvals :
         \/ Deadline(a)
         \/ \E d \in Answers : Approve(a, d) \/ ResumeDirect(a, d) \/ ResumeDirectFails(a, d)
    \/ PollNext
    \/ NotifyExpiredFails \/ ReadDecisionsFails \/ RecordSkipped \/ MarkFails \/ CommitFails
    \/ ResumeFails \/ LookUpFails \/ Crash

Spec == Init /\ [][Next]_vars

\* APScheduler fires the job every interval and asyncio runs what is ready.
FairSpec ==
    /\ Spec
    /\ WF_vars(PollNext)
    /\ \A a \in Approvals, d \in Answers : WF_vars(ResumeDirect(a, d))

-----------------------------------------------------------------------------
(* Properties *)

\* The detailed job implements the atomic one: each poll, whatever fails inside
\* it, changes the queue in one step and for a reason, and resumes a paused
\* graph once, with an answer that was given or with a timeout that was due.
Delivery == INSTANCE ApprovalDelivery
            WITH Approvals <- Approvals, asked <- asked, overdue <- overdue,
                 decision <- decision, outcome <- outcome

ImplementsDelivery == Delivery!Spec

\* Outside the transaction that marks it, a ":synced" row stands for a decision
\* in the queue, unless another row of that approval is still to be read, or a
\* rollback or crash came between mark and commit.
SyncedMeansRecorded ==
    \A r \in SheetRows : sheet[r].synced /\ RowOf[r] \notin poll.marked
        => decision[RowOf[r]] # "pending" \/ Open(RowOf[r]) # {} \/ RowOf[r] \in lost

\* A graph that has moved on is disturbed by a second resume only if there was a
\* second answer or a timeout, a failed mark, or a second row with the same id.
ReplayExplained ==
    \A a \in stray :
        \/ answers[a] > 1
        \/ a \in overdue /\ answers[a] > 0
        \/ a \in unmarked
        \/ \E r \in SheetRows : RowOf[r] = a /\ r # FirstRow(a)

\* An answer typed in the Sheet or given to the API wakes its graph, however
\* often Slack or the Sheet refused and the poll began again, unless a rollback
\* or crash dropped it after it was marked in the Sheet, or the resume failed:
\* nothing tries a failed resume again.
AnswerDelivered ==
    \A a \in Approvals :
        (a \in parked /\ (Open(a) # {} \/ Told(a))) ~> (a \notin parked \/ a \in lost \cup unwoken)

\* A graph whose approval is past its deadline does not stay paused, whichever
\* polls were rolled back, unless a resume of it failed: its row is decided by
\* then and is not expired again.
DeadlineDelivered ==
    \A a \in Approvals : a \in overdue ~> (a \notin parked \/ a \in unwoken)

=============================================================================
