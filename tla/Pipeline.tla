------------------------------ MODULE Pipeline ------------------------------
(***************************************************************************)
(* The life of the posts of ONE content upload: the LangGraph pipeline of  *)
(* src/pipeline, the HTTP handlers and background jobs that start and      *)
(* resume its runs, the posts and approval_queue rows they share, the      *)
(* checkpoint store, and LinkedIn as the code sees it.                     *)
(*                                                                         *)
(* Granularity: one action per graph node, split where the code commits    *)
(* more than once or calls a remote service between a read and a write.    *)
(* A transaction that may lose an update (finalize, the reset of a retry,  *)
(* the delete) is two steps, its SELECT and its commit.                    *)
(* After each node the graph saves a checkpoint, a step of its own, so the *)
(* process can die between a node's commit and the save.  Any node may     *)
(* raise; the process may crash at any point and loses its runs but keeps  *)
(* the database.                                                           *)
(***************************************************************************)
EXTENDS Naturals, FiniteSets

CONSTANTS
    NPosts,        \* bound: post rows this upload may get
    NShares,       \* bound: posts LinkedIn accepts in a behaviour
    MaxTime,       \* bound: clock ticks
    MaxFaults,     \* bound: crashes plus exceptions
    Slots,         \* publish slots, as instants of the clock
    Runs,          \* bound: graph runs in flight at once
    Clicks,        \* bound: decisions answered by a route, not yet delivered
    MaxFresh,      \* bound: threads minted by retry and publish
    Ops,           \* the operator requests and faults the environment uses
    NeedApproval   \* initial value of schedule_config.require_approval

OpNames == {"trigger", "retry", "publish_now", "post_decision",
            "decide_approval", "sheet", "expire", "reschedule", "delete",
            "toggle", "crash", "raise"}

ASSUME CountsAssumption ==
    /\ NPosts \in Nat /\ NShares \in Nat
    /\ MaxTime \in Nat /\ MaxFaults \in Nat /\ MaxFresh \in Nat
ASSUME SlotsAssumption == Slots \subseteq Nat \ {0}
ASSUME OpsAssumption == Ops \subseteq OpNames
ASSUME NeedApprovalAssumption == NeedApproval \in BOOLEAN

VARIABLES
    rows,      \* the posts table
    approval,  \* decision of the post's approval_queue row ("none": no row)
    owner,     \* owner[i]: the post LinkedIn share i was made for (0: unused)
    live,      \* the shares LinkedIn still shows
    ckpt,      \* checkpoint of the thread upload-<id>: next node, graph state
    fresh,     \* threads retry-... and publish-... minted so far
    run,       \* the graph runs of this process
    due,       \* _poll_scheduled_posts' snapshot, not yet resumed
    actioned,  \* poll_once's result, committed but not yet resumed
    clicks,    \* background tasks of the decision routes, not yet run
    deleting,  \* post being deleted from LinkedIn by a handler (0: none)
    erase,     \* what that handler's second transaction is about to write
    requireApproval,  \* schedule_config.require_approval
    now,       \* the clock
    faults,    \* crashes and exceptions so far
    said,      \* history: decisions that reached the graph, per attempt
    wiped      \* history: posts whose share id an overlapping write cleared

vars == <<rows, approval, owner, live, ckpt, fresh, run, due, actioned, clicks,
          deleting, erase, requireApproval, now, faults, said, wiped>>

-----------------------------------------------------------------------------
(* Types and helpers *)

Posts    == 1 .. NPosts
ShareIds == 1 .. NShares

Statuses == {"none", "processing", "awaiting_approval", "approved",
             "rejected", "failed", "scheduled", "publishing", "published"}
Row == [status : Statuses, lid : {0} \cup ShareIds, slot : {0} \cup Slots,
        hash : BOOLEAN]
NoRow == [status |-> "none", lid |-> 0, slot |-> 0, hash |-> FALSE]
ResetRow == [NoRow EXCEPT !.status = "processing"]

\* A transaction read the row `old` and wants it to be `new`: the session sends
\* the columns that differ, and the commit leaves the others as they then are.
Columns == {"status", "lid", "slot", "hash"}
Patch   == [cols : SUBSET Columns, row : Row]
NoPatch == [cols |-> {}, row |-> NoRow]
PatchOf(old, new) ==
    [cols |-> {c \in Columns : \/ c = "status" /\ old.status # new.status
                               \/ c = "lid" /\ old.lid # new.lid
                               \/ c = "slot" /\ old.slot # new.slot
                               \/ c = "hash" /\ old.hash # new.hash},
     row  |-> new]
Patched(row, u) ==
    [status |-> IF "status" \in u.cols THEN u.row.status ELSE row.status,
     lid    |-> IF "lid" \in u.cols THEN u.row.lid ELSE row.lid,
     slot   |-> IF "slot" \in u.cols THEN u.row.slot ELSE row.slot,
     hash   |-> IF "hash" \in u.cols THEN u.row.hash ELSE row.hash]

Nodes == {"extract", "dedup", "sanitize", "transform", "validate", "schedule",
          "approve", "wait_for_slot", "preview", "publish", "finalize"}
PCs   == Nodes \cup {"idle", "reset", "notify", "decide", "mark", "call", "record",
                     "commit", "end"}
Decisions == {"approved", "rejected", "timeout"}
Answers   == {"approved", "rejected"}
NoClick   == <<0, "none">>

\* PipelineState, the channels the control flow reads.
State == [post : {0} \cup Posts, dry : BOOLEAN, skip : BOOLEAN, err : BOOLEAN,
          appr : {"none"} \cup Decisions, lid : {0} \cup ShareIds]
NoState == [post |-> 0, dry |-> TRUE, skip |-> FALSE, err |-> FALSE,
            appr |-> "none", lid |-> 0]

Checkpoint == [next : Nodes \cup {"unused", "end"}, st : State]

\* origin decides what an exception does to the row; resume is the value of
\* Command(resume=...), "true" for the scheduled-post job's default.
Origins == {"none", "start", "retry", "decision", "scheduled_job",
            "approvals_job"}
RunRec == [pc : PCs, thread : {"upload", "fresh"}, unsaved : BOOLEAN, origin : Origins,
           resume : {"none", "true"} \cup Decisions, st : State, upd : Patch]
IdleRun == [pc |-> "idle", thread |-> "upload", unsaved |-> FALSE,
            origin |-> "none", resume |-> "none", st |-> NoState, upd |-> NoPatch]

TypeOK ==
    /\ rows \in [Posts -> Row]
    /\ approval \in [Posts -> {"none", "pending"} \cup Decisions]
    /\ owner \in [ShareIds -> {0} \cup Posts]
    /\ live \subseteq ShareIds
    /\ ckpt \in Checkpoint
    /\ fresh \in 0 .. MaxFresh
    /\ run \in [Runs -> RunRec]
    /\ due \subseteq Posts
    /\ actioned \subseteq Posts \X Decisions
    /\ clicks \in [Clicks -> {NoClick} \cup Posts \X Answers]
    /\ deleting \in {0} \cup Posts
    /\ erase \in Patch
    /\ requireApproval \in BOOLEAN
    /\ now \in 0 .. MaxTime
    /\ faults \in 0 .. MaxFaults
    /\ said \in [Posts -> SUBSET {"approved", "rejected", "stray"}]
    /\ wiped \subseteq Posts

Init ==
    /\ rows = [p \in Posts |-> NoRow]
    /\ approval = [p \in Posts |-> "none"]
    /\ owner = [i \in ShareIds |-> 0]
    /\ live = {}
    /\ ckpt = [next |-> "unused", st |-> NoState]
    /\ fresh = 0
    /\ run = [r \in Runs |-> IdleRun]
    /\ due = {}
    /\ actioned = {}
    /\ clicks = [c \in Clicks |-> NoClick]
    /\ deleting = 0
    /\ erase = NoPatch
    /\ requireApproval = NeedApproval
    /\ now = 0
    /\ faults = 0
    /\ said = [p \in Posts |-> {}]
    /\ wiped = {}

Exists(p) == rows[p].status # "none"
Idle(r)   == run[r].pc = "idle"

\* Run r is about to execute (a part of) node n.
At(r, n) == run[r].pc = n /\ ~run[r].unsaved

\* Node of run r returned: s is its state with the node's writes merged in,
\* n what the edge selects.  The checkpoint is not saved yet.
Advance(r, n, s) ==
    run' = [run EXCEPT ![r] = [@ EXCEPT !.pc = n, !.st = s, !.unsaved = TRUE,
                                        !.upd = NoPatch]]

\* Move inside a node: nothing returned, nothing to checkpoint.
Goto(r, n) == run' = [run EXCEPT ![r] = [@ EXCEPT !.pc = n]]

SetStatus(p, s) == rows' = [rows EXCEPT ![p] = [@ EXCEPT !.status = s]]

\* What the handlers outside the graph leave alone.
dbVars   == <<rows, approval>>
feedVars == <<owner, live, wiped>>
threadVars == <<ckpt, fresh>>
deleteVars == <<deleting, erase>>
jobVars  == <<due, actioned, clicks, deleteVars>>
envVars  == <<requireApproval, now, faults>>

-----------------------------------------------------------------------------
(* Starting and resuming the graph *)

\* astream(input, config): a run at the entry point; input is the graph's
\* input merged into the channels left by earlier runs of the thread.
Start(r, thread, origin, input) ==
    /\ Idle(r)
    /\ run' = [run EXCEPT ![r] = [pc |-> "extract", thread |-> thread,
                  unsaved |-> FALSE, origin |-> origin, resume |-> "none",
                  st |-> input, upd |-> NoPatch]]

\* astream(Command(resume=v)): re-executes the node the checkpoint stands at.
CanResume == ckpt.next \in Nodes
Resume(r, origin, v) ==
    /\ Idle(r)
    /\ CanResume
    /\ run' = [run EXCEPT ![r] = [pc |-> ckpt.next, thread |-> "upload",
                  unsaved |-> FALSE, origin |-> origin, resume |-> v,
                  st |-> ckpt.st, upd |-> NoPatch]]
\* A thread with no checkpoint, or an ended one, has nothing to do.
Wake(r, origin, v) == IF CanResume THEN Resume(r, origin, v) ELSE UNCHANGED run

\* The graph saves its checkpoint after a node.  A resume value that the node
\* did not consume is dropped with the node's pending writes.  Nothing resumes
\* the thread of a retry, so what is saved for it is never read.
SaveCheckpoint(r) ==
    /\ run[r].unsaved
    /\ ckpt' = IF run[r].thread = "upload"
                THEN [next |-> run[r].pc, st |-> run[r].st] ELSE ckpt
    /\ run' = [run EXCEPT ![r] =
                   IF run[r].pc = "end" THEN IdleRun
                   ELSE [@ EXCEPT !.unsaved = FALSE, !.resume = "none"]]
    /\ UNCHANGED <<dbVars, feedVars, fresh, jobVars, envVars, said>>

\* The post _mark_failed finds: the post_id the caller passed, or the newest
\* row of the upload.  Runs started by resume.py only log the exception.
IsNewest(p) == Exists(p) /\ \A q \in Posts : Exists(q) => q <= p
MarkTarget(r) ==
    CASE run[r].origin = "retry" -> {run[r].st.post} \cap Posts
      [] run[r].origin = "start" -> {p \in Posts : IsNewest(p)}
      [] OTHER -> {}

\* An exception leaves run r: its open transaction is rolled back and the
\* post is marked failed by run_pipeline, but not by a resumed run.
MarkFailed(r) ==
    rows' = [p \in Posts |->
                IF p \in MarkTarget(r) /\ rows[p].status \notin {"published", "rejected"}
                THEN [rows[p] EXCEPT !.status = "failed"] ELSE rows[p]]

Dies(r) == run' = [run EXCEPT ![r] = IdleRun]

\* Any node may raise (database, storage, LLM, Slack, checkpointer).
NodeRaises(r) ==
    /\ "raise" \in Ops /\ faults < MaxFaults
    /\ ~Idle(r)
    /\ MarkFailed(r)
    /\ Dies(r)
    /\ faults' = faults + 1
    /\ UNCHANGED <<approval, feedVars, threadVars, jobVars, requireApproval, now, said>>

-----------------------------------------------------------------------------
(* The nodes *)

NewPost(p) == rows[p] = NoRow /\ \A q \in Posts : q < p => Exists(q)

\* A thread without a post_id inserts a new row.  A new attempt starts without
\* decisions.
ExtractInserts(r) ==
    /\ At(r, "extract") /\ run[r].st.post = 0
    /\ \E p \in Posts :
         /\ NewPost(p)
         /\ rows' = [rows EXCEPT ![p] = ResetRow]
         /\ said' = [said EXCEPT ![p] = {}]
         /\ Advance(r, "dedup", [run[r].st EXCEPT !.post = p])
    /\ UNCHANGED <<approval, feedVars, threadVars, jobVars, envVars>>

\* Any other run resets the row it was given: it reads the row here, and
\* commits what differs from a fresh one in ExtractResets.
Reads(r, want, n) ==
    run' = [run EXCEPT ![r] = [@ EXCEPT !.pc = n,
                                        !.upd = PatchOf(rows[run[r].st.post], want)]]

ExtractReads(r) ==
    /\ At(r, "extract") /\ run[r].st.post # 0
    /\ Reads(r, ResetRow, "reset")
    /\ UNCHANGED <<dbVars, feedVars, threadVars, jobVars, envVars, said>>

Apply(p, u) == rows' = [rows EXCEPT ![p] = Patched(@, u)]

\* Who is between its SELECT and its commit, with a row of post p in hand: runs
\* that finalize it, and those (or the delete) that clear its share id.
Finalizing(p) == \E r \in Runs : run[r].pc = "commit" /\ run[r].st.post = p
Clearing(p) ==
    \/ deleting = p /\ "lid" \in erase.cols
    \/ \E r \in Runs :
         run[r].pc = "reset" /\ run[r].st.post = p /\ "lid" \in run[r].upd.cols

\* History of commit u, which may clear the id of p while a run finalizes p.
NoteClear(p, u) ==
    wiped' = CASE Finalizing(p) /\ "lid" \in u.cols -> wiped \cup {p}
               [] ~Finalizing(p) /\ "status" \in u.cols -> wiped \ {p}
               [] OTHER -> wiped

ExtractResets(r) ==
    LET p == run[r].st.post IN
    /\ At(r, "reset")
    /\ Apply(p, run[r].upd)
    /\ NoteClear(p, run[r].upd)
    /\ said' = [said EXCEPT ![p] = {}]
    /\ Advance(r, "dedup", run[r].st)
    /\ UNCHANGED <<approval, owner, live, threadVars, jobVars, envVars>>

\* All rows of the upload hold the same content, hence the same hash.
IsDuplicate == \E q \in Posts : rows[q].hash /\ rows[q].status \notin {"rejected", "failed"}
HashTaken(p) == \E q \in Posts \ {p} : rows[q].hash

\* Mutant: a status the enum does not have.
MutGiveUp(r, p) ==
    /\ SetStatus(p, "error")
    /\ Advance(r, "finalize", [run[r].st EXCEPT !.err = TRUE])

\* Mutant: the error channel is not set.
MutGiveUpSilently(r, p) ==
    /\ SetStatus(p, "failed")
    /\ Advance(r, "finalize", run[r].st)

\* A node that gives up marks the row failed and routes to finalize.
GiveUp(r, p) ==
    /\ SetStatus(p, "failed")
    /\ Advance(r, "finalize", [run[r].st EXCEPT !.err = TRUE])

\* _route_dedup reads the error channel, which an earlier run may have left.
DedupPasses(r) ==
    LET p == run[r].st.post IN
    /\ At(r, "dedup") /\ ~IsDuplicate /\ ~HashTaken(p)
    /\ rows' = [rows EXCEPT ![p] = [@ EXCEPT !.hash = TRUE]]
    /\ Advance(r, IF run[r].st.err THEN "finalize" ELSE "sanitize", run[r].st)
    /\ UNCHANGED <<approval, feedVars, threadVars, jobVars, envVars, said>>

DedupRefuses(r) ==
    /\ At(r, "dedup") /\ IsDuplicate
    /\ GiveUp(r, run[r].st.post)
    /\ UNCHANGED <<approval, feedVars, threadVars, jobVars, envVars, said>>

\* The hash belongs to a failed or rejected row: not a duplicate for
\* is_duplicate, but the UNIQUE index on post_hash refuses the commit.
DedupConflicts(r) ==
    /\ At(r, "dedup") /\ ~IsDuplicate /\ HashTaken(run[r].st.post)
    /\ MarkFailed(r)
    /\ Dies(r)
    /\ UNCHANGED <<approval, feedVars, threadVars, jobVars, envVars, said>>

\* sanitize, transform and validate: an LLM verdict (or the monthly budget)
\* lets the post through or fails it.
Screen(r, node, next) ==
    /\ At(r, node)
    /\ \/ Advance(r, next, run[r].st) /\ UNCHANGED rows
       \/ GiveUp(r, run[r].st.post)
    /\ UNCHANGED <<approval, feedVars, threadVars, jobVars, envVars, said>>

Sanitize(r)  == Screen(r, "sanitize", "transform")
Transform(r) == Screen(r, "transform", IF run[r].st.err THEN "finalize" ELSE "validate")
Validate(r)  == Screen(r, "validate", "schedule")

\* assign_slot takes a slot later than now.
Schedule(r) ==
    /\ At(r, "schedule")
    /\ \E s \in Slots :
         /\ s > now
         /\ rows' = [rows EXCEPT ![run[r].st.post] = [@ EXCEPT !.slot = s]]
    /\ Advance(r, IF run[r].st.dry \/ run[r].st.skip \/ ~requireApproval
                  THEN "wait_for_slot" ELSE "approve", run[r].st)
    /\ UNCHANGED <<approval, feedVars, threadVars, jobVars, envVars, said>>

\* assign_slot found no active day with a free slot.
ScheduleRaises(r) ==
    /\ At(r, "schedule") /\ \A s \in Slots : s <= now
    /\ MarkFailed(r)
    /\ Dies(r)
    /\ UNCHANGED <<approval, feedVars, threadVars, jobVars, envVars, said>>

\* approve_node, first part: the post's latest approval is re-used whatever
\* its decision; only a post without one is enqueued.
ApproveEnqueue(r) ==
    LET p == run[r].st.post IN
    /\ At(r, "approve") /\ approval[p] = "none"
    /\ approval' = [approval EXCEPT ![p] = "pending"]
    /\ SetStatus(p, "awaiting_approval")
    /\ Goto(r, "notify")
    /\ UNCHANGED <<feedVars, threadVars, jobVars, envVars, said>>

ApproveReuse(r) ==
    /\ At(r, "approve") /\ approval[run[r].st.post] # "none"
    /\ Goto(r, "decide")
    /\ UNCHANGED <<dbVars, feedVars, threadVars, jobVars, envVars, said>>

NotifySlack(r) ==
    /\ At(r, "notify")
    /\ Goto(r, "decide")
    /\ UNCHANGED <<dbVars, feedVars, threadVars, jobVars, envVars, said>>

\* interrupt() without a resume value: the run ends, the checkpoint stays.
ApproveInterrupts(r) ==
    /\ At(r, "decide") /\ run[r].resume = "none"
    /\ Dies(r)
    /\ UNCHANGED <<dbVars, feedVars, threadVars, jobVars, envVars, said>>

\* Mutant: everything but "rejected" lets the post through.
MutApproveDecides(r) ==
    LET p == run[r].st.post
        d == IF run[r].resume = "true" THEN "approved" ELSE run[r].resume
    IN
    /\ At(r, "decide") /\ run[r].resume # "none"
    /\ approval' = [approval EXCEPT ![p] = d]
    /\ SetStatus(p, IF d # "rejected" THEN "approved" ELSE "rejected")
    /\ Advance(r, IF d # "rejected" THEN "wait_for_slot" ELSE "finalize",
               [run[r].st EXCEPT !.appr = d])
    /\ UNCHANGED <<feedVars, threadVars, jobVars, envVars, said>>

\* Mutant: approve has a plain edge to wait_for_slot, no routing.
MutApproveUnrouted(r) ==
    LET p == run[r].st.post
        d == IF run[r].resume = "true" THEN "approved" ELSE run[r].resume
    IN
    /\ At(r, "decide") /\ run[r].resume # "none"
    /\ approval' = [approval EXCEPT ![p] = d]
    /\ SetStatus(p, IF d = "approved" THEN "approved" ELSE "rejected")
    /\ Advance(r, "wait_for_slot", [run[r].st EXCEPT !.appr = d])
    /\ UNCHANGED <<feedVars, threadVars, jobVars, envVars, said>>

\* interrupt() returns; a value that is not a dict counts as "approved".
ApproveDecides(r) ==
    LET p == run[r].st.post
        d == IF run[r].resume = "true" THEN "approved" ELSE run[r].resume
    IN
    /\ At(r, "decide") /\ run[r].resume # "none"
    /\ approval' = [approval EXCEPT ![p] = d]
    /\ SetStatus(p, IF d = "approved" THEN "approved" ELSE "rejected")
    /\ Advance(r, IF d = "approved" THEN "wait_for_slot" ELSE "finalize",
               [run[r].st EXCEPT !.appr = d])
    /\ UNCHANGED <<feedVars, threadVars, jobVars, envVars, said>>

\* Mutant: the comparison with the slot is swapped.
MutMustWait(r) ==
    LET p == run[r].st.post IN
    ~run[r].st.dry /\ ~run[r].st.skip /\ rows[p].slot # 0 /\ now > rows[p].slot

\* wait_for_slot_node: dry runs, "publish now", unscheduled and due posts pass.
MustWait(r) ==
    LET p == run[r].st.post IN
    ~run[r].st.dry /\ ~run[r].st.skip /\ rows[p].slot # 0 /\ now < rows[p].slot

SlotPasses(r) ==
    /\ At(r, "wait_for_slot") /\ ~MustWait(r)
    /\ Advance(r, "preview", run[r].st)
    /\ UNCHANGED <<dbVars, feedVars, threadVars, jobVars, envVars, said>>

\* Otherwise the post is put in "scheduled" and the graph interrupts; when the
\* run carries a resume value, interrupt() returns and the node completes
\* although the slot has not come.
SlotHolds(r) ==
    LET p == run[r].st.post IN
    /\ At(r, "wait_for_slot") /\ MustWait(r)
    /\ IF rows[p].status \in {"failed", "rejected"}
       THEN UNCHANGED rows ELSE SetStatus(p, "scheduled")
    /\ IF run[r].resume = "none" THEN Dies(r) ELSE Advance(r, "preview", run[r].st)
    /\ UNCHANGED <<approval, feedVars, threadVars, jobVars, envVars, said>>

Preview(r) ==
    /\ At(r, "preview")
    /\ Advance(r, "publish", run[r].st)
    /\ UNCHANGED <<dbVars, feedVars, threadVars, jobVars, envVars, said>>

\* publish_node, the row read and its two guards.
PublishAlreadyDone(r) ==
    LET p == run[r].st.post IN
    /\ At(r, "publish") /\ ~run[r].st.dry /\ rows[p].lid # 0
    /\ Advance(r, "finalize", [run[r].st EXCEPT !.lid = rows[p].lid])
    /\ UNCHANGED <<dbVars, feedVars, threadVars, jobVars, envVars, said>>

PublishFailsClosed(r) ==
    LET p == run[r].st.post IN
    /\ At(r, "publish") /\ ~run[r].st.dry
    /\ rows[p].lid = 0 /\ rows[p].status = "publishing"
    /\ GiveUp(r, p)
    /\ UNCHANGED <<approval, feedVars, threadVars, jobVars, envVars, said>>

\* Mutant: no "publishing" guard.
MutPublishProceeds(r) ==
    LET p == run[r].st.post IN
    /\ At(r, "publish")
    /\ run[r].st.dry \/ rows[p].lid = 0
    /\ Goto(r, IF run[r].st.dry THEN "call" ELSE "mark")
    /\ UNCHANGED <<dbVars, feedVars, threadVars, jobVars, envVars, said>>

PublishProceeds(r) ==
    LET p == run[r].st.post IN
    /\ At(r, "publish")
    /\ run[r].st.dry \/ (rows[p].lid = 0 /\ rows[p].status # "publishing")
    /\ Goto(r, IF run[r].st.dry THEN "call" ELSE "mark")
    /\ UNCHANGED <<dbVars, feedVars, threadVars, jobVars, envVars, said>>

PublishMarks(r) ==
    /\ At(r, "mark")
    /\ SetStatus(run[r].st.post, "publishing")
    /\ Goto(r, "call")
    /\ UNCHANGED <<approval, feedVars, threadVars, jobVars, envVars, said>>

\* client.publish: a dry run validates and calls nobody.
PublishDry(r) ==
    /\ At(r, "call") /\ run[r].st.dry
    /\ run' = [run EXCEPT ![r] = [@ EXCEPT !.pc = "record", !.st.lid = 0]]
    /\ UNCHANGED <<dbVars, feedVars, threadVars, jobVars, envVars, said>>

NextShare(i) == owner[i] = 0 /\ \A j \in ShareIds : j < i => owner[j] # 0

\* LinkedIn accepts share i and the reply arrives.
LinkedInAccepts(r) ==
    /\ At(r, "call") /\ ~run[r].st.dry
    /\ \E i \in ShareIds :
         /\ NextShare(i)
         /\ owner' = [owner EXCEPT ![i] = run[r].st.post]
         /\ live' = live \cup {i}
         /\ run' = [run EXCEPT ![r] = [@ EXCEPT !.pc = "record", !.st.lid = i]]
    /\ UNCHANGED <<dbVars, wiped, threadVars, jobVars, envVars, said>>

\* The share lands but the reply is lost (a timeout): publish_node cannot tell
\* that from a refusal.
LinkedInReplyLost(r) ==
    /\ At(r, "call") /\ ~run[r].st.dry /\ faults < MaxFaults /\ "raise" \in Ops
    /\ \E i \in ShareIds :
         /\ NextShare(i)
         /\ owner' = [owner EXCEPT ![i] = run[r].st.post]
         /\ live' = live \cup {i}
    /\ GiveUp(r, run[r].st.post)
    /\ faults' = faults + 1
    /\ UNCHANGED <<approval, wiped, threadVars, jobVars, requireApproval, now, said>>

LinkedInRefuses(r) ==
    /\ At(r, "call")
    /\ GiveUp(r, run[r].st.post)
    /\ UNCHANGED <<approval, feedVars, threadVars, jobVars, envVars, said>>

PublishRecords(r) ==
    LET i == run[r].st.lid IN
    /\ At(r, "record")
    /\ IF i = 0 THEN UNCHANGED rows
       ELSE rows' = [rows EXCEPT ![run[r].st.post] = [@ EXCEPT !.lid = i]]
    /\ Advance(r, "finalize", run[r].st)
    /\ UNCHANGED <<approval, feedVars, threadVars, jobVars, envVars, said>>

\* Mutant: the error channel is not looked at.
MutFinalRow(row, s) ==
    CASE s.appr \in {"rejected", "timeout"} -> row
      [] s.appr \notin {"rejected", "timeout"} /\ s.dry ->
           [row EXCEPT !.status = "approved"]
      [] OTHER ->
           [row EXCEPT !.status = "published",
                       !.lid = IF s.lid = 0 THEN row.lid ELSE s.lid]

\* finalize_node's row after the run whose graph state is s.
FinalRow(row, s) ==
    CASE s.err ->
           IF row.status \in {"failed", "rejected"} THEN row
           ELSE [row EXCEPT !.status = "failed"]
      [] ~s.err /\ s.appr \in {"rejected", "timeout"} -> row
      [] ~s.err /\ s.appr \notin {"rejected", "timeout"} /\ s.dry ->
           [row EXCEPT !.status = "approved"]
      [] OTHER ->
           [row EXCEPT !.status = "published",
                       !.lid = IF s.lid = 0 THEN row.lid ELSE s.lid]

FinalizeReads(r) ==
    /\ At(r, "finalize")
    /\ Reads(r, FinalRow(rows[run[r].st.post], run[r].st), "commit")
    /\ UNCHANGED <<dbVars, feedVars, threadVars, jobVars, envVars, said>>

\* History of a commit that publishes p while someone clears its share id.
FinalizeCommits(r) ==
    LET p == run[r].st.post
        u == run[r].upd
    IN
    /\ At(r, "commit")
    /\ Apply(p, u)
    /\ wiped' = IF "status" \in u.cols /\ u.row.status = "published" /\ Clearing(p)
                  THEN wiped \cup {p} ELSE wiped
    /\ Advance(r, "end", run[r].st)
    /\ UNCHANGED <<approval, owner, live, threadVars, jobVars, envVars, said>>

NodeStep(r) ==
    \/ ExtractInserts(r) \/ ExtractReads(r) \/ ExtractResets(r)
    \/ DedupPasses(r) \/ DedupRefuses(r) \/ DedupConflicts(r)
    \/ Sanitize(r) \/ Transform(r) \/ Validate(r)
    \/ Schedule(r) \/ ScheduleRaises(r)
    \/ ApproveEnqueue(r) \/ ApproveReuse(r) \/ NotifySlack(r)
    \/ ApproveInterrupts(r) \/ ApproveDecides(r)
    \/ SlotPasses(r) \/ SlotHolds(r) \/ Preview(r)
    \/ PublishAlreadyDone(r) \/ PublishFailsClosed(r) \/ PublishProceeds(r)
    \/ PublishMarks(r) \/ PublishDry(r)
    \/ LinkedInAccepts(r) \/ LinkedInRefuses(r)
    \/ PublishRecords(r) \/ FinalizeReads(r) \/ FinalizeCommits(r) \/ SaveCheckpoint(r)

-----------------------------------------------------------------------------
(* HTTP handlers and background jobs *)

\* Bound: a run that will insert a row starts only while an id is free.
RoomForRow ==
    \/ ckpt.st.post # 0
    \/ Cardinality({p \in Posts : Exists(p)})
         + Cardinality({r \in Runs : ~Idle(r) /\ run[r].st.post = 0}) < NPosts

\* The first start of the upload (upload, compose, the pending-uploads job), or
\* /pipeline/trigger at any later time: no handler looks at the post's state.
StartUpload(r, dry) ==
    /\ ckpt.next = "unused" \/ "trigger" \in Ops
    /\ RoomForRow
    /\ LET input == [ckpt.st EXCEPT !.dry = dry] IN
         /\ Start(r, "upload", "start", input)
         /\ ckpt' = [next |-> "extract", st |-> input]
    /\ UNCHANGED <<dbVars, feedVars, fresh, jobVars, envVars, said>>

\* Retry of a post, whatever its status, on a thread of its own.
RetryPost(r, p, dry) ==
    /\ "retry" \in Ops /\ fresh < MaxFresh
    /\ Exists(p)
    /\ SetStatus(p, "processing")
    /\ Start(r, "fresh", "retry", [NoState EXCEPT !.post = p, !.dry = dry])
    /\ fresh' = fresh + 1
    /\ UNCHANGED <<approval, feedVars, ckpt, jobVars, envVars, said>>

\* "Publish to LinkedIn": live, and the click is the approval.
PublishPost(r, p) ==
    /\ "publish_now" \in Ops /\ fresh < MaxFresh
    /\ Exists(p) /\ rows[p].status \notin {"published", "publishing"}
    /\ SetStatus(p, "processing")
    /\ Start(r, "fresh", "retry",
             [NoState EXCEPT !.post = p, !.dry = FALSE, !.skip = TRUE])
    /\ fresh' = fresh + 1
    /\ UNCHANGED <<approval, feedVars, ckpt, jobVars, envVars, said>>

\* The history of decisions, when decision d on post p is delivered to the
\* upload's thread.  In time, the thread waits for the decision on p, and an
\* approval supersedes an earlier rejection.  Otherwise the decision is "stray":
\* the graph does not hear it, and if it waits for another post's decision, or
\* for a slot, it takes the value for the answer.
InTime(p) == ckpt.next = "approve" /\ ckpt.st.post = p
Word(d) == {d} \cap Answers
AfterWord(words, d) == IF d = "approved" THEN {"approved"} ELSE words \cup Word(d)
Say(p, d) ==
    said' = [q \in Posts |->
                CASE q = p /\ InTime(p) -> AfterWord(said[q] \ {"stray"}, d)
                  [] q = p /\ ~InTime(p) -> AfterWord(said[q], d) \cup {"stray"}
                  [] q # p /\ q = ckpt.st.post /\ CanResume -> said[q] \cup {"stray"}
                  [] OTHER -> said[q]]

\* The routes answer at once and leave the resume to a background task.
Accept(c, p, d) ==
    /\ clicks[c] = NoClick
    /\ clicks' = [clicks EXCEPT ![c] = <<p, d>>]
    /\ UNCHANGED <<dbVars, feedVars, threadVars, run, due, actioned, deleteVars, envVars, said>>

\* The dashboard's decision on a post: only while an approval is pending.
PostDecision(c, p, d) ==
    /\ "post_decision" \in Ops /\ approval[p] = "pending"
    /\ Accept(c, p, d)

\* Decisions addressed by approval id: any approval row will do.
DecideApproval(c, p, d) ==
    /\ "decide_approval" \in Ops /\ approval[p] # "none"
    /\ Accept(c, p, d)

\* resume_pipeline_for_approval looks nothing up but the upload, and resumes
\* the upload's own thread wherever it stands by now.
DeliverClick(r, c) ==
    /\ clicks[c] # NoClick
    /\ clicks' = [clicks EXCEPT ![c] = NoClick]
    /\ Wake(r, "decision", clicks[c][2])
    /\ Say(clicks[c][1], clicks[c][2])
    /\ UNCHANGED <<dbVars, feedVars, threadVars, due, actioned, deleteVars, envVars>>

JobBusy(job) == \E r \in Runs : run[r].origin = job

\* poll_once's transaction: pending approvals past their deadline time out,
\* the decisions read from the Sheet are recorded unconditionally.
PollApprovals ==
    /\ actioned = {} /\ ~JobBusy("approvals_job")
    /\ \E dec \in [Posts -> {"none"} \cup Decisions] :
         /\ \E p \in Posts : dec[p] # "none"
         /\ \A p \in Posts :
              /\ dec[p] = "timeout" => "expire" \in Ops /\ approval[p] = "pending"
              /\ dec[p] \in {"approved", "rejected"} =>
                   "sheet" \in Ops /\ approval[p] # "none"
         /\ approval' = [p \in Posts |-> IF dec[p] = "none" THEN approval[p] ELSE dec[p]]
         /\ rows' = [p \in Posts |->
              CASE dec[p] = "none" -> rows[p]
                [] dec[p] = "approved" -> [rows[p] EXCEPT !.status = "approved"]
                [] dec[p] = "rejected" -> [rows[p] EXCEPT !.status = "rejected"]
                [] dec[p] = "timeout"  -> [rows[p] EXCEPT !.status = "failed"]]
         /\ actioned' = {<<p, dec[p]>> : p \in {q \in Posts : dec[q] # "none"}}
    /\ UNCHANGED <<feedVars, threadVars, run, due, clicks, deleteVars, envVars, said>>

\* After the commit the job resumes the actioned approvals one by one.
ResumeActioned(r) ==
    /\ ~JobBusy("approvals_job")
    /\ \E a \in actioned :
         /\ actioned' = actioned \ {a}
         /\ Wake(r, "approvals_job", a[2])
         /\ Say(a[1], a[2])
    /\ UNCHANGED <<dbVars, feedVars, threadVars, due, clicks, deleteVars, envVars>>

\* resume_pipeline_for_approval's look-up raises: a route's decision is lost,
\* the job drops the rest of its list.
ResumeRaises ==
    /\ "raise" \in Ops /\ faults < MaxFaults
    /\ \/ /\ \E c \in Clicks :
              clicks[c] # NoClick /\ clicks' = [clicks EXCEPT ![c] = NoClick]
          /\ UNCHANGED actioned
       \/ /\ actioned # {} /\ ~JobBusy("approvals_job")
          /\ actioned' = {}
          /\ UNCHANGED clicks
    /\ faults' = faults + 1
    /\ UNCHANGED <<dbVars, feedVars, threadVars, run, due, deleteVars, requireApproval, now, said>>

\* Mutant: the job looks for the approved posts.
MutDuePosts == {p \in Posts : rows[p].status = "approved" /\ rows[p].slot # 0 /\ now >= rows[p].slot}

\* The scheduled-post job reads the due posts, then resumes them one by one.
DuePosts == {p \in Posts : rows[p].status = "scheduled" /\ rows[p].slot # 0 /\ now >= rows[p].slot}

PollScheduled ==
    /\ due = {} /\ ~JobBusy("scheduled_job")
    /\ DuePosts # {}
    /\ due' = DuePosts
    /\ UNCHANGED <<dbVars, feedVars, threadVars, run, actioned, clicks, deleteVars, envVars, said>>

\* The job resumes the thread for p, and it stands at an interrupt of post q
\* that does not wait for that: a stray resume too.
Misled(p, q) ==
    /\ q = ckpt.st.post
    /\ ckpt.next = "approve" \/ (ckpt.next = "wait_for_slot" /\ p # q)

ResumeDue(r) ==
    /\ ~JobBusy("scheduled_job")
    /\ \E p \in due :
         /\ due' = due \ {p}
         /\ Wake(r, "scheduled_job", "true")
         /\ said' = [q \in Posts |-> IF Misled(p, q) THEN said[q] \cup {"stray"} ELSE said[q]]
    /\ UNCHANGED <<dbVars, feedVars, threadVars, actioned, clicks, deleteVars, envVars>>

\* reschedule_post writes any slot, due or not.
Reschedule(p, s) ==
    /\ "reschedule" \in Ops /\ Exists(p)
    /\ rows[p].status \notin {"published", "publishing"}
    /\ rows' = [rows EXCEPT ![p] = [@ EXCEPT !.slot = s]]
    /\ UNCHANGED <<approval, feedVars, threadVars, run, jobVars, envVars, said>>

\* delete_from_linkedin: the API call (a share already gone counts as deleted),
\* then the row in a second transaction.
DeleteShare(p) ==
    /\ "delete" \in Ops /\ deleting = 0
    /\ rows[p].lid # 0
    /\ live' = live \ {rows[p].lid}
    /\ deleting' = p
    /\ UNCHANGED <<dbVars, owner, wiped, threadVars, run, due, actioned, clicks, erase,
                   envVars, said>>

DeleteReads ==
    LET u == PatchOf(rows[deleting], [rows[deleting] EXCEPT !.status = "rejected", !.lid = 0])
    IN
    /\ deleting # 0 /\ erase.cols = {}
    /\ IF u.cols = {} THEN deleting' = 0 /\ UNCHANGED erase
       ELSE erase' = u /\ UNCHANGED deleting
    /\ UNCHANGED <<dbVars, feedVars, threadVars, run, due, actioned, clicks, envVars, said>>

DeleteCommits ==
    /\ erase.cols # {}
    /\ Apply(deleting, erase)
    /\ NoteClear(deleting, erase)
    /\ deleting' = 0 /\ erase' = NoPatch
    /\ UNCHANGED <<approval, owner, live, threadVars, run, due, actioned, clicks, envVars, said>>

\* PUT /schedule may flip require_approval.
ToggleApproval ==
    /\ "toggle" \in Ops
    /\ requireApproval' = ~requireApproval
    /\ UNCHANGED <<dbVars, feedVars, threadVars, run, jobVars, now, faults, said>>

\* The process dies and restarts: runs, jobs and handlers are gone; the
\* database, the checkpoints and LinkedIn stay.
Crash ==
    /\ "crash" \in Ops /\ faults < MaxFaults
    /\ run' = [r \in Runs |-> IdleRun]
    /\ due' = {} /\ actioned' = {} /\ clicks' = [c \in Clicks |-> NoClick]
    /\ deleting' = 0 /\ erase' = NoPatch
    /\ faults' = faults + 1
    /\ UNCHANGED <<dbVars, feedVars, threadVars, requireApproval, now, said>>

Tick ==
    /\ now < MaxTime
    /\ now' = now + 1
    /\ UNCHANGED <<dbVars, feedVars, threadVars, run, jobVars, requireApproval, faults, said>>

Handler(r) ==
    \/ \E dry \in BOOLEAN : StartUpload(r, dry)
    \/ \E p \in Posts, dry \in BOOLEAN : RetryPost(r, p, dry)
    \/ \E p \in Posts : PublishPost(r, p)
    \/ \E c \in Clicks : DeliverClick(r, c)

Next ==
    \/ \E r \in Runs : NodeStep(r) \/ NodeRaises(r) \/ LinkedInReplyLost(r)
    \/ \E r \in Runs : Handler(r) \/ ResumeActioned(r) \/ ResumeDue(r)
    \/ \E c \in Clicks, p \in Posts, d \in Answers :
         PostDecision(c, p, d) \/ DecideApproval(c, p, d)
    \/ PollApprovals \/ PollScheduled \/ ResumeRaises
    \/ \E p \in Posts, s \in Slots : Reschedule(p, s)
    \/ \E p \in Posts : DeleteShare(p)
    \/ DeleteReads \/ DeleteCommits \/ ToggleApproval \/ Crash \/ Tick

Spec == Init /\ [][Next]_vars

\* asyncio runs every task that can move, APScheduler keeps firing the
\* scheduled-post job, time passes.  Nothing else is promised.
Fairness ==
    /\ \A r \in Runs : WF_vars(NodeStep(r))
    /\ WF_vars(PollScheduled)
    /\ WF_vars(\E r \in Runs : ResumeDue(r))
    /\ WF_vars(DeleteReads \/ DeleteCommits)
    /\ WF_vars(Tick)
FairSpec == Spec /\ Fairness

-----------------------------------------------------------------------------
(* Properties *)

\* Run r gets a share accepted by LinkedIn in this step.
Publishes(r) == At(r, "call") /\ ~run[r].st.dry /\ owner' # owner

\* A post that says "published" carries the id of a share that LinkedIn
\* accepted for that very post, whatever runs, crashes and handlers interleave
\* (publish_node records the id, finalize_node sets the status) - unless the id
\* was cleared, by a delete or by the reset of a retry, in a transaction that
\* overlapped finalize_node's own.
PublishedMeansRecorded ==
    \A p \in Posts : rows[p].status = "published" =>
        IF rows[p].lid = 0 THEN p \in wiped ELSE owner[rows[p].lid] = p

\* Why it holds, as an inductive invariant.  A graph state about to be finalized
\* as a live success, or about to be recorded, carries a share of its own post.
ClaimsSuccess(s) == ~s.err /\ ~s.dry /\ s.appr \notin {"rejected", "timeout"}
Sound(own, node, s) ==
    /\ node \notin {"idle", "unused", "extract"} => s.post \in Posts
    /\ node = "record" =>
         (s.lid # 0 => own[s.lid] = s.post) /\ (~s.dry => s.lid # 0)
    /\ node = "finalize" /\ ClaimsSuccess(s) =>
         s.lid # 0 /\ own[s.lid] = s.post
RowsSound == \A p \in Posts :
    /\ rows[p].lid # 0 => owner[rows[p].lid] = p
    /\ rows[p].status = "published" => rows[p].lid # 0 \/ p \in wiped
RunsSound == \A r \in Runs :
    /\ Sound(owner, run[r].pc, run[r].st)
    /\ run[r].unsaved => run[r].pc \in Nodes \cup {"end"}
CkptSound == Sound(owner, ckpt.next, ckpt.st)

\* A patch of finalize_node brings a share of its own post, or the row has one,
\* or it has lost it since the SELECT; a patch that clears the id publishes
\* nothing, and overwrites the status unless a finalize has come in between.
CommitSound(p, u) ==
    /\ u.cols \subseteq {"status", "lid"}
    /\ "status" \in u.cols => u.row.status \in {"failed", "approved", "published"}
    /\ "lid" \in u.cols => u.row.lid # 0 /\ owner[u.row.lid] = p
    /\ "status" \in u.cols /\ u.row.status = "published" =>
         "lid" \in u.cols \/ rows[p].lid # 0 \/ p \in wiped
ClearSound(p, u) ==
    /\ "lid" \in u.cols => u.row.lid = 0
    /\ u.row.status \in {"processing", "rejected"}
    /\ "lid" \in u.cols /\ "status" \notin u.cols /\ rows[p].status = "published" =>
         p \in wiped
PatchSound(x) ==
    /\ x.pc = "commit" => CommitSound(x.st.post, x.upd)
    /\ x.pc = "reset" => ClearSound(x.st.post, x.upd)
EraseSound ==
    erase.cols # {} => /\ deleting # 0 /\ ClearSound(deleting, erase)
                       /\ erase.cols \subseteq {"status", "lid"}
PatchesSound == EraseSound /\ \A r \in Runs : PatchSound(run[r])

\* Rows, running graph states and saved graph states only ever name shares
\* that LinkedIn accepted for their own post (publish_node, finalize_node and
\* every handler that rewrites a row), also across the commits that overlap.
PublicationInv == TypeOK /\ RowsSound /\ RunsSound /\ CkptSound /\ PatchesSound

\* publish.py: "so we never post the same content twice" - at any time
\* LinkedIn shows at most one share of the upload's content.
AtMostOnce == \A i, j \in live : i = j

\* A live post of a run that is not the dashboard's "publish now" goes out
\* only after a human's approval reached the graph in the current attempt
\* (approve_node's gate).
ConsentBeforePublish ==
    [][\A r \in Runs : Publishes(r) /\ ~run[r].st.skip
          => "approved" \in said[run[r].st.post]]_vars

\* RUNBOOK: after "rejected" nothing is published.  A rejection that reaches the
\* graph while it waits for that decision is final for the attempt, across
\* crashes, retries and re-executed nodes - unless a later approval supersedes
\* it, or a decision reached the graph when it was not waiting for it.
RejectionHonoured ==
    [][\A r \in Runs : Publishes(r) /\ ~run[r].st.skip
          => \/ "rejected" \notin said[run[r].st.post]
             \/ "stray" \in said[run[r].st.post]]_vars

\* RUNBOOK: after "rejected" nothing is published, as it stands there.
RejectionIsFinal ==
    [][\A r \in Runs : Publishes(r) /\ ~run[r].st.skip
          => "rejected" \notin said[run[r].st.post]]_vars

\* RUNBOOK: wait_for_slot holds the post until its slot time - unless a decision
\* reached the graph when it was not waiting for it and released the post.
NotBeforeSlot ==
    [][\A r \in Runs : Publishes(r) /\ ~run[r].st.skip
          => \/ now >= rows[run[r].st.post].slot
             \/ "stray" \in said[run[r].st.post]]_vars

\* A post in "scheduled" does not stay there: its slot comes, the job resumes
\* the thread and the run brings it to another status.
ScheduledLeaves ==
    \A p \in Posts : rows[p].status = "scheduled" ~> rows[p].status # "scheduled"

\* dashboard.py: deleting a post from LinkedIn clears its id on the row - when
\* the handler is done, a row that says "published" names a share LinkedIn shows.
PublishedIsLive ==
    deleting = 0 =>
        \A p \in Posts : rows[p].status = "published" => rows[p].lid \in live
=============================================================================
