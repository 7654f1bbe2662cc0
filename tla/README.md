# Formal models of the LinkedIn content pipeline

This directory holds TLA+ models of the service in `src/`: a FastAPI process that
turns uploaded content into LinkedIn posts through a LangGraph graph, with human
approval, publish slots, Google Sheets as a second way to decide, and a dashboard.
The models follow the Python code; where a document says something else, the code
is modelled and the difference is a finding (section 11).

## 1. Inventory

| Component | State it keeps | Operations | Talks to |
|---|---|---|---|
| Pipeline graph (`pipeline/graph.py`, `pipeline/nodes/*`) | per-thread channels (`PipelineState`), the `posts` row | eleven nodes from `extract` to `finalize`, routing functions, two `interrupt()`s (`approve`, `wait_for_slot`) | database, LLM, LinkedIn, Slack, checkpointer |
| Runner and resume (`pipeline/runner.py`, `pipeline/resume.py`) | runs in flight (asyncio tasks) | `run_pipeline`, `resume_pipeline_thread`, `resume_pipeline_for_approval`, `_mark_failed` | graph |
| Checkpointer (`pipeline/checkpointer.py`, LangGraph) | last checkpoint of each thread | save after each node, load on resume | PostgreSQL |
| Approval queue and poller (`approval/*`) | `approval_queue`, the Sheet's rows | `enqueue`, `expire_timed_out`, `record_decision`, `poll_once` | posts, Sheet, Slack |
| Background jobs (`api/app.py`) | snapshots of one job run | pending uploads, approvals, scheduled posts, content sources; each runs once at a time | all of the above |
| HTTP API (`api/routes/*`) | none | trigger, upload, retry, publish now, decide, reschedule, delete, schedule settings, templates, logs | runner, database, LinkedIn |
| Slot scheduler (`scheduling/*`) | `schedule_config`, `posts.scheduled_date/slot` | `assign_slot`, duplicate detection | posts |
| LinkedIn client (`linkedin/*`) | rate-limit bucket, tokens | publish, upload image, delete, refresh | LinkedIn |
| Ingestion (`ingestion/*`) | `content_uploads`, `content_sources` | folder watcher, Drive poller, readers | database, file system |
| Intelligence (`intelligence/*`) | `llm_costs`, `prompt_templates` | sanitize, transform, validate, budget check, template versions | LLM, database |
| Observability (`observability/*`) | log ring, `logs` | `log_event`, queries | database |

What is hard here:

- *Concurrency.* The graph of a post can be resumed by the dashboard (two routes),
  the API, the Sheet poller and the scheduled-post job, and nothing locks a thread
  or a row. Every handler reads, awaits, then writes.
- *Crashes.* Runs live in memory; the database, the checkpoints and LinkedIn do not
  forget. A crash can fall between any two of them.
- *Unreliable replies.* A publish whose answer is lost looks like a refusal.
- *Time.* Slots come due, approvals expire, decisions come late.

What makes each part correct:

- posts: "published" is never claimed without a share that LinkedIn accepted for
  that post; content goes out once; nothing goes out without consent, after a
  rejection or before its slot; a scheduled post is eventually taken up;
- approvals: a decision is applied once and wakes the graph that waits for it;
- slots: the slot is the next free one and a day stays within its limit;
- ingestion: a file becomes one upload and one run, and no upload is forgotten;
- limits: quota and budget are not overdrawn beyond what is in flight; every bearer sent
  is valid; a publish that waits returns;
- templates: one version is active and can be rolled back; versions are distinct;
- logs: the tab shows every record once and in order.

## 2. Plan

| Order | Module | Subject | State |
|---|---|---|---|
| 1 | `Pipeline`, `MCPipeline` | posts, approvals, checkpoints, runs, handlers, jobs, LinkedIn | written, checked |
| 2 | `PipelineProofs` | the published status, consent, slot, rejection, at most once | proved |
| 3 | `SlotScheduler`, `MCSlotScheduler`, `SlotSchedulerProofs` | `assign_slot` among concurrent runs | written, checked, proved |
| 4 | `Ingestion`, `MCIngestion`, `IngestionProofs` | watcher, upload handlers, Drive poller and pending-uploads job over `content_uploads` and a folder | written, checked, proved |
| 5 | `ApprovalSync`, `ApprovalDelivery`, `MCApprovalSync`, `ApprovalSyncProofs` | the approvals job against the Sheet; its abstract specification and the refinement | written, checked, proved |
| 6 | `PromptTemplates`, `LlmCalls`, `MCLlmCalls`, `LlmCallsProofs` | template versions and the partial unique index; costs and the budget of concurrent runs | written, checked, proved |
| 7 | `LinkedInClient`, `LogRing`, `MCServices`, `LinkedInClientProofs`, `LogRingProofs` | quota, lock, tokens of worker threads; the log ring and the tab that tails it | written, checked, proved |
| 8 | `Selection`, `SelectionProofs` | going through a set of positions in order, as the loops of the jobs do; used by modules 4, 5 and 7 | written, proved |
| 9 | `PostLifecycle` | abstract life of one post, refined by `Pipeline` in the one-run-at-a-time regime | planned |

`LlmCalls` composes runs with `PromptTemplates` (the transform node reads the active
template while editors change it). `ApprovalSync` details the atomic `PollApprovals` of
`Pipeline`, `Ingestion` what comes before its `StartUpload`, `SlotScheduler` its
`Schedule`, `LinkedInClient` its `LinkedInAccepts`. `MCServices` explores two components
that share nothing, one per behaviour.

## 3. The module `Pipeline`

One content upload, all posts that its runs create, and everything that can touch
them.

| In the model | In the code |
|---|---|
| `rows` | `posts` rows: status, `linkedin_post_id`, slot, whether `post_hash` is set |
| `approval` | decision of the post's `approval_queue` row |
| `ckpt` | the checkpoint of thread `upload-<id>`: next node and channels |
| `run` | graph runs in flight: point in the node, channels, who started it, resume value |
| `owner`, `live` | LinkedIn: for which post a share was accepted, which shares are shown |
| `due`, `actioned`, `deleting` | what `_poll_scheduled_posts`, `_poll_approvals` and `delete_from_linkedin` hold between two awaits |
| `clicks` | background tasks of the decision routes that have answered and not yet resumed anything |
| `erase`, `upd` of a run | the columns that an open transaction (delete; finalize, a retry's reset) will write at its commit |
| `requireApproval`, `now`, `faults`, `fresh` | `schedule_config.require_approval`, the clock, bounds |
| `said` | history only: the decisions that reached the graph in the current attempt of a post; "stray" when one reached the thread while it did not wait for it, and none in time has come since |
| `wiped` | history only: posts whose share id was cleared by a write that overlapped finalize's transaction |

Actions follow the code one to one: a node is one action where it commits once, and
is split where the code commits twice or calls a service between reading and writing
(`publish`: read and guards, mark, call, record; `approve`: enqueue, notify,
interrupt or decide). Three transactions can lose what others write while they are open,
and are two steps each, the SELECT and the commit: `FinalizeReads` and `FinalizeCommits`,
`ExtractReads` and `ExtractResets` (a retry's reset of its row), `DeleteReads` and
`DeleteCommits`. As in SQLAlchemy, the commit sends the columns whose value differs from
what was read (`PatchOf`) and leaves the others as they are by then (`Patched`): a
finalize that read the share's id does not write it again. A decision has two steps as
well: the route looks at the approval and answers (`PostDecision`, `DecideApproval`), its
background task resumes the thread at some later time (`DeliverClick`), wherever the graph
stands then, or raises in its look-up (`ResumeRaises`).

`SaveCheckpoint` is LangGraph's save after each node, a step of its own, so a crash can
separate a node's commit from its checkpoint: the node then runs again. A resume re-executes the interrupted node with the resume value, whatever
the value was meant for. `NodeRaises` can end any run at any point; only a run started
by `run_pipeline` marks its post failed. `Crash` drops runs and snapshots, and keeps
tables, checkpoint and LinkedIn.

Abstractions, each of which keeps the control flow:

- all posts of an upload have the same content, so the hash is a flag; the posts of
  other uploads are left out;
- the verdicts of sanitizer, budget, LLM and validator are a choice between passing
  and failing; texts, titles, images and costs are left out (an image upload's failure
  never fails the post);
- slots are instants of the model's clock; `assign_slot` takes any slot later than
  now, since posts of other uploads may hold the earlier ones;
- an approval may expire at any time while it is pending;
- a look at `approval_queue` and the insert that follows are one step: two runs of
  `approve_node` on one post that both insert a row are not modelled;
- one `poll_once` records one decision per post, in one transaction;
- the checkpoints of retry and publish-now threads are not kept, since no code
  resumes those threads;
- the LinkedIn API always returns an id with an accepted share;
- the SELECT and the commit of every other transaction are one step (`publish` has its
  guard and its mark in two).

### Runs

| Run | Configuration | Question | Bounds |
|---|---|---|---|
| `serial` | `PipelineSerial` | `TypeOK`, `PublicationInv`, `RejectionHonoured` | 2 rows, 2 shares, 2 faults, 1 fresh thread, 1 click, 1 slot, 1 run at a time; trigger, retry, publish now, decisions on pending approvals, delete |
| `one_crash` | `PipelineOneCrash` | `AtMostOnce` | 1 row, 2 shares, 1 fault (crash, exception or lost reply), 1 click, 2 slots, 1 run at a time; both decision routes, expiry, reschedule, delete, setting toggled |
| `race` | `PipelineRace` | `PublishedMeansRecorded`, `ConsentBeforePublish` | 1 row, 1 share, 2 concurrent runs (symmetric), 1 crash, 1 click, 1 slot; decisions by approval id, Sheet, expiry, delete |
| `live` | `PipelineLive` | `ScheduledLeaves`, `NotBeforeSlot` | 1 row, 2 slots, 2 clicks, 2 faults; decisions on pending approvals, setting toggled |
| `double_click` | `BugDoubleClick` | `AtMostOnce` is violated | 2 concurrent runs, 2 clicks, no fault |
| `late_reject` | `BugLateReject` | `RejectionIsFinal` is violated | 1 run at a time, 1 click, no fault |
| `retry_stuck` | `BugRetryStuck` | `ScheduledLeaves` is violated | 1 retry, no fault |

The largest, `race`, has 5.8 million distinct states; `serial` 2.7 million, `one_crash`
106 thousand, `live` 52 thousand.

The bounds are the smallest at which the hazards of section 10 can occur: two shares
are needed to see a duplicate, two runs to see a race on a row, two rows for the
UNIQUE index, two clicks for a decision whose look is stale, two slots for "not yet" and
"due" to differ after a reschedule, and one crash falls between every pair of steps. The
constant `Ops` names the requests and faults a run uses. A passing run leaves out the
requests that break its property: `serial` has one run at a time, `one_crash` one fault,
`race` no retry, because a retry starts a new attempt in the middle of another one's
publication, `live` no retry, which is finding 3. Section 9 gives, for
every condition, what happens without it. Deadlock is not checked: the server idles when
the bounds are used up.

### Fairness

`FairSpec` assumes weak fairness of each run's next step (asyncio runs every ready
task), of the scheduled-post job and its resumes (APScheduler fires it every interval
and `_safe_job` keeps it alive), of both steps of a delete's second transaction, and of
the clock.
Nothing is assumed of operators, of the Sheet, or of faults. `ScheduledLeaves` needs no
more: the row's slot comes, the job takes it up, and the resumed run moves it on; an
exception or a crash in between leaves the row to the next round of the job, and the
bound on faults stands for "not for ever".

## 4. The module `SlotScheduler`

| In the model | In the code |
|---|---|
| `status` | `posts.status` in three classes: failed or rejected, publishing or published, the rest |
| `booked` | `scheduled_date` and `scheduled_slot` of the row |
| `cfg` | the `schedule_config` row; `days` stands for weekdays and the date window |
| `now` | the local clock |
| `call` | an `assign_slot` call: settings and "today" read at its start, the day it looks at, the slot it found |
| `hist` | history only: what was free during the whole call, whether another post took a slot meanwhile (`crossed`), whether the post's own slot was taken that way (`raced`) |

`Begin` is the schedule node up to the loop, `LookFinds`, `LookNextDay` and
`LookRaises` are one turn of the loop each (one SELECT), `Commit` is the node's commit.
PostgreSQL shows each SELECT what others committed before it, so any other action may
fall in between. `Fail`, `Publish`, `Revive` (a late decision, or the status a retry
request writes before its run starts) and `Extract` are the effect on status and slot
of the handlers that `Pipeline` has in full; at most one schedule node runs per post.

| Run | Configuration | Question | Bounds |
|---|---|---|---|
| `slots` | `Slots` | `TypeOK`, `ClashesExplained`, `WithinLimit`, `NeverSkips` | 2 posts (symmetric), 2 days of 2 instants, 2 settings, every request |

Two posts make a clash and an overfull day, two days a roll-over, a midnight and a
search without result, two settings a change during a search. The theorems of section
9 lift the four properties to every size. Deadlock is not checked: without requests the
clock stops at its bound.

## 5. The module `Ingestion`

| In the model | In the code |
|---|---|
| `disk`, `copying`, `partial`, `created` | the content directory; what users copy there and which copies are not complete; watchdog events not yet handled |
| `folder`, `failing` | the Drive folder; `content_sources.last_error` of the one source |
| `rows` | `content_uploads`: name and path, hash, `external_id`, status, and whether a run has read the file |
| `call` | `upload_file` and `compose` (`Web`), `_register` (`Watch`), `poll_sources` (`Pollers`), between two awaits |
| `job`, `runs` | rows that `_poll_pending_uploads` holds uncommitted; tasks that have not read their file |
| `by`, `want`, `seen`, `starts` and `held` of a row | history only: the importer, what it had in hand, how many rows there were when it looked, how often a run was started, the bytes the row stood for since then |
| `lost`, `missed` | history only: rows that a fault stranded; files whose event came to nothing |

An importer is its awaits: `OnCreated`, `ReadFile`, `CheckHash`, `Insert`, `WriteUpload`
and, for Drive, `PollSources` (the listing without the known ids, in its order),
`CheckDrive`, `Insert`, `WriteDrive`. The handlers and the
Drive poller commit a row, then write the file. `PickUp` starts the tasks before
`PickUpCommit`. `Extract` reads by path and overwrites the row's hash, as `read_content`
does. `scalar_one_or_none` over two rows raises: an upload then fails, a poll ends and
sets `last_error` (`GiveUp`). Faults are a file that cannot be read (`ReadFails`: the
watcher returns and nothing looks at the file again), a statement or commit of an importer
that raises (`ImportFails`), failed writes and commits, an overlapping manual poll and a
crash, which loses tasks, coroutines and events and keeps tables and disk.

Run `ingestion`: two inputs among uploads, drops and Drive files, two contents, two
names (symmetric), two pollers (symmetric), one web call, one watcher coroutine, a batch
of one and one fault. Two inputs are what a duplicate, a shared name or a blocked poll
needs; the batch is smaller than two rows, so that the job can leave one behind. It shows

- `DuplicatesRaced`: two rows have the same bytes only if the second importer looked
  before the first one's row was there, or a run had found other bytes at the first one's
  path and replaced its hash (`held`);
- `DriveFileOnce`: a Drive file gets one row, whatever runs do to the hashes, unless two
  polls overlapped;
- `RightContent`: what a run reads and its importer did not have in hand is the content of
  another row of that name, or that of the user's copy, and the latter only if the row was
  registered while the copy was empty, came from an upload under that name, or shares the
  name with another row (`Replacement`);
- `MissingOnlyFromDrive`: only a Drive row may be run before its file is there;
- `RunOnce`: a second run of a row needs a failed commit or a crash;
- `NoUploadForgotten`, `NoDropForgotten`: what is left behind when all is quiet, and
  through which fault. Rows stranded in "processing" are not found again by any job. A
  dropped file is accounted for by a row of its name or of bytes it stood for (`held`);
  forgotten are the files, each by itself, whose event died in a crash, whose read or
  registration failed, or that were taken for the duplicate of another one while both were
  empty (`missed`).

It has 708,063 distinct states.

Files are never deleted or renamed in the model, sources are neither added nor disabled,
and the watcher's filters on names are not modelled. Deadlock is not checked: without
inputs the service idles.

## 6. The modules `ApprovalSync` and `ApprovalDelivery`

`ApprovalDelivery` is the promise: humans answer, deadlines pass, one atomic step
(`Record`) changes decisions for a reason, and a paused graph wakes once, with an answer
that was given or a timeout that was due. `ApprovalSync` is the code.

| In the model | In the code |
|---|---|
| `decision`, `overdue` | `approval_queue.decision`, `expires_at` in the past |
| `parked`, `outcome`, `stray` | the graph at `approve_node`'s interrupt; what woke it; resumes that found it elsewhere |
| `sheet` | the decision column: answer and `:synced` mark |
| `poll` | `poll_once`: expired approvals, entries to do, uncommitted writes, then the resumes |
| `direct` | background tasks of `POST /pipeline/approve` |
| `answers`, `asked`, `unmarked` | history only: answers given, what was asked, failed marks |
| `lost`, `unwoken` | history only: answers that a rollback or crash dropped behind their mark; graphs whose resume failed or died with the process |

`Expire`, `NotifyExpired`, `ReadDecisions`, `Record`, `Mark`, `Commit`, `ResumeActioned`
are the calls of the job in their order, and the entries of the Sheet are taken row by
row (`InOrder`); each call to Slack or Sheets may fail where the
code has or lacks a `try`. `Mark` writes to the first Sheet row with the id
(`worksheet.find`), outside the transaction. A row with an uncommitted UPDATE is locked
for the direct route.

A resume may come to nothing: `resume_pipeline_thread` swallows what `astream` raises,
before or after the commit of `approve_node` (`ResumeFails`), and a look-up of
`resume_pipeline_for_approval` that raises ends the job together with the resumes that
were still to come (`LookUpFails`). The task of the direct route can fail in both ways
(`ResumeDirectFails`). Nothing tries again: the decision is recorded by then.

Run `approval_sync`: two approvals and three Sheet rows. The id of the first approval is
typed in two rows; the second approval may be answered twice, in the Sheet or by the
direct route; one fault (a failed call, mark, commit or resume, or a crash). It checks the
refinement `ImplementsDelivery`; `SyncedMeansRecorded` and `ReplayExplained`; and, under
fairness, `AnswerDelivered` and `DeadlineDelivered`. `ReplayExplained` names four reasons
for a second resume: a second answer, a timeout after an answer, a failed mark, a
repeated id. Without any one of them the run finds a violation. `AnswerDelivered` and
`DeadlineDelivered` say that an answer or a deadline wakes its graph, whatever fails and is
tried again, unless the approval is in `lost` or `unwoken`. The run has 887,154 distinct
states. Deadlock is checked: the job always goes on.

Fairness: weak fairness of the job's steps (APScheduler fires it every interval,
`_safe_job` keeps it alive) and of every direct task (asyncio). Humans, deadlines and
faults owe nothing. Approvals are deemed enqueued and written to the Sheet: no code calls
`SheetsClient.append_row`, although the documents say that the Sheet is filled in.

## 7. The modules `PromptTemplates` and `LlmCalls`

`PromptTemplates` has a row per saved version, with the rank of its random id, and
requests that read twice (`SaveTemplate` or `ActivateTemplate`, then `ReadVersions`) and
flush (`Commit` or `Refuse`). The session keeps the first value it read of a row. The
flush updates changed rows in the order of their ids, inserts last, and the partial
unique index, which covers the whole table and not one name, is checked after each
statement (`IndexRefuses`). The row locks of two flushes are abstracted to one step.

`LlmCalls` extends it with the runs that spend:

| In the model | In the code |
|---|---|
| `run` | runs in progress: node, thread, and the channels `post_id`, `total_cost_usd`, `error` |
| `thread` | these channels in the last checkpoint of each thread `upload-<id>` |
| `post` | `posts.cost_usd`; as history, the sum of the row's `llm_costs` |
| `spent`, `calls` | the month's sum of `llm_costs`, their number |
| `drafts`; `mixed`, `retried` of a post, `dirty` of a run | history only: what transform spent; whether the costs of the post are in more than one total; calls in no checkpoint yet |

A second start of an upload (`Trigger`) goes on with what the thread's channels hold: the
same row, the same total, and an old error, which ends the run at `dedup`. A retry or
publish-now (`Retry`) takes the row to a thread of its own, with a total of zero. `Bill` is
`CostTracker.record` with the node's update of the post in one transaction; its total
reaches the thread with a later `Checkpoint`, which the next nodes do not wait for, with
the end of the run (`Finish`), or with the exception of a later node (`CallRaises`). A
crash or a failed write of the checkpoint loses it. A cost is any number up to `MaxCost`:
prices and tokens are left out. Only `transform_node` looks at the budget.

Run `llm`: two editors, two names, up to three versions, two runs, two posts, one upload,
six calls, budget and cost of one (editors, runs and posts symmetric). The constraint
`EditsOrCalls` of `MCLlmCalls` lets edits and calls meet where they interact, at the
prompt, and explores each at full size alone; with a retry, or a post whose costs are
mixed, it stops at two calls. 730,036 distinct states. It shows

- `ActiveUnlessClash`, `VersionsUnlessClash`: one active version and distinct numbers
  unless two requests overlapped. Overlapping activations can leave no active version,
  and then every transform fails;
- `RefusalsExplained`: an edit without overlap is refused only because the active
  template has another name, or because the version to roll back to has an id that sorts
  first. So `src/RUNBOOK.md:136`, "Roll back to any version", depends on random ids;
- `TransformOverdraft`: what transform records stays below budget plus one call per run.
  Sanitizer and validator spend without a check, so the "monthly ceiling" of
  `src/RUNBOOK.md:63` does not bound the month's total;
- `CostOfOneThread`: `posts.cost_usd` is the sum of the post's costs, however often its
  upload was started again and whatever a node raised, unless a retry or publish-now came
  beside other costs, two runs of the post overlapped, or a checkpoint was lost after a
  call. Without any one of the three the run finds a violation.

## 8. The modules `LinkedInClient` and `LogRing`

`LinkedInClient` has the worker threads of `publish_node` and of the delete handler.
`limiter` is `_RATE_LIMITER` (count, maximum, reset time, lock), `server` LinkedIn's own
count and window, `settings` the configured token and what became of its refresh token,
`call` a thread with its `LinkedInAuth`. `TakeToken`, `GoToSleep` (with the lock) and
`Wake` are `wait_if_needed`; `SendPost` builds the headers, and refreshes, after the wait;
`UpdateFromHeaders` needs the lock as well. Times are what is left until an instant and
`Tick` counts them down; a request takes less than a tick. `excuses` is history: how the
limiter lost track of LinkedIn's count.

`LogRing` has the ring (`ring`, `seq`), the Logs tab (cursor, level filter, lines) and
the polls in flight (`tick`), which the timer sends without waiting. `GetLogs`
(the matching records in order, cut to the newest page) and `LatestSeq` are the two reads
of the handler. `SetLevel` empties the box and polls at
once, as the event handler does. The text filter works like the level filter, the pause
button like a timer that does not fire: both are left out. `Restart` is a new process.

Run `services` explores both, one per behaviour (`subject` says which): two threads, four
operations, quota of two in a window of two, default of three, tokens of two ticks with a
margin of one; a ring of two, pages of one, three records of two levels, two polls in
flight, one reset or restart. The default above the quota lets the limiter be wrong, the
page below the ring lets a page be short. It shows

- `RefusalExplained`: a 429 needs a limiter that has read no headers, slept blindly, or
  took its count while a call was out; fresh headers put it right;
- `BearerValid`: with a known expiry and a refresh token every post is sent with a valid
  bearer, also after a long wait;
- `CallReturns`: whoever waits for the quota or for the lock returns;
- `ShownOnce`, `NothingSlips`: the tab shows a record once, in order, and misses none,
  unless polls overlapped, the process restarted, a page was short, or a thread logged
  between the two reads.

Fairness: weak fairness of each thread's step (operating system; every request has a
timeout) and of the clock. `Lock` need not be fair for it: the operations are bounded.
Deadlock is not checked: the threads idle when the bounds are used up.

## 9. What is proved

Every safety invariant and every action property that a passing run checks is also a
theorem, for every value of the constants that satisfies the named ASSUMEs of its module.
The four liveness properties (`ScheduledLeaves`, `AnswerDelivered`, `DeadlineDelivered`,
`CallReturns`) are only model-checked: the provers do not reason about fairness. The
bounds on requests, faults and time are constants, so the theorems hold for any of them.

Each proof has the same layout: types first, then an inductive invariant made of named
parts, one lemma per action or group of like actions, and a step lemma that combines them.
TLC has checked every inductive invariant on the configurations of the passing runs.

### `PipelineProofs`

For every number of posts, shares, runs, slots, threads, ticks and faults, every choice of
`Ops` and both approval settings:

- `TypeSound`: `Spec => []TypeOK`;
- `PublicationSound`: `Spec => []PublicationInv`;
- `PublishedSound`: `Spec => []PublishedMeansRecorded`.

`PublishedMeansRecorded` is not inductive: `finalize_node` writes the share id it finds in
the graph state, so that state has to be right before it gets there, also when it comes
back from a checkpoint. `PublicationInv` says so: rows only name shares of their own
post and no published row lacks one that has not lost it to an overlapping write
(`RowsSound`); a run about to record, or about to finalize as a live success, carries a
share of its own post (`RunsSound`); so does the checkpoint (`CkptSound`). The key is
`Sound`: the graph state at a node. New shares get new ids, hence what was sound stays
sound (`NewShare`). `PatchesSound` is about the transactions that are open: finalize's
changes bring a share of their post, or find one in the row, or the row has lost it since
the SELECT (`CommitSound`); a change that clears the id also takes the status away from
"published", unless a finalize has come in between (`ClearSound`).

The other four promises hold under operating conditions, not in general (section 11).
Each condition is a definition, the hypothesis of the theorem, and every part of it is
needed, with one exception: TLC finds the property violated when what the last column
names is allowed.

| Theorem | Property | Condition | What breaks the property |
|---|---|---|---|
| `ConsentSound` | `ConsentBeforePublish` | `ConsentRequired`: approval required throughout; no trigger, retry or publish now | the setting off or toggled; a retry, a trigger or a publish now beside another run |
| `SlotSound` | `NotBeforeSlot` | `SlotKept`: no trigger, retry or publish now; no reschedule | a reschedule after the release; a retry, a trigger or a publish now beside another run |
| `OnceSound` | `AtMostOnce` | `OnceKept`: one run at a time, one fault; no trigger, retry, publish now or Sheet | a second run, a second fault, the Sheet; a retry, a publish now; a trigger with a fault |
| `RejectionSound` | `RejectionHonoured` | `RejectionKept`: one run at a time, approval required throughout | a second run; with the setting off TLC finds no counterexample at these sizes, only the proof needs it on |

`ConsentSound` and `SlotSound` allow any number of concurrent runs and of crashes,
`RejectionSound` any number of crashes, restarts and retries. Under all four, decisions
come by either route, for any post, and are delivered at any later time; `SlotSound` and
`RejectionSound` except the posts that a decision released when the graph did not wait for
it ("stray" in `said`), which the code does not prevent (findings 2, 7 and 9). What runs,
handlers and jobs do to the fields that these proofs look at is stated once
(`StepEffects`), as a short list of effects; the invariants are proved for the effects.

- `StageInv` is shared by the first three. Before the gate (`Early`: the checkpoint stands
  before `approve_node`) there is one run, and nothing that could wake the thread; behind
  it every run works on the checkpoint's post. So the promises need not be argued for
  runs on different posts.
- `ConsentInv`: whoever is behind the gate, or about to wake a run that waits there with
  an approval (`Woken`), has the consent of a human (`Consented`).
- `SlotInv`: while the checkpoint stands at `approve_node` nobody is behind it, and no post
  is scheduled or due (`GateInv`); who is past `wait_for_slot`, or resumes a thread that
  waits there, does so when the slot has come (`OnTime`) or after a stray decision
  (`Strayed`): `TimeInv`.
- `OnceInv`: a run executes the node that the checkpoint names (`InStep`); a run of the
  first start goes past the gate only if nobody can resume the thread afterwards
  (`StartInv`); inside `publish_node` the row says "publishing" and names no share
  (`Covered`); a share that LinkedIn shows is named by the row, or about to be recorded, or
  the one fault is spent and the guard or the error stops everyone, or nobody will run the
  node again (`Accounted`). A second fault breaks exactly the third case (finding 4).
- `RejectionInv`: on the upload's thread only a post gets past the gate whose last word is
  not a rejection, or which a stray decision released (`Heard`): at the checkpoint, and for
  every run behind the gate or about to be let through (`Heeds`). A run of a retry cannot
  pass the gate (`FreshStops`). The first attempt at this proof failed in a state that TLC
  then reached: finding 7.

### `SlotSchedulerProofs`

For every finite set of posts, every horizon, day length, set of settings and choice of
`Ops`:

- `TypeSound`: `Spec => []TypeOK`;
- `ClashSound`: `Spec => []ClashesExplained`, and `LimitSound`: `Spec => WithinLimit`.
  Both follow from `ClashInv`: an undisturbed call that found a slot is alone on it
  (`FoundAlone`) and leaves its day room (`FoundRoom`). The steps fall in two kinds:
  nobody comes to hold a slot (`Untaken`, `QuietClash`), or one post does and every other
  call is marked as disturbed (`TakerClash`);
- `SearchSound`: `Spec => []NeverSkips`, from `SearchInv`: what is left of the slots that
  were free since the call began is free now and not behind the day it looks at, and
  `AvailableIsFree` says that the code's test for a day agrees with that.

### `IngestionProofs`

For any files, contents, names, callers, batch size, inputs and faults: `IngestionTypesSound`,
`DuplicatesSound`, `DriveOnceSound`, `ContentSound`, `FoundSound`, `RunOnceSound`,
`UploadsSound`, `DropsSound`, one for each property of section 5. The types come with what
an importer has in hand at each of its awaits (`CallInv`) and what a copy in progress is
(`CopyInv`). Over them:

- `FoundInv`: a row that may be run, and did not come from Drive, has its file;
- `FileInv` adds when a file can be empty: while a user copies it and nobody else has written
  it (`Copies`), so that no run finds an empty file unless its row was registered empty
  (`Held`, `Fresh`, `Watched`);
- `ContentInv`: what is in a file came from the user's copy or from a row of its name
  (`Sources`, `Provenance`), and the three properties about contents (`Table`); what a
  look-up established about the rows it saw still holds when the insert comes (`Looks`). The
  code checks first and inserts later, so the invariant is about the rows that were there at
  the check and leaves the later ones to `DuplicatesRaced`;
- `RunInv`: an unread row is lost, about to run, pending, or its handler is still writing;
  rows the job does not hold were started at most once per fault. It carries
  `NoUploadForgotten`;
- `DropInv`: every file was noticed: it has a row, an event, a watcher at work on it, bytes
  that a row stood for, or it was missed for one of the reasons named (`Noticed`).

The proof of `DropsSound` showed that a first version of `NoDropForgotten` was too strong:
a row's hash may be overwritten after the file was taken for its duplicate. The history
`held` is what the property needs to say so.

### `ApprovalSyncProofs`

For any finite set of approvals, any Sheet (repeated ids included), any number of answers
and faults:

- `SyncTypesSound`: types, with the parts of a poll at each point of its progress (`PollInv`);
- `SyncImplements`: `Spec => ImplementsDelivery`. `ReasonInv` says that whatever waits
  anywhere in the job (expired, to do, written, to be resumed, sent to the direct route) was
  asked by a human or is a timeout that was due. With it every step of the code is a step of
  `ApprovalDelivery` or a stutter: `Commit` is `Record`, each resume is `Wake` or, when the
  graph has moved on, nothing;
- `SyncedSound`: `SyncedMeansRecorded`, together with "a pending approval has a parked graph";
- `ReplaySound`: `ReplayExplained`, from `TokenInv`: for an approval with none of the four
  reasons (`Clean`) at most one resume is waiting (`Single`), in one place (`Separate`), and
  then the graph is still parked. The token goes from the Sheet's row through the poll's
  lists to the resume, and a crash or rollback puts it back.

### `LlmCallsProofs`

For any number of editors, names, versions, runs, any budget and prices: types,
`ActiveSound`, `VersionsSound`, `RefusalsSound`, `OverdraftSound`, `CostSound`.

- `EditsInv`: what an undisturbed request knows of the table is still so (`Accurate`);
  `TemplatesInv` adds that at most one row is active. `TemplatesOfCalls`
  (`LlmSpec => TemplatesSpec`) carries the three theorems about templates over to the
  composition with the runs.
- `DraftInv`: what was spent on drafts plus one call for each run between its look at the
  budget and its bill stays below the budget plus one call per run.
- `CostInv`: runs and threads belong to the upload of their post and carry no total without
  one (`RunRooted`, `ThreadRooted`); what was recorded for a post whose costs are in one
  thread is the total of its one run, and of its thread unless that run has not saved its
  last call or a retry has left the thread behind (`Costs`).

### `LinkedInClientProofs` and `LogRingProofs`

For any finite set of threads, quota, default, window, token life and margin:
`ClientTypesSound` (with `Locked`: who sleeps holds the lock, and `Bounded`: the limiter's
count goes below zero by no more than the calls still to come), `RefusalSound` and
`BearerSound`. `QuotaInv` is the conservation law behind the first: while nothing has made
the limiter lose track, what it would still let through and what is on its way fit in what
is left of LinkedIn's window (`Tracked`). `TokenInv` says that a token is never believed to
live longer than it does (`Honest`), in the settings and in the copy of each thread.

For any capacity, page, number of polls and of records: `LogTypesSound`, `ShownSound`,
`SlipsSound`. The ring holds consecutive records (`Consecutive`), polls that do not overlap
ask for what follows the cursor (`Asking`), the box ends and a page begins there (`InBox`,
`OnPage`, `Answered`), and an answer holds what its cursor passes (`Complete`).

### `SelectionProofs`

Three models go through a set of positions in order (the open entries of the Sheet, the
new files of a Drive listing, the matching records of the ring). `InOrder` is their
operator, and `InOrderEnumerates` the lemma the proofs cite: it enumerates the set, without
repetition, in increasing order. It rests on the existence of least and greatest elements of
a finite set of naturals (`Least`, `Greatest`).

### Assumptions

The ASSUMEs are on constants only. Counts, capacities, quotas and bounds are naturals,
positive where nothing would work at zero; the posts of `SlotScheduler`, the runs of
`LlmCalls`, threads and approvals are finite sets; settings and requests are drawn from
those the code has; the local names of Drive files (`gdrive-...`) are not names that users
pick, the sets of callers are disjoint, and markers for "none" are not data. TLC evaluates
the ASSUMEs of a module on every run of it.


## 10. Hazards

`PROJECT.json` lists them with the line where each one bites and the property that
would catch it. The largest group are reads that are stale when used: `publish_node`'s
guards, the row that `finalize_node` read, `post_decision`'s pending row, the scheduled
job's list, the channels of an earlier run on a re-triggered thread, the hash look-ups
of the importers, the budget. The second are writes outside a transaction that stands for
them: the `:synced` mark, the file after its row, the task before its commit. The third are
failures that nothing repeats: a resume that raises, an event whose file cannot be read.

Where the code does not prevent a hazard, the property says that it is the only way to the
bad state, and names it as an exception; the hazard's "note" says so. What remains to be
checked then is that every other interleaving is right, and that the exception is no wider
than the race.

One more is visible by reading: `install_ring_handler` (`log_store.py:106`) rebinds `RING`
when `log_buffer_size` is not 2000, and modules that imported it keep the old object.

## 11. Findings

Three runs show a property violated that the code, a comment or the runbook claims:

1. *Two decisions on one pending approval publish twice* (`double_click`). The decision
   route checks for a pending row without consuming it, and `publish_node` checks the
   row and marks it without a lock.
2. *A late rejection publishes the post* (`late_reject`). After the approval the graph
   stands at `wait_for_slot`, whose `interrupt()` takes any value. The same mechanism
   releases an approved post before its slot when it is approved again.
3. *A retried post waits for ever* (`retry_stuck`). The job resumes `upload-<id>`; the
   retry paused on a thread of its own. The same holds for its approval.

Six more configurations are kept beside them and reproduce a counterexample each; the
passing runs check the conditional form of the same claim:

4. *Fail closed does not survive a second crash* (`BugTwoCrashes.cfg` with `MCPipeline`,
   `AtMostOnce`). The guard replaces "publishing" by "failed" before its checkpoint is
   saved; re-executed, it sees "failed" and publishes. `one_crash` passes.
5. *A delete is undone by a run that finalizes* (`BugDeleteRace.cfg` with `MCPipeline`,
   `PublishedIsLive`). `race` checks `PublishedMeansRecorded` with deletes.
6. *Concurrent runs take the same slot* (`SlotsDoubleBooked.cfg` with `MCSlotScheduler`,
   `NoDoubleBooking`). The occupied slots are read before the slot is written, without a
   lock or a unique index. `slots` checks `ClashesExplained`.
7. *A decision on one post is taken for the answer on another*
   (`BugCrossedDecision.cfg` with `MCPipeline`, `NeverCrossed`).
   `resume_pipeline_for_approval` (`pipeline/resume.py:51`) resumes `upload-<id>` whatever
   thread the post paused on. The upload's own post waits there; the approval of a retry of
   another row then resumes that thread, and approves the wrong post. The proof of
   `RejectionSound` led to it; `RejectionHonoured` excepts what such a decision releases.
8. *A published row loses its id* (`BugFinalizeRace.cfg` with `MCPipeline`,
   `PublishedHasShare`). `finalize_node` reads the row, a delete commits "rejected" and an
   empty id, and finalize's commit sends the status alone (`finalize.py:24-46`,
   `dashboard.py:466-470`). `race` checks `PublishedMeansRecorded`.
9. *A second click releases a post before its slot* (`BugSecondClick.cfg` with
   `MCPipeline`, `NeverEarly`). Both clicks find the approval pending; the first resume
   takes the graph to `wait_for_slot`, whose interrupt takes the second one for "go". `live`
   checks `NotBeforeSlot`, which excepts it.

The other properties with an exception in their statement (sections 3 and 5 to 8) name what
the code does not prevent: stranded uploads, dropped decisions, refused roll-backs.

## 12. Not modelled

- Configuration, secrets, database engine, metrics, tracing: start-up wiring, without
  state that interleaves with anything.
- Extraction of text, the S3 client, the rules of sanitizer and validator, rendering of
  prompts: pure functions or input and output; their failures are `NodeRaises`,
  `CallRaises` and the verdicts.
- Read-only listings, media files, source administration and the ops buttons of the
  dashboard; every page of the web interface but the Logs tab, since the others only send
  requests that are actions of the models.
- The `logs` table: `log_event` swallows every failure and nobody reads the table to
  decide anything.
- Kubernetes manifests and one-shot scripts, except that the seed of the first template
  is the initial state of `PromptTemplates`.
