------------------------------ MODULE Ingestion ------------------------------
(***************************************************************************)
(* How content becomes content_uploads rows and runs of the pipeline: the  *)
(* HTTP handlers upload and compose, the folder watcher, the Drive poller  *)
(* and the pending-uploads job, over one folder on disk.                   *)
(*                                                                         *)
(* Every importer looks for the content hash, then inserts a row, with     *)
(* awaits in between and no UNIQUE index behind it; the handlers and the   *)
(* poller commit the row before they write the file.  A run reads the file *)
(* by its path and overwrites content_hash with what it found.             *)
(***************************************************************************)
EXTENDS Naturals, Sequences, FiniteSets, SequencesExt, Selection

CONSTANTS
    Contents,     \* what a file can hold
    UserNames,    \* file names that users choose
    DriveFiles,   \* files that may appear in the Drive folder
    FileName,     \* FileName[f]: the local name gdrive-... of Drive file f
    FileContent,  \* FileContent[f]: what Drive file f holds
    Web,          \* HTTP calls of upload and compose in progress at once
    Watch,        \* coroutines of the watcher in progress at once
    Pollers,      \* poll_sources: the job, and POST /sources/poll
    Batch,        \* .limit(5) of the pending-uploads job
    MaxInputs,    \* bound: files that users submit, drop or add to Drive
    MaxFaults     \* bound: crashes, failed reads, writes and statements, overlapping polls

Names   == UserNames \cup {FileName[f] : f \in DriveFiles}
Callers == Web \cup Watch \cup Pollers

Empty  == "empty"     \* content of a file created but not yet copied
Absent == "absent"    \* no such file, no such content
None   == "none"      \* NULL external_id
Unread == "unread"

ASSUME FilesAssumption ==
    /\ DOMAIN FileName = DriveFiles /\ FileContent \in [DriveFiles -> Contents]
    /\ \A f \in DriveFiles : FileName[f] \notin UserNames
    /\ {Empty, Absent, Unread} \cap Contents = {} /\ None \notin DriveFiles
ASSUME CallersAssumption ==
    Web \cap Watch = {} /\ Web \cap Pollers = {} /\ Watch \cap Pollers = {}
ASSUME BoundsAssumption ==
    Batch \in Nat \ {0} /\ MaxInputs \in Nat /\ MaxFaults \in Nat

VARIABLES
    disk,     \* the content directory
    copying,  \* what the users' copies hold when they are complete
    partial,  \* copies that are not complete
    created,  \* watchdog events not yet handled
    folder,   \* the Drive folder, in the order files.list returns it
    rows,     \* content_uploads, in the order of insertion
    call,     \* the importers
    job,      \* uploads the pending-uploads job holds uncommitted
    runs,     \* rows whose pipeline run has been started and has read nothing
    failing,  \* content_sources.last_error is set
    inputs, faults,
    lost,     \* history: rows whose run or file a fault took away
    missed    \* history: files whose event came to nothing: it died in a crash, the
              \* registration failed, or the file was empty and so was another one's row

vars == <<disk, copying, partial, created, folder, rows, call, job, runs, failing,
          inputs, faults, lost, missed>>

-----------------------------------------------------------------------------
(* Types *)

Bytes == Contents \cup {Empty}
\* by, want, held, seen and starts are history: who imported the row, with which
\* content in hand, the contents whose hash the row has had, the number of rows
\* when the importer looked for duplicates, the runs started.
Upload == [name : Names, by : {"handler", "watcher", "poller"}, hash : Bytes, want : Bytes, held : SUBSET Bytes,
           ext : DriveFiles \cup {None}, status : {"pending", "processing"},
           got : Bytes \cup {Unread, Absent}, seen : Nat, starts : Nat]
Call == [pc : {"idle", "read", "check", "insert", "write"}, name : Names \cup {None},
         content : Bytes \cup {Absent}, todo : Seq(DriveFiles), seen : Nat, id : Nat]
NoCall == [pc |-> "idle", name |-> None, content |-> Absent, todo |-> <<>>,
           seen |-> 0, id |-> 0]

Ids == 1 .. Len(rows)

TypeOK ==
    /\ disk \in [Names -> Bytes \cup {Absent}]
    /\ copying \in [Names -> Contents \cup {Absent}]
    /\ partial \subseteq Names
    /\ created \subseteq Names
    /\ folder \in Seq(DriveFiles)
    /\ rows \in Seq(Upload)
    /\ call \in [Callers -> Call]
    /\ job \subseteq Ids
    /\ runs \subseteq Ids
    /\ failing \in BOOLEAN
    /\ inputs \in 0 .. MaxInputs
    /\ faults \in 0 .. MaxFaults
    /\ lost \subseteq Ids
    /\ missed \subseteq Names

Init ==
    /\ disk = [n \in Names |-> Absent]
    /\ copying = [n \in Names |-> Absent]
    /\ partial = {}
    /\ created = {}
    /\ folder = <<>>
    /\ rows = <<>>
    /\ call = [k \in Callers |-> NoCall]
    /\ job = {}
    /\ runs = {}
    /\ failing = FALSE
    /\ inputs = 0
    /\ faults = 0
    /\ lost = {}
    /\ missed = {}

-----------------------------------------------------------------------------
(* Helpers *)

At(k, pc)  == call[k].pc = pc
Set(k, c)  == call' = [call EXCEPT ![k] = c]
Finish(k)  == Set(k, NoCall)
Arrives    == inputs < MaxInputs /\ inputs' = inputs + 1
Fault      == faults < MaxFaults /\ faults' = faults + 1

diskVars == <<disk, copying, partial, created>>
worldVars == <<folder, inputs, missed>>
runVars  == <<job, runs>>

WithHash(c) == {i \in Ids : rows[i].hash = c}
Pending     == {i \in Ids : rows[i].status = "pending"}

\* write_bytes(dest): watchdog reports a file only when it is new.
WriteFile(n, c) ==
    /\ disk' = [disk EXCEPT ![n] = c]
    /\ created' = IF disk[n] = Absent THEN created \cup {n} ELSE created
    /\ UNCHANGED <<copying, partial>>

-----------------------------------------------------------------------------
(* The users *)

\* A file is copied into the watched folder: it exists before it is complete.
Drop(n, c) ==
    /\ disk[n] = Absent /\ Arrives
    /\ disk' = [disk EXCEPT ![n] = Empty]
    /\ created' = created \cup {n}
    /\ copying' = [copying EXCEPT ![n] = c]
    /\ partial' = partial \cup {n}
    /\ UNCHANGED <<folder, missed, runVars, rows, call, failing, faults, lost>>

Copied(n) ==
    /\ n \in partial
    /\ disk' = [disk EXCEPT ![n] = copying[n]]
    /\ partial' = partial \ {n}
    /\ UNCHANGED <<worldVars, runVars, copying, created, rows, call, failing, faults, lost>>

\* Somebody adds a file to the Drive folder.
AddToDrive(f) ==
    /\ ~Contains(folder, f) /\ Arrives
    /\ folder' = Append(folder, f)
    /\ UNCHANGED <<diskVars, runVars, rows, call, failing, missed, faults, lost>>

-----------------------------------------------------------------------------
(* The importers: look up the hash, insert, write *)

\* POST /pipeline/upload and /compose: the body has been read.
Submit(k, n, c) ==
    /\ At(k, "idle") /\ Arrives
    /\ Set(k, [NoCall EXCEPT !.pc = "check", !.name = n, !.content = c])
    /\ UNCHANGED <<diskVars, runVars, folder, missed, rows, failing, faults, lost>>

\* on_created and the first SELECT of _register: one row of that name ends it,
\* several raise.
OnCreated(k, n) ==
    /\ At(k, "idle") /\ n \in created
    /\ created' = created \ {n}
    /\ IF \E i \in Ids : rows[i].name = n
         THEN UNCHANGED call
         ELSE Set(k, [NoCall EXCEPT !.pc = "read", !.name = n])
    /\ UNCHANGED <<disk, copying, partial, worldVars, runVars, rows, failing, faults, lost>>

\* Mutant: a file that is still empty is ignored.
MutReadFile(k) ==
    /\ At(k, "read")
    /\ IF disk[call[k].name] = Empty THEN Finish(k)
       ELSE Set(k, [call[k] EXCEPT !.pc = "check", !.content = disk[call[k].name]])
    /\ UNCHANGED <<diskVars, worldVars, runVars, rows, failing, faults, lost>>

\* _register reads whatever the file holds by now.
ReadFile(k) ==
    /\ At(k, "read")
    /\ Set(k, [call[k] EXCEPT !.pc = "check", !.content = disk[call[k].name]])
    /\ UNCHANGED <<diskVars, worldVars, runVars, rows, failing, faults, lost>>

\* Mutant: the SELECT by hash is forgotten.
MutCheckHash(k) ==
    /\ At(k, "check") /\ k \notin Pollers
    /\ Set(k, [call[k] EXCEPT !.pc = "insert", !.seen = Len(rows)])
    /\ UNCHANGED <<diskVars, worldVars, runVars, rows, failing, faults, lost>>

\* upload, compose, _register: SELECT by hash.  One row means a duplicate (409
\* or a silent return); two rows make scalar_one_or_none raise.
CheckHash(k) ==
    /\ At(k, "check") /\ k \notin Pollers
    /\ IF WithHash(call[k].content) = {}
         THEN /\ Set(k, [call[k] EXCEPT !.pc = "insert", !.seen = Len(rows)])
              /\ UNCHANGED missed
         ELSE /\ Finish(k)
              /\ missed' = IF k \in Watch /\ call[k].content = Empty
                             THEN missed \cup {call[k].name} ELSE missed
    /\ UNCHANGED <<diskVars, folder, inputs, runVars, rows, failing, faults, lost>>

\* An import ends with an exception before its row is there: a handler answers
\* 500, a poll is marked as failed and tried again, a dropped file is forgotten.
GiveUp(k) ==
    /\ Fault
    /\ missed' = IF k \in Watch THEN missed \cup {call[k].name} ELSE missed
    /\ failing' = (failing \/ k \in Pollers)
    /\ Finish(k)
    /\ UNCHANGED <<diskVars, folder, inputs, runVars, rows, lost>>

\* _register: the SELECT by name raises, or read_bytes does and OSError returns.
ReadFails(k) == At(k, "read") /\ GiveUp(k)

\* The SELECT by hash, the INSERT or its commit raises.
ImportFails(k) ==
    /\ At(k, "check") \/ At(k, "insert")
    /\ k \in Pollers => call[k].todo # <<>>
    /\ GiveUp(k)

Origin(k) == IF k \in Web THEN "handler" ELSE IF k \in Watch THEN "watcher" ELSE "poller"

\* Mutant: the handlers leave their row to the job, too.
MutNewRow(k) ==
    [name |-> call[k].name, by |-> Origin(k), hash |-> call[k].content, want |-> call[k].content,
     held |-> {call[k].content}, ext |-> IF k \in Pollers THEN Head(call[k].todo) ELSE None,
     status |-> "pending", got |-> Unread, seen |-> call[k].seen, starts |-> 0]

\* INSERT and commit.  The watcher's and the poller's rows wait for the
\* pending-uploads job; the handlers start the run themselves.
NewRow(k) ==
    [name |-> call[k].name, by |-> Origin(k), hash |-> call[k].content, want |-> call[k].content,
     held |-> {call[k].content}, ext |-> IF k \in Pollers THEN Head(call[k].todo) ELSE None,
     status |-> IF k \in Web THEN "processing" ELSE "pending",
     got |-> Unread, seen |-> call[k].seen, starts |-> 0]

Insert(k) ==
    /\ At(k, "insert")
    /\ rows' = Append(rows, NewRow(k))
    /\ IF k \in Watch
         THEN Finish(k)
         ELSE Set(k, [call[k] EXCEPT !.pc = "write", !.id = Len(rows) + 1])
    /\ UNCHANGED <<diskVars, worldVars, runVars, failing, faults, lost>>

\* Run task of row i is created.
Started(i) == rows' = [rows EXCEPT ![i] = [@ EXCEPT !.starts = rows[i].starts + 1]]

\* upload, compose: write the file, add the background task, answer.
WriteUpload(k) ==
    /\ At(k, "write") /\ k \in Web
    /\ WriteFile(call[k].name, call[k].content)
    /\ runs' = runs \cup {call[k].id}
    /\ Started(call[k].id)
    /\ Finish(k)
    /\ UNCHANGED <<worldVars, job, failing, faults, lost>>

\* write_bytes raises: the row stays "processing" and nothing will run it.
WriteUploadFails(k) ==
    /\ At(k, "write") /\ k \in Web /\ Fault
    /\ lost' = lost \cup {call[k].id}
    /\ Finish(k)
    /\ UNCHANGED <<diskVars, worldVars, runVars, rows, failing>>

-----------------------------------------------------------------------------
(* The Drive poller *)

Known == {rows[i].ext : i \in Ids}
NextFile(k) == [NoCall EXCEPT !.pc = "check", !.todo = Tail(call[k].todo)]

\* poll_sources and fetch_new: the known ids, then the files that are not.  The
\* job's polls do not overlap; POST /sources/poll may overlap with anything.
PollSources(k) ==
    /\ At(k, "idle") /\ k \in Pollers
    /\ LET new == InOrder({i \in DOMAIN folder : folder[i] \notin Known})
       IN  /\ new # <<>>
           /\ Set(k, [NoCall EXCEPT !.pc = "check", !.todo = [i \in DOMAIN new |-> folder[new[i]]]])
    /\ IF \A q \in Pollers : At(q, "idle") THEN UNCHANGED faults ELSE Fault
    /\ UNCHANGED <<diskVars, worldVars, runVars, rows, failing, lost>>

\* Mutant: only the hash is compared.
MutMatching(f) == WithHash(FileContent[f])

Matching(f) == {i \in Ids : rows[i].ext = f} \cup WithHash(FileContent[f])

\* One file: a match is skipped, two matches raise out of _poll_gdrive and
\* leave the files behind it to the next poll.
CheckDrive(k) ==
    /\ At(k, "check") /\ k \in Pollers /\ call[k].todo # <<>>
    /\ LET f == Head(call[k].todo)
           n == Cardinality(Matching(f))
       IN  /\ IF n = 0
                THEN Set(k, [call[k] EXCEPT !.pc = "insert", !.name = FileName[f],
                                !.content = FileContent[f], !.seen = Len(rows)])
                ELSE IF n = 1 THEN Set(k, NextFile(k)) ELSE Finish(k)
           /\ failing' = (failing \/ n > 1)
    /\ UNCHANGED <<diskVars, worldVars, runVars, rows, faults, lost>>

\* The row is committed, now the file is written.
WriteDrive(k) ==
    /\ At(k, "write") /\ k \in Pollers
    /\ WriteFile(call[k].name, call[k].content)
    /\ Set(k, NextFile(k))
    /\ UNCHANGED <<worldVars, runVars, rows, failing, faults, lost>>

\* write_bytes raises: the poll ends, the row's external_id is known for ever.
WriteDriveFails(k) ==
    /\ At(k, "write") /\ k \in Pollers /\ Fault
    /\ lost' = lost \cup {call[k].id}
    /\ failing' = TRUE
    /\ Finish(k)
    /\ UNCHANGED <<diskVars, worldVars, runVars, rows>>

\* Every file went through: _mark_source(error=None).
PollDone(k) ==
    /\ At(k, "check") /\ k \in Pollers /\ call[k].todo = <<>>
    /\ failing' = FALSE
    /\ Finish(k)
    /\ UNCHANGED <<diskVars, worldVars, runVars, rows, faults, lost>>

-----------------------------------------------------------------------------
(* The pending-uploads job and the runs *)

\* Mutant: the rows are marked but their tasks are not created.
MutPickUp(S) ==
    /\ job = {} /\ S # {} /\ S \subseteq Pending
    /\ Cardinality(S) <= Batch
    /\ job' = S
    /\ UNCHANGED <<diskVars, worldVars, runs, rows, call, failing, faults, lost>>

\* SELECT ... LIMIT without an order; the tasks start before the commit.
PickUp(S) ==
    /\ job = {} /\ S # {} /\ S \subseteq Pending
    /\ Cardinality(S) <= Batch
    /\ S # Pending => Cardinality(S) = Batch
    /\ job' = S
    /\ runs' = runs \cup S
    /\ rows' = [i \in Ids |-> IF i \in S
                  THEN [rows[i] EXCEPT !.starts = rows[i].starts + 1] ELSE rows[i]]
    /\ UNCHANGED <<diskVars, worldVars, call, failing, faults, lost>>

\* Mutant: the job commits a status of its own.
MutPickUpCommit ==
    /\ job # {}
    /\ rows' = [i \in Ids |-> IF i \in job
                  THEN [rows[i] EXCEPT !.status = "started"] ELSE rows[i]]
    /\ job' = {}
    /\ UNCHANGED <<diskVars, worldVars, runs, call, failing, faults, lost>>

\* Mutant: the job forgets to change the status.
MutPickUpKeeps ==
    /\ job # {} /\ job' = {}
    /\ UNCHANGED <<diskVars, worldVars, runs, rows, call, failing, faults, lost>>

PickUpCommit ==
    /\ job # {}
    /\ rows' = [i \in Ids |-> IF i \in job
                  THEN [rows[i] EXCEPT !.status = "processing"] ELSE rows[i]]
    /\ job' = {}
    /\ UNCHANGED <<diskVars, worldVars, runs, call, failing, faults, lost>>

\* The commit fails: the rows stay pending although their tasks are running.
PickUpFails ==
    /\ job # {} /\ Fault
    /\ job' = {}
    /\ UNCHANGED <<diskVars, worldVars, runs, rows, call, failing, lost>>

\* Mutant: the run reads the file of the newest row.
MutExtract(i) ==
    /\ i \in runs
    /\ LET c == disk[rows[Len(rows)].name]
       IN  rows' = [rows EXCEPT ![i] = [@ EXCEPT !.got = c, !.held = @ \cup ({c} \ {Absent})]]
    /\ runs' = runs \ {i}
    /\ UNCHANGED <<diskVars, worldVars, job, call, failing, faults, lost>>

\* extract_node, read_content: read storage_path, store the hash of what it holds.
Extract(i) ==
    /\ i \in runs
    /\ LET c == disk[rows[i].name]
       IN  rows' = [rows EXCEPT ![i] =
                      [@ EXCEPT !.got = c, !.hash = IF c = Absent THEN rows[i].hash ELSE c,
                                !.held = rows[i].held \cup ({c} \ {Absent})]]
    /\ runs' = runs \ {i}
    /\ UNCHANGED <<diskVars, worldVars, job, call, failing, faults, lost>>

\* The process dies and starts again.  Tables and disk survive; the observer
\* reports new files only, and nothing looks for rows left "processing".
Crash ==
    /\ Fault
    /\ missed' = missed \cup created
                        \cup {call[k].name : k \in {w \in Watch : ~At(w, "idle")}}
    /\ lost' = lost \cup {i \in runs : rows[i].status = "processing"}
                    \cup {call[k].id : k \in {c \in Callers : At(c, "write")}}
    /\ created' = {}
    /\ call' = [k \in Callers |-> NoCall]
    /\ runs' = {} /\ job' = {}
    /\ UNCHANGED <<disk, copying, partial, folder, inputs, rows, failing>>

Next ==
    \/ \E n \in UserNames, c \in Contents : Drop(n, c)
    \/ \E n \in UserNames : Copied(n)
    \/ \E f \in DriveFiles : AddToDrive(f)
    \/ \E k \in Web, n \in UserNames, c \in Contents : Submit(k, n, c)
    \/ \E k \in Watch, n \in Names : OnCreated(k, n)
    \/ \E k \in Callers : \/ ReadFile(k) \/ CheckHash(k) \/ Insert(k)
                          \/ ReadFails(k) \/ ImportFails(k)
                          \/ WriteUpload(k) \/ WriteUploadFails(k)
                          \/ PollSources(k) \/ CheckDrive(k) \/ WriteDrive(k)
                          \/ WriteDriveFails(k) \/ PollDone(k)
    \/ \E S \in SUBSET Pending : PickUp(S)
    \/ PickUpCommit \/ PickUpFails
    \/ \E i \in Ids : Extract(i)
    \/ Crash

Spec == Init /\ [][Next]_vars

-----------------------------------------------------------------------------
(* Properties *)

\* Two rows for the same bytes exist only if the second importer looked before
\* the first one's row was there, or a run had found other bytes at the first
\* one's path and replaced its hash.
DuplicatesRaced ==
    \A i, j \in Ids : i < j /\ rows[i].want = rows[j].want
        => rows[j].seen < i \/ rows[i].held # {rows[i].want}

\* A Drive file gets one row, whatever runs do to the hashes, unless two polls
\* overlapped between look-up and insert.
DriveFileOnce ==
    \A i, j \in Ids : i < j /\ rows[i].ext = rows[j].ext /\ rows[i].ext # None
        => rows[j].seen < i

NameTaken(i) == \E j \in Ids \ {i} : rows[j].name = rows[i].name

\* What a run may find at the path of row i other than what its importer had:
\* the bytes of another row of that name, or those of the user's copy, if row i
\* was registered while that copy was empty or is not the only one to use its name.
Replacement(i, c) ==
    \/ \E j \in Ids \ {i} : rows[j].name = rows[i].name /\ rows[j].want = c
    \/ /\ c = copying[rows[i].name]
       /\ rows[i].want = Empty \/ rows[i].by = "handler" \/ NameTaken(i)

\* A run reads, and stores the hash of, what its importer had in hand, or a
\* replacement; a file that the watcher alone registered differs only if it was
\* incomplete, and then the run reads it complete.
RightContent ==
    \A i \in Ids : \A c \in rows[i].held \ {rows[i].want} : Replacement(i, c)

\* Only a Drive file's run can find no file: its row is pending before the file
\* is written.  Uploads and dropped files are on disk when their run starts.
MissingOnlyFromDrive ==
    \A i \in Ids : rows[i].got = Absent => rows[i].ext # None

\* An upload is run once; again only when the job's commit failed or a crash
\* came between its tasks and its commit.
RunOnce == \A i \in Ids : rows[i].starts <= 1 + faults

\* Nothing is going on: no copy, event, importer, job or run.
Quiet ==
    /\ partial = {} /\ created = {} /\ job = {} /\ runs = {} /\ Pending = {}
    /\ \A k \in Callers : At(k, "idle")

\* When all is quiet every row has been read by a run, except those that a
\* fault stranded in "processing".
NoUploadForgotten ==
    Quiet => \A i \in Ids : rows[i].got # Unread \/ i \in lost

\* When all is quiet every file in the folder has a row of its name or holds
\* bytes that some row stood for when the file came in or later, except files
\* whose event came to nothing in a crash, in a failed registration, or because
\* they were read while empty and taken for a duplicate of another empty file.
NoDropForgotten ==
    Quiet => \A n \in Names : disk[n] # Absent =>
        n \in missed \/ \E i \in Ids : rows[i].name = n \/ disk[n] \in rows[i].held

=============================================================================
