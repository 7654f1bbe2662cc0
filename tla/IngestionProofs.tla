---------------------------- MODULE IngestionProofs ----------------------------
(***************************************************************************)
(* The importers, the watcher, the pollers and the pending-uploads job, for *)
(* any files, callers, inputs and faults.                                   *)
(***************************************************************************)
EXTENDS Ingestion, SelectionProofs, SequenceTheorems

-----------------------------------------------------------------------------
(* Types, and what an importer has in its hands at each step *)

HasRow(n) == \E i \in Ids : rows[i].name = n

Holding(k) ==
    /\ k \in Web =>
         /\ call[k].pc \in {"idle", "check", "insert", "write"}
         /\ ~At(k, "idle") => call[k].name \in UserNames /\ call[k].content \in Contents
    /\ k \in Watch =>
         /\ call[k].pc \in {"idle", "read", "check", "insert"}
         /\ ~At(k, "idle") => call[k].name \in Names /\ disk[call[k].name] # Absent
         /\ call[k].pc \in {"check", "insert"} => call[k].content \in Bytes
    /\ k \in Pollers =>
         /\ call[k].pc \in {"idle", "check", "insert", "write"}
         /\ call[k].pc \in {"insert", "write"} =>
              /\ call[k].todo # <<>> /\ call[k].name = FileName[Head(call[k].todo)]
              /\ call[k].content = FileContent[Head(call[k].todo)]
    /\ At(k, "write") =>
         /\ call[k].id \in Ids
         /\ rows[call[k].id].name = call[k].name /\ rows[call[k].id].want = call[k].content

CallInv == /\ \A k \in Callers : Holding(k)
           /\ \A n \in created : disk[n] # Absent

\* A user's copy is of a user's name, and its file is there.
CopyInv == /\ \A n \in Names : copying[n] # Absent => n \in UserNames /\ disk[n] # Absent
           /\ \A n \in partial : copying[n] # Absent

TypeInv == TypeOK /\ CallInv /\ CopyInv

\* What the constants say of names, contents and callers.
LEMMA Data ==
  /\ UserNames \subseteq Names /\ Contents \subseteq Bytes
  /\ \A f \in DriveFiles : /\ FileName[f] \in Names /\ FileName[f] \notin UserNames
                           /\ FileContent[f] \in Contents
  /\ Absent \notin Bytes /\ Unread \notin Bytes /\ Empty \in Bytes /\ Empty \notin Contents
  /\ Absent \notin Contents /\ Unread # Absent /\ None \notin DriveFiles /\ Empty # Absent
  BY FilesAssumption DEF Names, Bytes, Empty, Absent, None, Unread

LEMMA Roles ==
  /\ Web \subseteq Callers /\ Watch \subseteq Callers /\ Pollers \subseteq Callers
  /\ \A k \in Callers : k \in Web \/ k \in Watch \/ k \in Pollers
  /\ \A k \in Web : k \notin Watch /\ k \notin Pollers
  /\ \A k \in Watch : k \notin Pollers
  BY CallersAssumption DEF Callers

LEMMA NoCallType == NoCall \in Call
  BY DEF NoCall, Call, Absent

\* One importer moves on, the others stay where they are.
LEMMA SetCall ==
  ASSUME TypeOK, NEW k \in Callers, NEW c, Set(k, c)
  PROVE  call'[k] = c /\ \A q \in Callers \ {k} : call'[q] = call[q]
  BY DEF TypeOK, Set

LEMMA CallType ==
  ASSUME TypeOK, NEW k \in Callers, NEW c \in Call, Set(k, c)
  PROVE  call' \in [Callers -> Call]
  BY DEF TypeOK, Set

\* What stays of a row, whatever happens to it.
RowKept(i) ==
    /\ rows'[i].name = rows[i].name /\ rows'[i].want = rows[i].want /\ rows'[i].by = rows[i].by
    /\ rows'[i].ext = rows[i].ext /\ rows'[i].seen = rows[i].seen

RowsSame == /\ rows' \in Seq(Upload) /\ Len(rows') = Len(rows)
            /\ \A i \in Ids : RowKept(i)

LEMMA RowOf1 == ASSUME TypeOK, NEW i \in Ids
                PROVE  rows[i] \in Upload /\ i \in Nat /\ i # 0 /\ i <= Len(rows) /\ Len(rows) \in Nat
  BY DEF TypeOK, Ids

LEMMA NewRowType ==
  ASSUME TypeInv, NEW k \in Callers, At(k, "insert")
  PROVE  /\ NewRow(k) \in Upload
         /\ NewRow(k).name = call[k].name /\ NewRow(k).hash = call[k].content
         /\ NewRow(k).by = Origin(k)
         /\ NewRow(k).want = call[k].content /\ NewRow(k).held = {call[k].content}
         /\ NewRow(k).seen = call[k].seen /\ NewRow(k).starts = 0 /\ NewRow(k).got = Unread
         /\ NewRow(k).status = IF k \in Web THEN "processing" ELSE "pending"
         /\ NewRow(k).ext = IF k \in Pollers THEN Head(call[k].todo) ELSE None
         /\ k \in Pollers => Head(call[k].todo) \in DriveFiles
<1>1. call[k] \in Call
  BY DEF TypeInv, TypeOK
<1>2. k \in Pollers => Head(call[k].todo) \in DriveFiles /\ call[k].todo # <<>>
  BY <1>1 DEF TypeInv, CallInv, Holding, At, Call
<1>3. call[k].name \in Names /\ call[k].content \in Bytes
  BY <1>1, <1>2, Data, Roles DEF TypeInv, CallInv, Holding, At
<1>4. Origin(k) \in {"handler", "watcher", "poller"}
  BY DEF Origin
<1> QED BY <1>1, <1>2, <1>3, <1>4 DEF NewRow, Upload, Call, Unread

LEMMA InsertRow ==
  ASSUME TypeInv, NEW k \in Callers, Insert(k)
  PROVE  /\ At(k, "insert") /\ rows' \in Seq(Upload) /\ Len(rows') = Len(rows) + 1
         /\ \A i \in Ids : rows'[i] = rows[i]
         /\ rows'[Len(rows) + 1] = NewRow(k)
         /\ Ids' = Ids \cup {Len(rows) + 1} /\ Len(rows) \in Nat /\ Len(rows) + 1 \notin Ids
<1>1. At(k, "insert") /\ rows' = Append(rows, NewRow(k)) /\ rows \in Seq(Upload)
  BY DEF Insert, TypeInv, TypeOK
<1>2. NewRow(k) \in Upload
  BY <1>1, NewRowType
<1> QED BY <1>1, <1>2 DEF Ids

LEMMA StartedRow ==
  ASSUME TypeInv, NEW i \in Ids, Started(i)
  PROVE  /\ RowsSame /\ rows'[i].starts = rows[i].starts + 1
         /\ \A j \in Ids : /\ rows'[j].status = rows[j].status /\ rows'[j].got = rows[j].got
                           /\ rows'[j].hash = rows[j].hash /\ rows'[j].held = rows[j].held
                           /\ j # i => rows'[j] = rows[j]
<1>1. rows' = [rows EXCEPT ![i] = [rows[i] EXCEPT !.starts = rows[i].starts + 1]]
      /\ rows \in Seq(Upload)
  BY DEF Started, TypeInv, TypeOK
<1>2. rows[i] \in Upload /\ [rows[i] EXCEPT !.starts = rows[i].starts + 1] \in Upload
  <2>1. rows[i] \in Upload
    BY RowOf1 DEF TypeInv
  <2>2. rows[i].starts + 1 \in Nat
    BY <2>1 DEF Upload
  <2> QED BY <2>1, <2>2 DEF Upload
<1>3. rows' \in Seq(Upload) /\ Len(rows') = Len(rows)
  BY <1>1, <1>2, ExceptSeq DEF Ids
<1>4. \A j \in Ids : rows[j] \in Upload
  BY <1>1 DEF Ids
<1>5. \A j \in Ids : j # i => rows'[j] = rows[j]
  BY <1>1 DEF Ids
<1>6. rows'[i] = [rows[i] EXCEPT !.starts = rows[i].starts + 1]
  BY <1>1 DEF Ids
<1> QED BY <1>2, <1>3, <1>4, <1>5, <1>6 DEF RowsSame, RowKept, Upload

LEMMA PickedUp ==
  ASSUME TypeInv, NEW S \in SUBSET Pending, PickUp(S)
  PROVE  /\ RowsSame
         /\ \A j \in Ids : /\ rows'[j].status = rows[j].status /\ rows'[j].got = rows[j].got
                           /\ rows'[j].hash = rows[j].hash /\ rows'[j].held = rows[j].held
                           /\ rows'[j].starts = IF j \in S THEN rows[j].starts + 1 ELSE rows[j].starts
<1>1. rows' = [i \in Ids |-> IF i \in S THEN [rows[i] EXCEPT !.starts = rows[i].starts + 1] ELSE rows[i]]
      /\ rows \in Seq(Upload) /\ Len(rows) \in Nat
  BY DEF PickUp, TypeInv, TypeOK
<1>2. \A j \in Ids : rows[j] \in Upload /\ [rows[j] EXCEPT !.starts = rows[j].starts + 1] \in Upload
  BY RowOf1 DEF Upload, TypeInv
<1>3. rows' \in Seq(Upload) /\ Len(rows') = Len(rows)
  BY <1>1, <1>2 DEF Ids
<1>4. \A j \in Ids : rows'[j] = IF j \in S THEN [rows[j] EXCEPT !.starts = rows[j].starts + 1] ELSE rows[j]
  BY <1>1
<1> QED BY <1>2, <1>3, <1>4 DEF RowsSame, RowKept, Upload

LEMMA PickUpCommitted ==
  ASSUME TypeInv, PickUpCommit
  PROVE  /\ RowsSame
         /\ \A j \in Ids : /\ rows'[j].starts = rows[j].starts /\ rows'[j].got = rows[j].got
                           /\ rows'[j].hash = rows[j].hash /\ rows'[j].held = rows[j].held
                           /\ rows'[j].status = IF j \in job THEN "processing" ELSE rows[j].status
<1>1. rows' = [i \in Ids |-> IF i \in job THEN [rows[i] EXCEPT !.status = "processing"] ELSE rows[i]]
      /\ rows \in Seq(Upload) /\ Len(rows) \in Nat
  BY DEF PickUpCommit, TypeInv, TypeOK
<1>2. \A j \in Ids : rows[j] \in Upload /\ [rows[j] EXCEPT !.status = "processing"] \in Upload
  BY RowOf1 DEF Upload, TypeInv
<1>3. rows' \in Seq(Upload) /\ Len(rows') = Len(rows)
  BY <1>1, <1>2 DEF Ids
<1>4. \A j \in Ids : rows'[j] = IF j \in job THEN [rows[j] EXCEPT !.status = "processing"] ELSE rows[j]
  BY <1>1
<1> QED BY <1>2, <1>3, <1>4 DEF RowsSame, RowKept, Upload

LEMMA Extracted ==
  ASSUME TypeInv, NEW i \in Ids, Extract(i)
  PROVE  /\ RowsSame /\ rows[i].name \in Names
         /\ \A j \in Ids : /\ rows'[j].starts = rows[j].starts /\ rows'[j].status = rows[j].status
                           /\ j # i => rows'[j] = rows[j]
         /\ LET c == disk[rows[i].name]
            IN  /\ rows'[i].got = c /\ c \in Bytes \cup {Absent}
                /\ rows'[i].hash = IF c = Absent THEN rows[i].hash ELSE c
                /\ rows'[i].held = rows[i].held \cup ({c} \ {Absent})
<1> DEFINE c == disk[rows[i].name]
           r == [rows[i] EXCEPT !.got = c, !.hash = IF c = Absent THEN rows[i].hash ELSE c,
                                !.held = rows[i].held \cup ({c} \ {Absent})]
<1>1. rows' = [rows EXCEPT ![i] = r] /\ rows \in Seq(Upload)
  BY DEF Extract, TypeInv, TypeOK
<1>2. rows[i] \in Upload /\ rows[i].name \in Names /\ c \in Bytes \cup {Absent}
  BY RowOf1 DEF TypeInv, TypeOK, Upload
<1> HIDE DEF c
<1>3. r \in Upload
  BY <1>2 DEF Upload
<1>4. /\ r.name = rows[i].name /\ r.want = rows[i].want /\ r.by = rows[i].by /\ r.ext = rows[i].ext /\ r.seen = rows[i].seen
      /\ r.starts = rows[i].starts /\ r.status = rows[i].status /\ r.got = c
      /\ r.hash = IF c = Absent THEN rows[i].hash ELSE c
      /\ r.held = rows[i].held \cup ({c} \ {Absent})
  BY <1>2 DEF Upload
<1> HIDE DEF r
<1>5. rows' \in Seq(Upload) /\ Len(rows') = Len(rows)
  BY <1>1, <1>3, ExceptSeq DEF Ids
<1>6. rows'[i] = r /\ \A j \in Ids : j # i => rows'[j] = rows[j]
  BY <1>1 DEF Ids
<1> QED BY <1>2, <1>4, <1>5, <1>6 DEF RowsSame, RowKept, c

\* Rows, files and copies are never taken back.
Grows ==
    /\ rows' \in Seq(Upload) /\ Ids \subseteq Ids' /\ \A i \in Ids : RowKept(i)
    /\ \A n \in Names : disk[n] # Absent => disk'[n] # Absent
    /\ \A n \in Names : copying[n] # Absent => copying'[n] = copying[n]

LEMMA Written ==
  ASSUME TypeOK, NEW n \in Names, NEW c \in Contents, WriteFile(n, c)
  PROVE  /\ disk' \in [Names -> Bytes \cup {Absent}] /\ created' \in SUBSET Names
         /\ UNCHANGED <<copying, partial>>
         /\ disk'[n] = c /\ c # Absent /\ c # Empty /\ \A m \in Names \ {n} : disk'[m] = disk[m]
         /\ created \subseteq created' /\ created' \subseteq created \cup {n}
         /\ disk[n] # Absent => created' = created
<1>1. c \in Bytes /\ c # Absent /\ c # Empty
  BY Data
<1> QED BY <1>1 DEF WriteFile, TypeOK

\* What a handler or a poller that has committed its row will write.
LEMMA ToWrite ==
  ASSUME TypeInv, NEW k \in Callers, At(k, "write")
  PROVE  /\ call[k].id \in Ids /\ call[k].name \in Names /\ call[k].content \in Contents
         /\ k \in Web \/ k \in Pollers
         /\ rows[call[k].id].name = call[k].name /\ rows[call[k].id].want = call[k].content
<1>1. call[k] \in Call
  BY DEF TypeInv, TypeOK
<1>2. k \in Pollers => Head(call[k].todo) \in DriveFiles
  BY <1>1 DEF TypeInv, CallInv, Holding, At, Call
<1>3. k \in Watch => FALSE
  BY DEF TypeInv, CallInv, Holding, At
<1> QED BY <1>1, <1>2, <1>3, Data, Roles DEF TypeInv, CallInv, Holding, At

LEMMA GrowsStep == ASSUME TypeInv, [Next]_vars PROVE Grows
<1> USE DEF diskVars
<1>1. ASSUME UNCHANGED <<rows, disk, copying>> PROVE Grows
  BY <1>1 DEF Grows, RowKept, Ids, TypeInv, TypeOK
<1>2. ASSUME RowsSame, UNCHANGED <<disk, copying>> PROVE Grows
  BY <1>2 DEF Grows, RowsSame, Ids
<1>3. ASSUME NEW n \in UserNames, NEW c \in Contents, Drop(n, c) PROVE Grows
  <2>1. UNCHANGED rows /\ disk' = [disk EXCEPT ![n] = Empty] /\ copying' = [copying EXCEPT ![n] = c]
    BY <1>3 DEF Drop
  <2> QED BY <1>3, <2>1, Data DEF Drop, CopyInv, Grows, RowKept, Ids, TypeInv, TypeOK
<1>4. ASSUME NEW n \in UserNames, Copied(n) PROVE Grows
  <2>1. /\ UNCHANGED rows /\ disk' = [disk EXCEPT ![n] = copying[n]]
        /\ UNCHANGED copying /\ n \in partial
    BY <1>4 DEF Copied
  <2> QED BY <2>1, Data DEF CopyInv, Grows, RowKept, Ids, TypeInv, TypeOK
<1>5. ASSUME NEW k \in Callers, Insert(k) PROVE Grows
  <2>1. UNCHANGED <<disk, copying>>
    BY <1>5 DEF Insert
  <2> QED BY <1>5, <2>1, InsertRow DEF Grows, RowKept
<1>6. ASSUME NEW k \in Callers, WriteUpload(k) \/ WriteDrive(k) PROVE Grows
  <2>1. /\ At(k, "write") /\ WriteFile(call[k].name, call[k].content)
        /\ UNCHANGED rows \/ Started(call[k].id)
    BY <1>6 DEF WriteUpload, WriteDrive
  <2>2. /\ UNCHANGED copying /\ \A n \in Names : disk[n] # Absent => disk'[n] # Absent
    BY <2>1, ToWrite, Written DEF TypeInv
  <2>3. RowsSame
    <3>1. CASE UNCHANGED rows
      BY <3>1 DEF RowsSame, RowKept, TypeInv, TypeOK
    <3> QED BY <2>1, <3>1, ToWrite, StartedRow
  <2> QED BY <2>2, <2>3 DEF Grows, RowsSame, Ids
<1>7. ASSUME NEW S \in SUBSET Pending, PickUp(S) PROVE Grows
  BY <1>2, <1>7, PickedUp DEF PickUp
<1>8. CASE PickUpCommit
  BY <1>2, <1>8, PickUpCommitted DEF PickUpCommit
<1>9. ASSUME NEW i \in Ids, Extract(i) PROVE Grows
  BY <1>2, <1>9, Extracted DEF Extract
<1>10. CASE \/ \E f \in DriveFiles : AddToDrive(f)
            \/ \E k \in Web, n \in UserNames, c \in Contents : Submit(k, n, c)
            \/ \E k \in Watch, n \in Names : OnCreated(k, n)
            \/ \E k \in Callers : \/ ReadFile(k) \/ CheckHash(k) \/ WriteUploadFails(k)
                                  \/ ReadFails(k) \/ ImportFails(k)
                                  \/ PollSources(k) \/ CheckDrive(k) \/ WriteDriveFails(k) \/ PollDone(k)
            \/ PickUpFails \/ Crash \/ UNCHANGED vars
  <2>1. UNCHANGED <<rows, disk, copying>>
    BY <1>10 DEF AddToDrive, Submit, OnCreated, ReadFile, CheckHash,
       ReadFails, ImportFails, GiveUp, WriteUploadFails, PollSources,
       CheckDrive, WriteDriveFails, PollDone, PickUpFails, Crash, vars
  <2> QED BY <1>1, <2>1
<1> QED BY <1>3, <1>4, <1>5, <1>6, <1>7, <1>8, <1>9, <1>10 DEF Next

\* Who changes what is on disk.
LEMMA DiskStep ==
  ASSUME TypeInv, [Next]_vars
  PROVE  \/ UNCHANGED <<disk, copying, partial>>
         \/ \E n \in UserNames : Copied(n) \/ \E c \in Contents : Drop(n, c)
         \/ \E k \in Callers : WriteUpload(k) \/ WriteDrive(k)
<1> USE DEF diskVars
<1>1. CASE \/ \E f \in DriveFiles : AddToDrive(f)
           \/ \E k \in Web, n \in UserNames, c \in Contents : Submit(k, n, c)
           \/ \E k \in Watch, n \in Names : OnCreated(k, n)
           \/ \E k \in Callers : \/ ReadFile(k) \/ CheckHash(k) \/ WriteUploadFails(k) \/ Insert(k)
                                 \/ ReadFails(k) \/ ImportFails(k)
                                 \/ PollSources(k) \/ CheckDrive(k) \/ WriteDriveFails(k) \/ PollDone(k)
           \/ PickUpFails \/ PickUpCommit \/ Crash \/ UNCHANGED vars
           \/ \E S \in SUBSET Pending : PickUp(S)
           \/ \E i \in Ids : Extract(i)
  BY <1>1 DEF AddToDrive, Submit, OnCreated, ReadFile, CheckHash,
     ReadFails, ImportFails, GiveUp, WriteUploadFails, Insert, PollSources,
     CheckDrive, WriteDriveFails, PollDone, PickUpFails, PickUpCommit, PickUp, Extract, Crash, vars
<1> QED BY <1>1 DEF Next

LEMMA CopyStep == ASSUME TypeInv, Grows, [Next]_vars PROVE CopyInv'
<1>1. CASE UNCHANGED <<copying, partial>>
  BY <1>1 DEF CopyInv, Grows, TypeInv
<1>2. ASSUME NEW n \in UserNames, NEW c \in Contents, Drop(n, c) PROVE CopyInv'
  BY <1>2, Data DEF Drop, CopyInv, TypeInv, TypeOK
<1>3. ASSUME NEW n \in UserNames, Copied(n) PROVE CopyInv'
  BY <1>3, Data DEF Copied, CopyInv, TypeInv, TypeOK
<1>4. ASSUME NEW k \in Callers, WriteUpload(k) \/ WriteDrive(k) PROVE UNCHANGED <<copying, partial>>
  BY <1>4 DEF WriteUpload, WriteDrive, WriteFile
<1> QED BY <1>1, <1>2, <1>3, <1>4, DiskStep

LEMMA HoldingStays ==
  ASSUME TypeInv, Grows, NEW k \in Callers, call'[k] = call[k]
  PROVE  Holding(k)'
<1>1. Holding(k)
  BY DEF TypeInv, CallInv
<1> QED BY <1>1 DEF Holding, Grows, RowKept, At

\* What an importer that is done holds.
LEMMA Released == ASSUME NEW k \in Callers, call'[k] = NoCall PROVE Holding(k)'
  BY DEF Holding, NoCall, At

\* The others keep what they hold when importer k moves.
LEMMA OthersHold ==
  ASSUME TypeInv, Grows, NEW k \in Callers, NEW c, Set(k, c), call'[k] = c => Holding(k)',
         \A n \in created' : n \in created \/ disk'[n] # Absent
  PROVE  CallInv'
<1>1. \A q \in Callers \ {k} : Holding(q)'
  BY SetCall, HoldingStays DEF TypeInv
<1>2. Holding(k)'
  BY SetCall DEF TypeInv
<1>3. \A n \in created' : disk'[n] # Absent
  BY DEF Grows, TypeInv, CallInv, TypeOK
<1> QED BY <1>1, <1>2, <1>3 DEF CallInv

LEMMA TypeInit == Init => TypeInv
<1> SUFFICES ASSUME Init PROVE TypeInv
  OBVIOUS
<1>1. TypeOK
  <2>1. inputs \in 0 .. MaxInputs /\ faults \in 0 .. MaxFaults
    BY BoundsAssumption DEF Init
  <2>2. rows \in Seq(Upload) /\ folder \in Seq(DriveFiles) /\ call \in [Callers -> Call]
    BY NoCallType DEF Init
  <2>3. disk \in [Names -> Bytes \cup {Absent}] /\ copying \in [Names -> Contents \cup {Absent}]
    BY DEF Init
  <2> QED BY <2>1, <2>2, <2>3 DEF Init, TypeOK
<1>2. CallInv
  BY DEF Init, CallInv, Holding, NoCall, At
<1>3. CopyInv
  BY DEF Init, CopyInv
<1> QED BY <1>1, <1>2, <1>3 DEF TypeInv

LEMMA CountTypes ==
  ASSUME TypeOK
  PROVE  /\ Fault \/ UNCHANGED faults => faults' \in 0 .. MaxFaults
         /\ Arrives \/ UNCHANGED inputs => inputs' \in 0 .. MaxInputs
  BY BoundsAssumption DEF TypeOK, Fault, Arrives

LEMMA NextFileType ==
  ASSUME TypeOK, NEW k \in Callers, call[k].todo # <<>>
  PROVE  NextFile(k) \in Call /\ NextFile(k).pc = "check" /\ NextFile(k).todo = Tail(call[k].todo)
<1>1. call[k] \in Call /\ NoCall \in Call
  BY NoCallType DEF TypeOK
<1>2. Tail(call[k].todo) \in Seq(DriveFiles)
  BY <1>1 DEF Call
<1> QED BY <1>1, <1>2 DEF NextFile, Call, NoCall

\* The part of TypeOK that is about the tables and the history.
LEMMA IdsStay == ASSUME TypeInv, Grows PROVE job \subseteq Ids' /\ runs \subseteq Ids' /\ lost \subseteq Ids'
  BY DEF TypeInv, TypeOK, Grows

LEMMA UserTypes ==
  ASSUME TypeInv, Grows,
         \/ \E n \in UserNames, c \in Contents : Drop(n, c)
         \/ \E n \in UserNames : Copied(n)
         \/ \E f \in DriveFiles : AddToDrive(f)
  PROVE  (TypeOK /\ CallInv)'
<1>1. UNCHANGED <<call, rows, runs, job, lost, missed, failing, faults>>
  BY DEF Drop, Copied, AddToDrive, worldVars, runVars
<1>2. inputs' \in 0 .. MaxInputs
  BY CountTypes DEF Drop, Copied, AddToDrive, worldVars, TypeInv
<1>3. /\ disk' \in [Names -> Bytes \cup {Absent}] /\ copying' \in [Names -> Contents \cup {Absent}]
      /\ created' \subseteq Names /\ partial' \subseteq Names /\ \A n \in created' : disk'[n] # Absent
  <2>1. ASSUME NEW n \in UserNames, NEW c \in Contents, Drop(n, c)
        PROVE  /\ disk' \in [Names -> Bytes \cup {Absent}] /\ copying' \in [Names -> Contents \cup {Absent}]
               /\ created' \subseteq Names /\ partial' \subseteq Names
               /\ \A m \in created' : disk'[m] # Absent
    BY <2>1, Data DEF Drop, TypeInv, TypeOK, CallInv
  <2>2. ASSUME NEW n \in UserNames, Copied(n)
        PROVE  /\ disk' \in [Names -> Bytes \cup {Absent}] /\ copying' \in [Names -> Contents \cup {Absent}]
               /\ created' \subseteq Names /\ partial' \subseteq Names
               /\ \A m \in created' : disk'[m] # Absent
    <3>1. copying[n] \in Contents /\ n \in Names
      BY <2>2, Data DEF Copied, CopyInv, TypeInv, TypeOK
    <3> QED BY <2>2, <3>1, Data DEF Copied, TypeInv, TypeOK, CallInv
  <2>3. ASSUME NEW f \in DriveFiles, AddToDrive(f) PROVE UNCHANGED <<disk, copying, partial, created>>
    BY <2>3 DEF AddToDrive, diskVars
  <2> QED BY <2>1, <2>2, <2>3 DEF TypeInv, TypeOK, CallInv
<1>4. folder' \in Seq(DriveFiles)
  <2>1. folder \in Seq(DriveFiles)
    BY DEF TypeInv, TypeOK
  <2>2. UNCHANGED folder \/ \E f \in DriveFiles : folder' = Append(folder, f)
    BY DEF Drop, Copied, AddToDrive, worldVars
  <2> QED BY <2>1, <2>2
<1>5. TypeOK'
  BY <1>1, <1>2, <1>3, <1>4, IdsStay DEF TypeInv, TypeOK, Ids
<1>6. \A k \in Callers : Holding(k)'
  BY <1>1, HoldingStays
<1> QED BY <1>3, <1>5, <1>6 DEF TypeInv, CallInv

\* The steps of an importer that do not write.
LEMMA LookTypes ==
  ASSUME TypeInv, Grows, NEW k \in Callers,
         \/ \E n \in UserNames, c \in Contents : k \in Web /\ Submit(k, n, c)
         \/ \E n \in Names : k \in Watch /\ OnCreated(k, n)
         \/ ReadFile(k) \/ CheckHash(k)
  PROVE  (TypeOK /\ CallInv)'
<1>1. /\ UNCHANGED <<rows, runs, job, lost, failing, faults, folder, disk, copying, partial>>
      /\ created' \subseteq created
  BY DEF Submit, OnCreated, ReadFile, CheckHash, worldVars, runVars, diskVars
<1>2. inputs' \in 0 .. MaxInputs
  BY CountTypes DEF Submit, OnCreated, ReadFile, CheckHash, worldVars, TypeInv
<1>3. \A n \in created' : n \in created \/ disk'[n] # Absent
  BY <1>1
<1>4. call[k] \in Call /\ Holding(k) /\ NoCall \in Call /\ Len(rows) \in Nat
  BY NoCallType DEF TypeInv, TypeOK, CallInv
<1>5. call' \in [Callers -> Call] /\ CallInv'
  <2>1. CASE UNCHANGED call
    BY <1>3, <2>1, HoldingStays DEF TypeInv, TypeOK, CallInv, Grows
  <2>2. CASE Finish(k)
    BY <1>3, <1>4, <2>2, CallType, OthersHold, Released DEF Finish, TypeInv
  <2>3. ASSUME NEW n \in UserNames, NEW c \in Contents, k \in Web, Submit(k, n, c)
        PROVE  call' \in [Callers -> Call] /\ CallInv'
    <3> DEFINE d == [NoCall EXCEPT !.pc = "check", !.name = n, !.content = c]
    <3>1. d \in Call /\ Set(k, d) /\ d.pc = "check" /\ d.name = n /\ d.content = c
      BY <2>3, <1>4, Data DEF Submit, Call, NoCall
    <3> HIDE DEF d
    <3>2. call'[k] = d => Holding(k)'
      BY <2>3, <3>1, Roles DEF Holding, At
    <3> QED BY <1>3, <3>1, <3>2, CallType, OthersHold DEF TypeInv
  <2>4. ASSUME NEW n \in Names, k \in Watch, OnCreated(k, n), ~UNCHANGED call
        PROVE  call' \in [Callers -> Call] /\ CallInv'
    <3> DEFINE d == [NoCall EXCEPT !.pc = "read", !.name = n]
    <3>1. d \in Call /\ Set(k, d) /\ d.pc = "read" /\ d.name = n /\ disk'[n] # Absent
      BY <2>4, <1>1, <1>4 DEF OnCreated, Call, NoCall, TypeInv, CallInv
    <3> HIDE DEF d
    <3>2. call'[k] = d => Holding(k)'
      BY <2>4, <3>1, Roles DEF Holding, At
    <3> QED BY <1>3, <3>1, <3>2, CallType, OthersHold DEF TypeInv
  <2>5. ASSUME ReadFile(k)
        PROVE  call' \in [Callers -> Call] /\ CallInv'
    <3> DEFINE d == [call[k] EXCEPT !.pc = "check", !.content = disk[call[k].name]]
    <3>1. k \in Watch /\ call[k].name \in Names /\ disk[call[k].name] # Absent
      BY <2>5, <1>4, Roles DEF ReadFile, At, Holding
    <3>2. disk[call[k].name] \in Bytes
      BY <3>1 DEF TypeInv, TypeOK
    <3>3. d \in Call /\ Set(k, d) /\ d.pc = "check" /\ d.name = call[k].name
          /\ d.content = disk[call[k].name]
      BY <2>5, <1>4, <3>2 DEF ReadFile, Call
    <3> HIDE DEF d
    <3>4. call'[k] = d => Holding(k)'
      BY <1>1, <3>1, <3>2, <3>3, Roles DEF Holding, At
    <3> QED BY <1>3, <3>3, <3>4, CallType, OthersHold DEF TypeInv
  <2>6. ASSUME CheckHash(k), ~Finish(k)
        PROVE  call' \in [Callers -> Call] /\ CallInv'
    <3> DEFINE d == [call[k] EXCEPT !.pc = "insert", !.seen = Len(rows)]
    <3>1. d \in Call /\ Set(k, d) /\ d.pc = "insert" /\ d.name = call[k].name
          /\ d.content = call[k].content /\ call[k].pc = "check" /\ k \notin Pollers
      BY <2>6, <1>4 DEF CheckHash, Call, At
    <3> HIDE DEF d
    <3>2. call'[k] = d => Holding(k)'
      BY <1>1, <1>4, <3>1 DEF Holding, At
    <3> QED BY <1>3, <3>1, <3>2, CallType, OthersHold DEF TypeInv
  <2> QED BY <2>1, <2>2, <2>3, <2>4, <2>5, <2>6 DEF CheckHash
<1>6. missed' \subseteq Names
  <2>1. CASE CheckHash(k)
    <3>1. k \in Watch => call[k].name \in Names
      BY <2>1, <1>4 DEF Holding, CheckHash, At
    <3> QED BY <2>1, <3>1 DEF CheckHash, TypeInv, TypeOK
  <2> QED BY <2>1 DEF Submit, OnCreated, ReadFile, worldVars, TypeInv, TypeOK
<1>7. TypeOK'
  BY <1>1, <1>2, <1>5, <1>6, IdsStay DEF TypeInv, TypeOK, Ids
<1> QED BY <1>5, <1>7

\* An import that ends with an exception.
LEMMA GiveUpTypes ==
  ASSUME TypeInv, Grows, NEW k \in Callers, ReadFails(k) \/ ImportFails(k)
  PROVE  (TypeOK /\ CallInv)'
<1>1. /\ GiveUp(k) /\ ~At(k, "idle")
      /\ UNCHANGED <<rows, runs, job, lost, folder, disk, copying, partial, created, inputs>>
  BY DEF ReadFails, ImportFails, GiveUp, runVars, diskVars, At
<1>2. faults' \in 0 .. MaxFaults /\ failing' \in BOOLEAN
  BY <1>1, CountTypes DEF GiveUp, TypeInv, TypeOK
<1>3. missed' \subseteq Names
  <2>1. k \in Watch => call[k].name \in Names
    BY <1>1 DEF TypeInv, CallInv, Holding
  <2> QED BY <1>1, <2>1 DEF GiveUp, TypeInv, TypeOK
<1>4. call' \in [Callers -> Call] /\ CallInv'
  <2>1. Set(k, NoCall)
    BY <1>1 DEF GiveUp, Finish
  <2> QED BY <1>1, <2>1, CallType, OthersHold, Released, NoCallType DEF TypeInv
<1>5. TypeOK'
  BY <1>1, <1>2, <1>3, <1>4 DEF TypeInv, TypeOK, Ids
<1> QED BY <1>4, <1>5

LEMMA InsertTypes == ASSUME TypeInv, Grows, NEW k \in Callers, Insert(k) PROVE (TypeOK /\ CallInv)'
<1>1. UNCHANGED <<runs, job, lost, missed, failing, faults, folder, disk, copying, partial, created, inputs>>
  BY DEF Insert, worldVars, runVars, diskVars
<1>2. /\ At(k, "insert") /\ rows' \in Seq(Upload) /\ Len(rows) + 1 \in Ids' /\ Len(rows) \in Nat
      /\ rows'[Len(rows) + 1].name = call[k].name /\ rows'[Len(rows) + 1].want = call[k].content
  BY InsertRow, NewRowType
<1>3. call[k] \in Call /\ Holding(k) /\ NoCall \in Call
  BY NoCallType DEF TypeInv, TypeOK, CallInv
<1>4. call' \in [Callers -> Call] /\ CallInv'
  <2>1. CASE k \in Watch
    <3>1. Set(k, NoCall)
      BY <2>1 DEF Insert, Finish
    <3> QED BY <1>1, <1>3, <3>1, CallType, OthersHold, Released DEF TypeInv
  <2>2. CASE k \notin Watch
    <3> DEFINE d == [call[k] EXCEPT !.pc = "write", !.id = Len(rows) + 1]
    <3>1. d \in Call /\ Set(k, d) /\ d.pc = "write" /\ d.id = Len(rows) + 1 /\ d.name = call[k].name
          /\ d.content = call[k].content /\ call[k].pc = "insert" /\ d.todo = call[k].todo
      <4>1. Set(k, d) /\ call[k].pc = "insert" /\ Len(rows) + 1 \in Nat
        BY <1>2, <2>2 DEF Insert, At
      <4> QED BY <1>3, <4>1 DEF Call
    <3> HIDE DEF d
    <3>2. call'[k] = d => Holding(k)'
      BY <1>1, <1>2, <1>3, <2>2, <3>1 DEF Holding, At
    <3> QED BY <1>1, <3>1, <3>2, CallType, OthersHold DEF TypeInv
  <2> QED BY <2>1, <2>2
<1>5. TypeOK'
  BY <1>1, <1>2, <1>4, IdsStay DEF TypeInv, TypeOK, Ids
<1> QED BY <1>4, <1>5 DEF TypeInv

\* The file is written, or it is not.
LEMMA WriteTypes ==
  ASSUME TypeInv, Grows, NEW k \in Callers,
         WriteUpload(k) \/ WriteUploadFails(k) \/ WriteDrive(k) \/ WriteDriveFails(k)
  PROVE  (TypeOK /\ CallInv)'
<1>1. /\ At(k, "write") /\ UNCHANGED <<job, missed, folder, inputs, copying, partial>>
  BY DEF WriteUpload, WriteUploadFails, WriteDrive, WriteDriveFails, worldVars, runVars, diskVars, WriteFile
<1>2. /\ call[k].id \in Ids /\ call[k].name \in Names /\ call[k].content \in Contents
  BY <1>1, ToWrite
<1>3. /\ disk' \in [Names -> Bytes \cup {Absent}] /\ created' \subseteq Names
      /\ \A n \in created' : n \in created \/ disk'[n] # Absent
  <2>1. CASE WriteFile(call[k].name, call[k].content)
    BY <1>2, <2>1, Written DEF TypeInv
  <2>2. CASE UNCHANGED <<disk, created>>
    BY <2>2 DEF TypeInv, TypeOK
  <2> QED BY <2>1, <2>2 DEF WriteUpload, WriteUploadFails, WriteDrive, WriteDriveFails, diskVars
<1>4. runs' \subseteq Ids' /\ lost' \subseteq Ids' /\ job' \subseteq Ids'
  BY <1>1, <1>2, IdsStay DEF WriteUpload, WriteUploadFails, WriteDrive, WriteDriveFails, runVars, Grows
<1>5. faults' \in 0 .. MaxFaults /\ failing' \in BOOLEAN
  BY CountTypes DEF WriteUpload, WriteUploadFails, WriteDrive, WriteDriveFails, TypeInv, TypeOK
<1>6. call[k] \in Call /\ NoCall \in Call
  BY NoCallType DEF TypeInv, TypeOK
<1>7. call' \in [Callers -> Call] /\ CallInv'
  <2>1. CASE Set(k, NoCall)
    BY <1>3, <1>6, <2>1, CallType, OthersHold, Released DEF TypeInv
  <2>2. CASE WriteDrive(k)
    <3> DEFINE d == NextFile(k)
    <3>1. k \in Pollers /\ call[k].todo # <<>>
      BY <1>1, <2>2 DEF WriteDrive, TypeInv, CallInv, Holding, At
    <3>2. d \in Call /\ Set(k, d) /\ d.pc = "check"
      BY <2>2, <3>1, NextFileType DEF WriteDrive, TypeInv
    <3> HIDE DEF d
    <3>3. call'[k] = d => Holding(k)'
      BY <3>1, <3>2, Roles DEF Holding, At
    <3> QED BY <1>3, <3>2, <3>3, CallType, OthersHold DEF TypeInv
  <2> QED BY <2>1, <2>2 DEF WriteUpload, WriteUploadFails, WriteDriveFails, Finish
<1>8. TypeOK'
  BY <1>1, <1>3, <1>4, <1>5, <1>7 DEF TypeInv, TypeOK, Grows
<1> QED BY <1>7, <1>8 DEF TypeInv

LEMMA NewFiles ==
  ASSUME TypeOK
  PROVE  LET new == InOrder({i \in DOMAIN folder : folder[i] \notin Known})
         IN  [i \in DOMAIN new |-> folder[new[i]]] \in Seq(DriveFiles)
<1> DEFINE S == {i \in DOMAIN folder : folder[i] \notin Known}
           new == InOrder(S)
           n == Cardinality(S)
<1>1. S \in SUBSET Nat /\ IsFiniteSet(S) /\ \A i \in S : folder[i] \in DriveFiles
  <2>1. folder \in Seq(DriveFiles) /\ IsFiniteSet(1 .. Len(folder))
    BY FS_Interval DEF TypeOK
  <2>2. S \subseteq 1 .. Len(folder)
    BY <2>1
  <2>3. IsFiniteSet(S)
    BY <2>1, <2>2, FS_Subset
  <2> QED BY <2>1, <2>2, <2>3
<1>2. n \in Nat /\ new \in [1 .. n -> S]
  BY <1>1, InOrderEnumerates
<1> HIDE DEF S, new, n
<1>3. [i \in DOMAIN new |-> folder[new[i]]] = [i \in 1 .. n |-> folder[new[i]]]
  BY <1>2
<1>4. \A i \in 1 .. n : folder[new[i]] \in DriveFiles
  BY <1>1, <1>2
<1>5. [i \in DOMAIN new |-> folder[new[i]]] \in Seq(DriveFiles)
  BY <1>2, <1>3, <1>4
<1> QED BY <1>5 DEF new, S

LEMMA PollTypes ==
  ASSUME TypeInv, Grows, NEW k \in Callers, PollSources(k) \/ CheckDrive(k) \/ PollDone(k)
  PROVE  (TypeOK /\ CallInv)'
<1>1. /\ k \in Pollers
      /\ UNCHANGED <<runs, job, lost, missed, folder, disk, copying, partial, created, inputs, rows>>
  BY DEF PollSources, CheckDrive, PollDone, worldVars, runVars, diskVars
<1>2. faults' \in 0 .. MaxFaults /\ failing' \in BOOLEAN
  BY CountTypes DEF PollSources, CheckDrive, PollDone, TypeInv, TypeOK
<1>3. call[k] \in Call /\ NoCall \in Call /\ Len(rows) \in Nat
  BY NoCallType DEF TypeInv, TypeOK
<1>4. call' \in [Callers -> Call] /\ CallInv'
  <2>1. CASE Set(k, NoCall)
    BY <1>1, <1>3, <2>1, CallType, OthersHold, Released DEF TypeInv
  <2>2. ASSUME NEW d \in Call, Set(k, d), d.pc = "check" PROVE call' \in [Callers -> Call] /\ CallInv'
    <3>1. call'[k] = d => Holding(k)'
      BY <1>1, <2>2, Roles DEF Holding, At
    <3> QED BY <1>1, <2>2, <3>1, CallType, OthersHold DEF TypeInv
  <2>3. CASE PollSources(k)
    <3> DEFINE new == InOrder({i \in DOMAIN folder : folder[i] \notin Known})
               t == [i \in DOMAIN new |-> folder[new[i]]]
               d == [NoCall EXCEPT !.pc = "check", !.todo = t]
    <3>1. t \in Seq(DriveFiles) /\ Set(k, d)
      BY <2>3, NewFiles DEF PollSources, TypeInv
    <3> HIDE DEF t
    <3>2. d \in Call /\ d.pc = "check"
      BY <1>3, <3>1 DEF Call, NoCall
    <3> HIDE DEF d
    <3> QED BY <2>2, <3>1, <3>2
  <2>4. ASSUME CheckDrive(k), Set(k, NextFile(k)) PROVE call' \in [Callers -> Call] /\ CallInv'
    <3>1. NextFile(k) \in Call /\ NextFile(k).pc = "check"
      BY <2>4, NextFileType DEF CheckDrive, TypeInv
    <3> QED BY <2>2, <2>4, <3>1
  <2>5. ASSUME CheckDrive(k), ~Set(k, NextFile(k)), ~Finish(k)
        PROVE  call' \in [Callers -> Call] /\ CallInv'
    <3> DEFINE f == Head(call[k].todo)
               d == [call[k] EXCEPT !.pc = "insert", !.name = FileName[f], !.content = FileContent[f],
                                    !.seen = Len(rows)]
    <3>1. Set(k, d) /\ call[k].todo # <<>> /\ f \in DriveFiles
      BY <1>3, <2>5 DEF CheckDrive, Call
    <3>2. d \in Call /\ d.pc = "insert" /\ d.todo = call[k].todo /\ d.name = FileName[f]
          /\ d.content = FileContent[f]
      BY <1>3, <3>1, Data DEF Call
    <3> HIDE DEF d
    <3>3. call'[k] = d => Holding(k)'
      BY <1>1, <3>1, <3>2, Roles DEF Holding, At
    <3> QED BY <1>1, <3>1, <3>2, <3>3, CallType, OthersHold DEF TypeInv
  <2> QED BY <2>1, <2>3, <2>4, <2>5 DEF PollDone, CheckDrive, Finish
<1>5. TypeOK'
  BY <1>1, <1>2, <1>4 DEF TypeInv, TypeOK, Ids
<1> QED BY <1>4, <1>5 DEF TypeInv

\* The job, the runs and the crash.
LEMMA JobTypes ==
  ASSUME TypeInv, Grows,
         \/ \E S \in SUBSET Pending : PickUp(S)
         \/ PickUpCommit \/ PickUpFails \/ Crash
         \/ \E i \in Ids : Extract(i)
  PROVE  (TypeOK /\ CallInv)'
<1>1. /\ UNCHANGED <<folder, disk, copying, partial, inputs, failing>>
      /\ created' \subseteq created
  BY DEF PickUp, PickUpCommit, PickUpFails, Crash, Extract, worldVars, diskVars
<1>2. faults' \in 0 .. MaxFaults
  BY CountTypes DEF PickUp, PickUpCommit, PickUpFails, Crash, Extract, TypeInv
<1>3. Pending \subseteq Ids
  BY DEF Pending
<1>4. job' \subseteq Ids' /\ runs' \subseteq Ids' /\ lost' \subseteq Ids'
  <2>1. CASE Crash
    <3>1. \A k \in Callers : At(k, "write") => call[k].id \in Ids
      BY ToWrite
    <3> QED BY <2>1, <3>1, IdsStay DEF Crash, Grows
  <2> QED BY <1>3, <2>1, IdsStay DEF PickUp, PickUpCommit, PickUpFails, Extract, Grows
<1>5. missed' \subseteq Names
  <2>1. CASE Crash
    <3>1. \A k \in Watch : ~At(k, "idle") => call[k].name \in Names
      BY Roles DEF TypeInv, CallInv, Holding
    <3> QED BY <2>1, <3>1 DEF Crash, TypeInv, TypeOK
  <2> QED BY <2>1 DEF PickUp, PickUpCommit, PickUpFails, Extract, worldVars, TypeInv, TypeOK
<1>6. call' \in [Callers -> Call] /\ CallInv'
  <2>1. CASE Crash
    <3>1. call' = [k \in Callers |-> NoCall]
      BY <2>1 DEF Crash
    <3> QED BY <1>1, <3>1, Released, NoCallType DEF CallInv, TypeInv
  <2>2. CASE UNCHANGED call
    BY <1>1, <2>2, HoldingStays DEF TypeInv, TypeOK, CallInv
  <2> QED BY <2>1, <2>2 DEF PickUp, PickUpCommit, PickUpFails, Extract
<1>7. TypeOK'
  BY <1>1, <1>2, <1>4, <1>5, <1>6 DEF TypeInv, TypeOK, Grows
<1> QED BY <1>6, <1>7 DEF TypeInv

LEMMA TypeStep == TypeInv /\ [Next]_vars => TypeInv'
<1> SUFFICES ASSUME TypeInv, [Next]_vars PROVE TypeInv'
  OBVIOUS
<1>1. Grows
  BY GrowsStep
<1>2. CASE UNCHANGED vars
  BY <1>2 DEF vars, TypeInv, TypeOK, CallInv, CopyInv, Holding, At, Ids
<1>3. CASE Next
  <2>1. (TypeOK /\ CallInv)'
    BY <1>1, <1>3, UserTypes, LookTypes, GiveUpTypes, InsertTypes, WriteTypes, PollTypes, JobTypes,
       Roles DEF Next
  <2> QED BY <1>1, <2>1, CopyStep DEF TypeInv
<1> QED BY <1>2, <1>3

\* Every variable keeps its type: in particular nothing refers to a row that is
\* not there, and an importer that writes has its row in the table.
THEOREM IngestionTypesSound == Spec => []TypeOK
<1>1. Spec => []TypeInv
  BY TypeInit, TypeStep, PTL DEF Spec
<1> QED BY <1>1, PTL DEF TypeInv

-----------------------------------------------------------------------------
(* The rows and the runs *)

\* A row whose run has read nothing new stands for what it stood for.
RowsAlike ==
    /\ RowsSame
    /\ \A i \in Ids : /\ rows'[i].hash = rows[i].hash /\ rows'[i].held = rows[i].held
                      /\ rows'[i].got = rows[i].got

LEMMA RowsStep ==
  ASSUME TypeInv, [Next]_vars
  PROVE  \/ RowsAlike
         \/ \E k \in Callers : Insert(k)
         \/ \E i \in Ids : Extract(i)
<1>1. UNCHANGED rows => RowsAlike
  BY DEF RowsAlike, RowsSame, RowKept, TypeInv, TypeOK
<1>2. ASSUME NEW k \in Callers, WriteUpload(k) PROVE RowsAlike
  BY <1>2, ToWrite, StartedRow DEF WriteUpload, RowsAlike
<1>3. ASSUME NEW S \in SUBSET Pending, PickUp(S) PROVE RowsAlike
  BY <1>3, PickedUp DEF RowsAlike
<1>4. PickUpCommit => RowsAlike
  BY PickUpCommitted DEF RowsAlike
<1>5. CASE \/ \E n \in UserNames : Copied(n) \/ \E c \in Contents : Drop(n, c)
           \/ \E f \in DriveFiles : AddToDrive(f)
           \/ \E k \in Web, n \in UserNames, c \in Contents : Submit(k, n, c)
           \/ \E k \in Watch, n \in Names : OnCreated(k, n)
           \/ \E k \in Callers : \/ ReadFile(k) \/ CheckHash(k) \/ WriteUploadFails(k) \/ WriteDrive(k)
                                 \/ ReadFails(k) \/ ImportFails(k)
                                 \/ PollSources(k) \/ CheckDrive(k) \/ WriteDriveFails(k) \/ PollDone(k)
           \/ PickUpFails \/ Crash \/ UNCHANGED vars
  BY <1>1, <1>5 DEF Drop, Copied, AddToDrive, Submit, OnCreated, ReadFile, CheckHash,
     ReadFails, ImportFails, GiveUp, WriteUploadFails,
     WriteDrive, PollSources, CheckDrive, WriteDriveFails, PollDone, PickUpFails, Crash, vars
<1> QED BY <1>2, <1>3, <1>4, <1>5 DEF Next

LEMMA RowName == ASSUME TypeOK, NEW i \in Ids
                 PROVE  /\ rows[i].name \in Names /\ rows[i].want \in Bytes /\ rows[i].hash \in Bytes
                        /\ rows[i].held \subseteq Bytes
                        /\ rows[i].ext \in DriveFiles \cup {None} /\ rows[i].seen \in Nat
  BY RowOf1 DEF Upload

-----------------------------------------------------------------------------
(* The file is there when a run looks for it *)

\* A run that has a file to find.
FoundInv ==
    /\ \A i \in runs \cup Pending : rows[i].ext = None => disk[rows[i].name] # Absent
    /\ MissingOnlyFromDrive

\* What there is for the runs: rows waiting, rows started.
LEMMA RunsStep ==
  ASSUME TypeInv, Grows, [Next]_vars
  PROVE  \/ runs' \cup Pending' \subseteq runs \cup Pending
         \/ \E k \in Callers : Insert(k) \/ WriteUpload(k)
<1>1. UNCHANGED rows => Pending' = Pending
  BY DEF Pending, Ids
<1>2. ASSUME NEW S \in SUBSET Pending, PickUp(S) PROVE Pending' = Pending /\ runs' = runs \cup S
  BY <1>2, PickedUp DEF PickUp, Pending, RowsSame, Ids
<1>3. PickUpCommit => Pending' \subseteq Pending /\ runs' = runs
  BY PickUpCommitted DEF PickUpCommit, Pending, RowsSame, Ids
<1>4. ASSUME NEW i \in Ids, Extract(i) PROVE Pending' = Pending /\ runs' \subseteq runs
  BY <1>4, Extracted DEF Extract, Pending, RowsSame, Ids
<1>5. CASE \/ \E n \in UserNames : Copied(n) \/ \E c \in Contents : Drop(n, c)
           \/ \E f \in DriveFiles : AddToDrive(f)
           \/ \E k \in Web, n \in UserNames, c \in Contents : Submit(k, n, c)
           \/ \E k \in Watch, n \in Names : OnCreated(k, n)
           \/ \E k \in Callers : \/ ReadFile(k) \/ CheckHash(k) \/ WriteUploadFails(k) \/ WriteDrive(k)
                                 \/ ReadFails(k) \/ ImportFails(k)
                                 \/ PollSources(k) \/ CheckDrive(k) \/ WriteDriveFails(k) \/ PollDone(k)
           \/ PickUpFails \/ Crash \/ UNCHANGED vars
  <2>1. UNCHANGED rows /\ runs' \subseteq runs
    BY <1>5 DEF Drop, Copied, AddToDrive, Submit, OnCreated, ReadFile, CheckHash,
       ReadFails, ImportFails, GiveUp, WriteUploadFails,
       WriteDrive, PollSources, CheckDrive, WriteDriveFails, PollDone, PickUpFails, Crash, vars, runVars
  <2> QED BY <1>1, <2>1
<1> QED BY <1>2, <1>3, <1>4, <1>5 DEF Next

LEMMA InsertPending ==
  ASSUME TypeInv, NEW k \in Callers, Insert(k)
  PROVE  Pending' = Pending \cup (IF k \in Web THEN {} ELSE {Len(rows) + 1}) /\ runs' = runs
         /\ rows'[Len(rows) + 1].status = IF k \in Web THEN "processing" ELSE "pending"
<1>1. rows'[Len(rows) + 1].status = IF k \in Web THEN "processing" ELSE "pending"
  BY InsertRow, NewRowType
<1>2. Ids' = Ids \cup {Len(rows) + 1} /\ \A i \in Ids : rows'[i] = rows[i]
  BY InsertRow
<1>3. runs' = runs
  BY DEF Insert, runVars
<1> QED BY <1>1, <1>2, <1>3 DEF Pending

LEMMA UploadStarts ==
  ASSUME TypeInv, NEW k \in Callers, WriteUpload(k)
  PROVE  /\ At(k, "write") /\ k \in Web /\ call[k].id \in Ids /\ runs' = runs \cup {call[k].id}
         /\ Pending' = Pending /\ disk'[rows[call[k].id].name] = call[k].content
         /\ call[k].content \in Contents /\ call'[k] = NoCall
<1>1. /\ At(k, "write") /\ k \in Web /\ runs' = runs \cup {call[k].id} /\ Started(call[k].id)
      /\ WriteFile(call[k].name, call[k].content) /\ Set(k, NoCall)
  BY DEF WriteUpload, Finish
<1>2. /\ call[k].id \in Ids /\ rows[call[k].id].name = call[k].name
      /\ call[k].name \in Names /\ call[k].content \in Contents
  BY <1>1, ToWrite
<1>3. Pending' = Pending
  BY <1>1, <1>2, StartedRow DEF Pending, RowsSame, Ids
<1>4. disk'[call[k].name] = call[k].content /\ call'[k] = NoCall
  BY <1>1, <1>2, Written, SetCall DEF TypeInv
<1> QED BY <1>1, <1>2, <1>3, <1>4

LEMMA FoundInit == Init => FoundInv
  BY DEF Init, FoundInv, Pending, Ids, MissingOnlyFromDrive

LEMMA FoundStep == TypeInv /\ FoundInv /\ [Next]_vars => FoundInv'
<1> SUFFICES ASSUME TypeInv, FoundInv, [Next]_vars PROVE FoundInv'
  OBVIOUS
<1>1. Grows
  BY GrowsStep
<1>2. runs \cup Pending \subseteq Ids
  BY DEF TypeInv, TypeOK, Pending
<1>3. \A i \in Ids : i \in Ids' /\ RowKept(i) /\ rows[i].name \in Names
  BY <1>1, RowName DEF Grows, TypeInv
<1>4. ASSUME NEW i \in runs \cup Pending, rows'[i].ext = None PROVE disk'[rows'[i].name] # Absent
  BY <1>1, <1>2, <1>3, <1>4 DEF FoundInv, Grows, RowKept
<1>5. (\A i \in runs \cup Pending : rows[i].ext = None => disk[rows[i].name] # Absent)'
  <2>1. CASE runs' \cup Pending' \subseteq runs \cup Pending
    BY <1>4, <2>1
  <2>2. ASSUME NEW k \in Callers, Insert(k)
        PROVE  \A i \in runs' \cup Pending' : rows'[i].ext = None => disk'[rows'[i].name] # Absent
    <3>0. PICK j : j = Len(rows) + 1
      OBVIOUS
    <3>1. At(k, "insert") /\ runs' = runs
          /\ Pending' = Pending \cup (IF k \in Web THEN {} ELSE {j})
      BY <2>2, <3>0, InsertRow, InsertPending
    <3>2. /\ rows'[j].name = call[k].name
          /\ rows'[j].ext = IF k \in Pollers THEN Head(call[k].todo) ELSE None
          /\ k \in Pollers => Head(call[k].todo) \in DriveFiles
      <4>1. rows'[j] = NewRow(k)
        BY <2>2, <3>0, InsertRow
      <4>2. /\ NewRow(k).name = call[k].name
            /\ NewRow(k).ext = IF k \in Pollers THEN Head(call[k].todo) ELSE None
            /\ k \in Pollers => Head(call[k].todo) \in DriveFiles
        BY <3>1, NewRowType
      <4> QED BY <4>1, <4>2
    <3>3. k \in Watch => disk[call[k].name] # Absent /\ call[k].name \in Names
      BY <3>1 DEF TypeInv, CallInv, Holding, At
    <3>4. (k \in Watch \/ k \in Pollers) /\ rows'[j].ext = None => disk'[rows'[j].name] # Absent
      <4>1. k \in Pollers => rows'[j].ext # None
        BY <3>2, Data
      <4>2. k \in Watch => disk'[rows'[j].name] # Absent
        BY <1>1, <3>2, <3>3 DEF Grows
      <4> QED BY <4>1, <4>2
    <3> QED BY <1>4, <3>1, <3>4, Roles
  <2>3. ASSUME NEW k \in Callers, WriteUpload(k)
        PROVE  \A i \in runs' \cup Pending' : rows'[i].ext = None => disk'[rows'[i].name] # Absent
    <3>0. PICK r : r = call[k].id
      OBVIOUS
    <3>1. /\ runs' = runs \cup {r} /\ Pending' = Pending /\ r \in Ids
          /\ disk'[rows[r].name] \in Contents
      BY <2>3, <3>0, UploadStarts
    <3>2. disk'[rows'[r].name] # Absent
      BY <1>3, <3>1, Data DEF RowKept
    <3> QED BY <1>4, <3>1, <3>2
  <2> QED BY <1>1, <2>1, <2>2, <2>3, RunsStep
<1>6. MissingOnlyFromDrive'
  <2>1. CASE RowsAlike
    BY <2>1 DEF RowsAlike, RowsSame, RowKept, FoundInv, MissingOnlyFromDrive, Ids
  <2>2. ASSUME NEW k \in Callers, Insert(k) PROVE MissingOnlyFromDrive'
    <3>0. PICK j : j = Len(rows) + 1
      OBVIOUS
    <3>1. Ids' = Ids \cup {j} /\ rows'[j].got = Unread /\ \A i \in Ids : rows'[i] = rows[i]
      BY <2>2, <3>0, InsertRow, NewRowType
    <3> QED BY <3>1, Data DEF FoundInv, MissingOnlyFromDrive
  <2>3. ASSUME NEW i \in Ids, Extract(i) PROVE MissingOnlyFromDrive'
    <3>1. /\ i \in runs /\ rows'[i].got = disk[rows[i].name] /\ Ids' = Ids
          /\ \A j \in Ids : j # i => rows'[j] = rows[j]
      BY <2>3, Extracted DEF Extract, RowsSame, Ids
    <3> QED BY <1>3, <3>1 DEF FoundInv, MissingOnlyFromDrive, RowKept
  <2> QED BY <2>1, <2>2, <2>3, RowsStep
<1> QED BY <1>5, <1>6 DEF FoundInv

\* Only a Drive file's run can find no file.
THEOREM FoundSound == Spec => []MissingOnlyFromDrive
<1>1. Spec => [](TypeInv /\ FoundInv)
  BY TypeInit, TypeStep, FoundInit, FoundStep, PTL DEF Spec
<1> QED BY <1>1, PTL DEF FoundInv

-----------------------------------------------------------------------------
(* The files *)

\* A name that has no row is free, being copied, or copied.
Copies ==
    /\ \A n \in Names : HasRow(n) \/ \/ disk[n] = Absent /\ copying[n] = Absent
                                     \/ disk[n] = Empty /\ n \in partial
                                     \/ disk[n] \in Contents /\ n \notin partial
    /\ \A f \in DriveFiles : disk[FileName[f]] # Empty

\* A row stands for what it holds; it held the empty file only if it came with it.
Held ==
    \A i \in Ids : /\ rows[i].hash \in rows[i].held /\ rows[i].want \in rows[i].held
                   /\ Empty \in rows[i].held => rows[i].want = Empty
                   /\ rows[i].name \in UserNames => rows[i].ext = None

\* A run that is to come finds an empty file only for a row of an empty file.
Fresh == \A i \in runs \cup Pending : disk[rows[i].name] = Empty => rows[i].want = Empty

\* What a watcher has read: nothing yet, or what the file still holds.
Watched(k) ==
    call[k].pc \in {"check", "insert"} =>
      \/ call[k].content = Empty
      \/ /\ disk[call[k].name] # Empty
         /\ HasRow(call[k].name) \/ call[k].content = disk[call[k].name]

FileInv == /\ FoundInv /\ Copies /\ Held /\ Fresh
           /\ \A k \in Watch : Watched(k)

LEMMA HasRowStays == ASSUME Grows PROVE \A n : HasRow(n) => HasRow(n)'
  BY DEF Grows, RowKept, HasRow

\* What happens to the file of a name.
LEMMA FileStep ==
  ASSUME TypeInv, [Next]_vars, NEW n \in Names
  PROVE  \/ disk'[n] = disk[n] /\ (n \in partial' <=> n \in partial)
         \/ /\ n \in UserNames /\ disk[n] = Absent /\ disk'[n] = Empty /\ n \in partial'
            /\ n \in created'
         \/ /\ n \in UserNames /\ n \in partial /\ disk'[n] = copying[n] /\ n \notin partial'
            /\ disk'[n] \in Contents /\ UNCHANGED copying
         \/ /\ disk'[n] \in Contents
            /\ \E j \in Ids : rows[j].name = n /\ rows[j].want = disk'[n]
<1>1. /\ disk \in [Names -> Bytes \cup {Absent}] /\ partial \subseteq Names
      /\ copying \in [Names -> Contents \cup {Absent}] /\ UserNames \subseteq Names
  BY Data DEF TypeInv, TypeOK
<1>2. ASSUME NEW m \in UserNames, NEW c \in Contents, Drop(m, c), m # n
      PROVE  disk'[n] = disk[n] /\ (n \in partial' <=> n \in partial)
  BY <1>1, <1>2 DEF Drop
<1>3. ASSUME NEW c \in Contents, Drop(n, c)
      PROVE  disk[n] = Absent /\ disk'[n] = Empty /\ n \in partial' /\ n \in created'
  BY <1>1, <1>3 DEF Drop
<1>4. ASSUME NEW m \in UserNames, Copied(m), m # n
      PROVE  disk'[n] = disk[n] /\ (n \in partial' <=> n \in partial)
  BY <1>1, <1>4 DEF Copied
<1>5. ASSUME Copied(n)
      PROVE  /\ n \in partial /\ disk'[n] = copying[n] /\ n \notin partial'
             /\ disk'[n] \in Contents /\ UNCHANGED copying
  <2>1. copying[n] \in Contents
    BY <1>1, <1>5 DEF Copied, CopyInv, TypeInv
  <2> QED BY <1>1, <1>5, <2>1 DEF Copied
<1>6. ASSUME NEW k \in Callers, WriteUpload(k) \/ WriteDrive(k)
      PROVE  \/ disk'[n] = disk[n] /\ (n \in partial' <=> n \in partial)
             \/ /\ disk'[n] \in Contents
                /\ \E j \in Ids : rows[j].name = n /\ rows[j].want = disk'[n]
  <2>1. At(k, "write") /\ WriteFile(call[k].name, call[k].content)
    BY <1>6 DEF WriteUpload, WriteDrive
  <2>2. /\ call[k].id \in Ids /\ call[k].name \in Names /\ call[k].content \in Contents
        /\ rows[call[k].id].name = call[k].name /\ rows[call[k].id].want = call[k].content
    BY <2>1, ToWrite
  <2>3. /\ UNCHANGED partial /\ disk'[call[k].name] = call[k].content
        /\ \A m \in Names \ {call[k].name} : disk'[m] = disk[m]
    BY <2>1, <2>2, Written DEF TypeInv
  <2> QED BY <2>2, <2>3
<1>7. CASE UNCHANGED <<disk, copying, partial>>
  BY <1>7
<1> QED BY <1>2, <1>3, <1>4, <1>5, <1>6, <1>7, DiskStep

LEMMA CopiesStep == ASSUME TypeInv, Grows, Copies, [Next]_vars PROVE Copies'
<1>1. ASSUME NEW n \in Names, ~HasRow(n)'
      PROVE  (\/ disk[n] = Absent /\ copying[n] = Absent
              \/ disk[n] = Empty /\ n \in partial
              \/ disk[n] \in Contents /\ n \notin partial)'
  <2>1. ~HasRow(n) /\ \A j \in Ids : rows[j].name # n
    BY <1>1, HasRowStays DEF HasRow
  <2>2. disk'[n] = Absent => copying'[n] = Absent
    BY TypeStep DEF TypeInv, CopyInv
  <2> QED BY <2>1, <2>2, FileStep, Data DEF Copies
<1>2. ASSUME NEW f \in DriveFiles PROVE disk'[FileName[f]] # Empty
  BY FileStep, Data DEF Copies
<1> QED BY <1>1, <1>2 DEF Copies

\* What a row has held it keeps.
LEMMA HeldGrows ==
  ASSUME TypeInv, [Next]_vars
  PROVE  \A i \in Ids : rows[i].held \subseteq rows'[i].held
<1>1. RowsAlike => \A i \in Ids : rows[i].held \subseteq rows'[i].held
  BY DEF RowsAlike
<1>2. ASSUME NEW k \in Callers, Insert(k) PROVE \A i \in Ids : rows[i].held \subseteq rows'[i].held
  BY <1>2, InsertRow
<1>3. ASSUME NEW i \in Ids, Extract(i) PROVE \A j \in Ids : rows[j].held \subseteq rows'[j].held
  BY <1>3, Extracted
<1> QED BY <1>1, <1>2, <1>3, RowsStep

LEMMA HeldStep == ASSUME TypeInv, Held, Fresh, [Next]_vars PROVE Held'
<1>1. CASE RowsAlike
  BY <1>1 DEF RowsAlike, RowsSame, RowKept, Held, Ids
<1>2. ASSUME NEW k \in Callers, Insert(k) PROVE Held'
  <2>0. PICK j : j = Len(rows) + 1
    OBVIOUS
  <2>1. At(k, "insert") /\ Ids' = Ids \cup {j} /\ rows'[j] = NewRow(k) /\ \A i \in Ids : rows'[i] = rows[i]
    BY <1>2, <2>0, InsertRow
  <2>2. /\ rows'[j].hash = call[k].content /\ rows'[j].want = call[k].content
        /\ rows'[j].held = {call[k].content} /\ rows'[j].name = call[k].name
        /\ rows'[j].ext = IF k \in Pollers THEN Head(call[k].todo) ELSE None
        /\ k \in Pollers => Head(call[k].todo) \in DriveFiles
    BY <2>1, NewRowType
  <2>3. rows'[j].name \in UserNames => rows'[j].ext = None
    <3>1. k \in Pollers => call[k].name = FileName[Head(call[k].todo)]
      BY <2>1 DEF TypeInv, CallInv, Holding, At
    <3> QED BY <2>2, <3>1, Data
  <2> QED BY <2>1, <2>2, <2>3 DEF Held
<1>3. ASSUME NEW i \in Ids, Extract(i) PROVE Held'
  <2>1. /\ RowsSame /\ Ids' = Ids /\ \A j \in Ids : j # i => rows'[j] = rows[j]
        /\ i \in runs
    BY <1>3, Extracted DEF RowsSame, Ids, Extract
  <2>2. PICK c : c = disk[rows[i].name]
    OBVIOUS
  <2>3. /\ rows'[i].hash = IF c = Absent THEN rows[i].hash ELSE c
        /\ rows'[i].held = rows[i].held \cup ({c} \ {Absent})
    BY <1>3, <2>2, Extracted
  <2>4. c = Empty => rows[i].want = Empty
    BY <2>1, <2>2 DEF Fresh
  <2> QED BY <2>1, <2>3, <2>4, Data DEF Held, RowsSame, RowKept
<1> QED BY <1>1, <1>2, <1>3, RowsStep

LEMMA FreshStep ==
  ASSUME TypeInv, Grows, FoundInv, Copies, Held, Fresh, \A k \in Watch : Watched(k), [Next]_vars
  PROVE  Fresh'
<1>1. \A i \in Ids : i \in Ids' /\ RowKept(i) /\ rows[i].name \in Names
  BY RowName DEF Grows, TypeInv
<1>2. ASSUME NEW i \in runs \cup Pending, disk'[rows'[i].name] = Empty PROVE rows'[i].want = Empty
  <2>1. i \in Ids
    BY DEF TypeInv, TypeOK, Pending
  <2>2. disk'[rows[i].name] = Empty /\ rows[i].name \in Names
    BY <1>1, <1>2, <2>1 DEF RowKept
  <2>3. CASE disk'[rows[i].name] = disk[rows[i].name]
    BY <1>1, <2>1, <2>2, <2>3 DEF Fresh, RowKept
  <2>4. CASE rows[i].name \in UserNames /\ disk[rows[i].name] = Absent
    BY <2>1, <2>4 DEF Held, FoundInv
  <2>5. CASE disk'[rows[i].name] \in Contents
    BY <2>2, <2>5, Data
  <2> QED BY <2>2, <2>3, <2>4, <2>5, FileStep
<1>3. CASE runs' \cup Pending' \subseteq runs \cup Pending
  BY <1>2, <1>3 DEF Fresh
<1>4. ASSUME NEW k \in Callers, Insert(k) PROVE Fresh'
  <2>0. PICK j : j = Len(rows) + 1
    OBVIOUS
  <2>1. At(k, "insert") /\ runs' = runs /\ Pending' = Pending \cup (IF k \in Web THEN {} ELSE {j})
    BY <1>4, <2>0, InsertRow, InsertPending
  <2>2. rows'[j].name = call[k].name /\ rows'[j].want = call[k].content /\ UNCHANGED disk
    BY <1>4, <2>0, <2>1, InsertRow, NewRowType DEF Insert, diskVars
  <2>3. CASE k \in Pollers
    <3>1. call[k].name = FileName[Head(call[k].todo)] /\ Head(call[k].todo) \in DriveFiles
      BY <2>1, <2>3, NewRowType DEF TypeInv, CallInv, Holding, At
    <3>2. disk'[rows'[j].name] # Empty
      BY <2>2, <3>1 DEF Copies
    <3> QED BY <1>2, <2>1, <3>2 DEF Fresh
  <2>4. CASE k \in Watch
    <3>1. call[k].content = Empty \/ disk[call[k].name] # Empty
      BY <2>1, <2>4 DEF Watched, At
    <3> QED BY <1>2, <2>1, <2>2, <3>1 DEF Fresh
  <2>5. CASE k \in Web
    BY <1>2, <2>1, <2>5 DEF Fresh
  <2> QED BY <2>3, <2>4, <2>5, Roles
<1>5. ASSUME NEW k \in Callers, WriteUpload(k) PROVE Fresh'
  <2>0. PICK r : r = call[k].id
    OBVIOUS
  <2>1. r \in Ids /\ runs' = runs \cup {r} /\ Pending' = Pending /\ disk'[rows[r].name] \in Contents
    BY <1>5, <2>0, UploadStarts
  <2>2. disk'[rows'[r].name] # Empty
    BY <1>1, <2>1, Data DEF RowKept
  <2> QED BY <1>2, <2>1, <2>2 DEF Fresh
<1> QED BY <1>3, <1>4, <1>5, RunsStep

\* What a watcher does.
LEMMA WatcherStep ==
  ASSUME TypeInv, [Next]_vars, NEW k \in Watch
  PROVE  \/ call'[k] = call[k]
         \/ \E n \in Names : OnCreated(k, n)
         \/ ReadFile(k) \/ CheckHash(k) \/ Insert(k) \/ GiveUp(k) \/ Crash
<1> USE DEF Finish
<1>1. k \in Callers /\ k \notin Web /\ k \notin Pollers
  BY Roles
<1>2. ASSUME NEW q \in Callers, q # k, NEW c, Set(q, c) PROVE call'[k] = call[k]
  BY <1>1, <1>2, SetCall DEF TypeInv
<1>3. ASSUME NEW q \in Web, NEW n \in UserNames, NEW c \in Contents, Submit(q, n, c) PROVE call'[k] = call[k]
  BY <1>1, <1>2, <1>3, Roles DEF Submit
<1>4. ASSUME NEW q \in Watch, NEW n \in Names, OnCreated(q, n), q # k PROVE call'[k] = call[k]
  BY <1>2, <1>4, Roles DEF OnCreated
<1>5. ASSUME NEW q \in Callers, q # k,
             ReadFile(q) \/ CheckHash(q) \/ Insert(q) \/ ReadFails(q) \/ ImportFails(q)
      PROVE  call'[k] = call[k]
  <2>1. \E c : Set(q, c)
    BY <1>5 DEF ReadFile, CheckHash, Insert, ReadFails, ImportFails, GiveUp
  <2> QED BY <1>2, <1>5, <2>1
<1>6. ASSUME NEW q \in Callers, \/ WriteUpload(q) \/ WriteUploadFails(q) \/ PollSources(q) \/ CheckDrive(q)
                                \/ WriteDrive(q) \/ WriteDriveFails(q) \/ PollDone(q)
      PROVE  call'[k] = call[k]
  <2>1. q # k
    BY <1>1, <1>6 DEF WriteUpload, WriteUploadFails, PollSources, CheckDrive, WriteDrive, WriteDriveFails, PollDone
  <2>2. \E c : Set(q, c)
    BY <1>6 DEF WriteUpload, WriteUploadFails, PollSources, CheckDrive, WriteDrive, WriteDriveFails, PollDone
  <2> QED BY <1>2, <2>1, <2>2
<1>7. CASE \/ \E n \in UserNames : Copied(n) \/ \E c \in Contents : Drop(n, c)
           \/ \E f \in DriveFiles : AddToDrive(f)
           \/ PickUpFails \/ PickUpCommit \/ UNCHANGED vars
           \/ \E S \in SUBSET Pending : PickUp(S)
           \/ \E i \in Ids : Extract(i)
  BY <1>7 DEF Copied, Drop, AddToDrive, PickUpFails, PickUpCommit, vars, PickUp, Extract
<1>8. ReadFails(k) \/ ImportFails(k) => GiveUp(k)
  BY DEF ReadFails, ImportFails
<1> QED BY <1>1, <1>3, <1>4, <1>5, <1>6, <1>7, <1>8 DEF Next

\* The watcher's own steps.
LEMMA WatcherMoves ==
  ASSUME TypeInv, NEW k \in Watch
  PROVE  /\ \A n \in Names : OnCreated(k, n) =>
              \/ UNCHANGED call /\ HasRow(n)
              \/ call[k].pc = "idle" /\ call'[k].pc = "read" /\ call'[k].name = n
         /\ ReadFile(k) => /\ call'[k].pc = "check" /\ call'[k].name = call[k].name
                           /\ call'[k].content = disk[call[k].name] /\ UNCHANGED disk
         /\ CheckHash(k) =>
              \/ call'[k].pc = "idle" /\ call[k].pc = "check" /\ WithHash(call[k].content) # {}
              \/ /\ call'[k].pc = "insert" /\ call[k].pc = "check"
                 /\ call'[k].name = call[k].name /\ call'[k].content = call[k].content
         /\ Insert(k) \/ GiveUp(k) \/ Crash => call'[k].pc = "idle"
<1>1. k \in Callers /\ call[k] \in Call /\ NoCall.pc = "idle"
  BY Roles DEF TypeInv, TypeOK, NoCall
<1>2. \A n \in Names : OnCreated(k, n) =>
              \/ UNCHANGED call /\ HasRow(n)
              \/ call[k].pc = "idle" /\ call'[k].pc = "read" /\ call'[k].name = n
  <2>1. ASSUME NEW n \in Names, OnCreated(k, n), ~HasRow(n)
        PROVE  call[k].pc = "idle" /\ call'[k].pc = "read" /\ call'[k].name = n
    <3>1. call'[k] = [NoCall EXCEPT !.pc = "read", !.name = n] /\ call[k].pc = "idle"
      BY <1>1, <2>1, SetCall DEF OnCreated, HasRow, At, TypeInv
    <3> QED BY <3>1 DEF NoCall
  <2>2. ASSUME NEW n \in Names, OnCreated(k, n), HasRow(n) PROVE UNCHANGED call
    BY <2>2 DEF OnCreated, HasRow
  <2> QED BY <2>1, <2>2
<1>3. ReadFile(k) => /\ call'[k].pc = "check" /\ call'[k].name = call[k].name
                     /\ call'[k].content = disk[call[k].name] /\ UNCHANGED disk
  <2>1. ReadFile(k) => call'[k] = [call[k] EXCEPT !.pc = "check", !.content = disk[call[k].name]]
                       /\ UNCHANGED disk
    BY <1>1, SetCall DEF ReadFile, diskVars, TypeInv
  <2> QED BY <1>1, <2>1 DEF Call
<1>4. CheckHash(k) =>
              \/ call'[k].pc = "idle" /\ call[k].pc = "check" /\ WithHash(call[k].content) # {}
              \/ /\ call'[k].pc = "insert" /\ call[k].pc = "check"
                 /\ call'[k].name = call[k].name /\ call'[k].content = call[k].content
  <2>1. ASSUME CheckHash(k)
        PROVE  /\ call[k].pc = "check"
               /\ \/ call'[k] = NoCall /\ WithHash(call[k].content) # {}
                  \/ call'[k] = [call[k] EXCEPT !.pc = "insert", !.seen = Len(rows)]
    BY <1>1, <2>1, SetCall DEF CheckHash, Finish, At, TypeInv
  <2>2. ASSUME NEW m, call'[k] = [call[k] EXCEPT !.pc = "insert", !.seen = m]
        PROVE  /\ call'[k].pc = "insert" /\ call'[k].name = call[k].name
               /\ call'[k].content = call[k].content
    BY <1>1, <2>2 DEF Call
  <2>3. ASSUME CheckHash(k), call'[k] = NoCall
        PROVE  call'[k].pc = "idle" /\ call[k].pc = "check" /\ WithHash(call[k].content) # {}
    <3>1. NoCall.pc # "insert"
      BY DEF NoCall
    <3>2. call'[k] # [call[k] EXCEPT !.pc = "insert", !.seen = Len(rows)]
      BY <2>2, <2>3, <3>1
    <3> QED BY <1>1, <2>1, <2>3, <3>2
  <2>4. ASSUME CheckHash(k), call'[k] # NoCall
        PROVE  /\ call'[k].pc = "insert" /\ call[k].pc = "check"
               /\ call'[k].name = call[k].name /\ call'[k].content = call[k].content
    <3>1. call[k].pc = "check" /\ call'[k] = [call[k] EXCEPT !.pc = "insert", !.seen = Len(rows)]
      BY <2>1, <2>4
    <3> QED BY <2>2, <3>1
  <2> QED BY <2>3, <2>4
<1>5. Insert(k) \/ GiveUp(k) \/ Crash => call'[k].pc = "idle"
  BY <1>1, SetCall DEF Insert, GiveUp, Finish, Crash, TypeInv
<1> QED BY <1>2, <1>3, <1>4, <1>5

LEMMA WatchedStep ==
  ASSUME TypeInv, Grows, Copies, NEW k \in Watch, Watched(k), [Next]_vars
  PROVE  Watched(k)'
<1>1. SUFFICES ASSUME call'[k].pc \in {"check", "insert"} PROVE Watched(k)'
  BY DEF Watched
<1>2. ASSUME call'[k].name = call[k].name, call'[k].content = call[k].content,
             call[k].pc \in {"check", "insert"}
      PROVE  Watched(k)'
  <2>0. PICK n : n = call[k].name
    OBVIOUS
  <2>1. n \in Names /\ disk[n] # Absent
    BY <1>2, <2>0, Roles DEF TypeInv, CallInv, Holding, At
  <2>2. CASE call[k].content = Empty
    BY <1>2, <2>2 DEF Watched
  <2>3. CASE call[k].content # Empty
    <3>1. disk[n] # Empty /\ (HasRow(n) \/ call[k].content = disk[n])
      BY <1>2, <2>0, <2>3 DEF Watched
    <3>2. disk'[n] # Empty /\ (HasRow(n)' \/ disk'[n] = disk[n])
      <4>1. \A j \in Ids : rows[j].name = n => HasRow(n)
        BY DEF HasRow
      <4> QED BY <2>1, <3>1, <4>1, FileStep, HasRowStays, Data DEF Copies
    <3>3. disk'[n] # Empty /\ (HasRow(n)' \/ call[k].content = disk'[n])
      BY <3>1, <3>2, HasRowStays
    <3>4. call'[k].name = n
      BY <1>2, <2>0
    <3> QED BY <1>2, <3>3, <3>4 DEF Watched
  <2> QED BY <2>2, <2>3
<1>3. ASSUME call'[k].content = disk[call[k].name], call'[k].name = call[k].name, UNCHANGED disk
      PROVE  Watched(k)'
  BY <1>3 DEF Watched
<1>4. call'[k] = call[k] => Watched(k)'
  BY <1>1, <1>2
<1> QED BY <1>1, <1>2, <1>3, <1>4, WatcherStep, WatcherMoves

LEMMA FileInit == Init => FileInv
<1> SUFFICES ASSUME Init PROVE FileInv
  OBVIOUS
<1>1. Ids = {} /\ runs = {} /\ Pending = {}
  BY DEF Init, Ids, Pending
<1>2. \A k \in Watch : Watched(k)
  BY Roles DEF Init, Watched, NoCall
<1>3. \A n \in Names : disk[n] = Absent /\ copying[n] = Absent
  BY DEF Init
<1> QED BY <1>1, <1>2, <1>3, FoundInit, Data DEF FileInv, Copies, Held, Fresh

LEMMA FileInvStep == TypeInv /\ FileInv /\ [Next]_vars => FileInv'
<1> SUFFICES ASSUME TypeInv, FileInv, [Next]_vars PROVE FileInv'
  OBVIOUS
<1>1. Grows
  BY GrowsStep
<1>2. FoundInv' /\ Copies' /\ Held' /\ Fresh'
  BY <1>1, FoundStep, CopiesStep, HeldStep, FreshStep DEF FileInv
<1>3. \A k \in Watch : Watched(k)'
  BY <1>1, WatchedStep DEF FileInv
<1> QED BY <1>2, <1>3 DEF FileInv

-----------------------------------------------------------------------------
(* What the rows stand for *)

\* What is in a file comes from the user's copy or from a row of its name.
Sources ==
    \A n \in Names : disk[n] # Absent =>
      \/ disk[n] = Empty \/ disk[n] = copying[n]
      \/ \E j \in Ids : rows[j].name = n /\ rows[j].want = disk[n]

\* So does what a watcher has read.
ReadFrom(k) ==
    call[k].pc \in {"check", "insert"} =>
      \/ call[k].content = Empty \/ call[k].content = copying[call[k].name]
      \/ \E j \in Ids : rows[j].name = call[k].name /\ rows[j].want = call[k].content

\* A row of the watcher has the bytes of the user's copy, or shares its name.
Provenance(i) ==
    \/ rows[i].want = Empty \/ rows[i].want = copying[rows[i].name]
    \/ rows[i].by = "handler" \/ rows[i].name \notin UserNames \/ NameTaken(i)

Table ==
    /\ Sources /\ \A i \in Ids : Provenance(i)
    /\ DuplicatesRaced /\ DriveFileOnce /\ RightContent

\* What the look-up before an insert established, about the rows it saw.
Looked(k) ==
    /\ call[k].seen <= Len(rows)
    /\ \A i \in 1 .. call[k].seen :
         rows[i].want = call[k].content => rows[i].held # {rows[i].want}
    /\ k \in Pollers => \A i \in 1 .. call[k].seen : rows[i].ext # Head(call[k].todo)

Looks == \A k \in Callers : At(k, "insert") => Looked(k)

ContentInv == /\ Table /\ Looks
              /\ \A k \in Watch : ReadFrom(k)

\* A hash that replaced a row's own stays in its history.
LEMMA ReplacedStays ==
  ASSUME TypeInv, Held, [Next]_vars, NEW i \in Ids, rows[i].held # {rows[i].want}
  PROVE  rows'[i].held # {rows'[i].want}
<1>1. rows'[i].want = rows[i].want /\ rows[i].held \subseteq rows'[i].held /\ rows[i].want \in rows[i].held
  BY GrowsStep, HeldGrows DEF Grows, RowKept, Held
<1> QED BY <1>1

LEMMA TakenStays ==
  ASSUME Grows, NEW i \in Ids, NameTaken(i)
  PROVE  NameTaken(i)'
  BY DEF NameTaken, Grows, RowKept

LEMMA ReplacementStays ==
  ASSUME TypeInv, Grows, NEW i \in Ids, NEW c \in Bytes, Replacement(i, c)
  PROVE  Replacement(i, c)'
<1>1. /\ rows[i].name \in Names /\ c # Absent /\ \A j \in Ids : j \in Ids' /\ RowKept(j)
  BY RowName, Data DEF TypeInv, Grows
<1>2. c = copying[rows[i].name] => c = copying'[rows'[i].name]
  BY <1>1 DEF Grows, RowKept
<1> QED BY <1>1, <1>2, TakenStays DEF Replacement, RowKept

LEMMA ProvenanceStays ==
  ASSUME TypeInv, Grows, NEW i \in Ids, Provenance(i)
  PROVE  Provenance(i)'
<1>1. /\ rows[i].name \in Names /\ rows[i].want # Absent /\ RowKept(i)
  BY RowName, Data DEF TypeInv, Grows
<1>2. rows[i].want = copying[rows[i].name] => rows'[i].want = copying'[rows'[i].name]
  BY <1>1 DEF Grows, RowKept
<1> QED BY <1>1, <1>2, TakenStays DEF Provenance, RowKept

LEMMA SourcesStep == ASSUME TypeInv, Grows, Sources, [Next]_vars PROVE Sources'
<1> SUFFICES ASSUME NEW n \in Names, disk'[n] # Absent
             PROVE  \/ disk'[n] = Empty \/ disk'[n] = copying'[n]
                    \/ \E j \in Ids' : rows'[j].name = n /\ rows'[j].want = disk'[n]
  BY DEF Sources
<1>1. ASSUME NEW c, NEW j \in Ids, rows[j].name = n, rows[j].want = c
      PROVE  \E l \in Ids' : rows'[l].name = n /\ rows'[l].want = c
  BY <1>1 DEF Grows, RowKept
<1>2. CASE disk'[n] = disk[n]
  BY <1>1, <1>2 DEF Sources, Grows
<1> QED BY <1>1, <1>2, FileStep, Data

\* What a row is inserted with, and what its importer had looked up.
LEMMA TableInsert ==
  ASSUME TypeInv, Grows, Held, ContentInv, NEW k \in Callers, Insert(k), [Next]_vars
  PROVE  Table'
<1>0. PICK j : j = Len(rows) + 1
  OBVIOUS
<1>1. /\ At(k, "insert") /\ j \in Nat /\ j \notin Ids /\ Ids' = Ids \cup {j} /\ Len(rows) \in Nat
      /\ \A i \in Ids : rows'[i] = rows[i]
      /\ rows'[j].name = call[k].name /\ rows'[j].want = call[k].content
      /\ rows'[j].held = {call[k].content} /\ rows'[j].seen = call[k].seen
      /\ rows'[j].by = Origin(k)
      /\ rows'[j].ext = IF k \in Pollers THEN Head(call[k].todo) ELSE None
      /\ UNCHANGED <<disk, copying>>
  <2>1. At(k, "insert") /\ UNCHANGED <<disk, copying>>
    BY DEF Insert, diskVars
  <2>2. /\ NewRow(k).name = call[k].name /\ NewRow(k).want = call[k].content
        /\ NewRow(k).held = {call[k].content} /\ NewRow(k).seen = call[k].seen
        /\ NewRow(k).by = Origin(k)
        /\ NewRow(k).ext = IF k \in Pollers THEN Head(call[k].todo) ELSE None
    BY <2>1, NewRowType
  <2> QED BY <1>0, <2>1, <2>2, InsertRow
<1>2. Looked(k) /\ call[k].seen \in Nat /\ call[k].name \in Names
  <2>1. Looked(k) /\ call[k] \in Call
    BY <1>1 DEF ContentInv, Looks, TypeInv, TypeOK
  <2> QED BY <2>1, <1>1, NewRowType, InsertRow DEF Call, Upload
<1>3. \A i \in Ids : i \in Nat /\ i # 0 /\ i < j /\ ~(j <= i)
  BY <1>0, <1>1 DEF Ids
<1>4. \A i \in Ids' : Provenance(i)'
  <2>1. ASSUME NEW i \in Ids PROVE Provenance(i)'
    BY ProvenanceStays DEF ContentInv, Table
  <2>2. Provenance(j)'
    <3>1. CASE k \in Web
      BY <1>1, <3>1 DEF Provenance, Origin
    <3>2. CASE k \in Pollers
      <4>1. call[k].name = FileName[Head(call[k].todo)] /\ Head(call[k].todo) \in DriveFiles
        BY <1>1, <3>2, NewRowType DEF TypeInv, CallInv, Holding, At
      <4> QED BY <1>1, <4>1, Data DEF Provenance
    <3>3. CASE k \in Watch
      <4>1. ReadFrom(k) /\ call[k].pc = "insert"
        BY <1>1, <3>3 DEF ContentInv, At
      <4>2. ASSUME NEW i \in Ids, rows[i].name = call[k].name PROVE NameTaken(j)'
        BY <1>1, <4>2 DEF NameTaken
      <4> QED BY <1>1, <4>1, <4>2 DEF ReadFrom, Provenance
    <3> QED BY <3>1, <3>2, <3>3, Roles
  <2> QED BY <1>1, <2>1, <2>2
<1>5. DuplicatesRaced'
  <2>1. ASSUME NEW i \in Ids, rows[i].want = call[k].content
        PROVE  call[k].seen < i \/ rows[i].held # {rows[i].want}
    BY <1>2, <1>3, <2>1 DEF Looked
  <2>2. ASSUME NEW i \in Ids', NEW l \in Ids', i < l, rows'[i].want = rows'[l].want
        PROVE  rows'[l].seen < i \/ rows'[i].held # {rows'[i].want}
    <3>1. CASE l = j
      BY <1>1, <1>3, <2>1, <2>2, <3>1
    <3>2. CASE l # j
      <4>1. i \in Ids /\ l \in Ids
        BY <1>1, <1>3, <2>2, <3>2
      <4> QED BY <1>1, <2>2, <4>1 DEF ContentInv, Table, DuplicatesRaced
    <3> QED BY <3>1, <3>2
  <2> QED BY <2>2 DEF DuplicatesRaced
<1>6. DriveFileOnce'
  <2>1. ASSUME NEW i \in Ids, k \in Pollers, rows[i].ext = Head(call[k].todo) PROVE call[k].seen < i
    BY <1>2, <1>3, <2>1 DEF Looked
  <2>2. ASSUME NEW i \in Ids', NEW l \in Ids', i < l, rows'[i].ext = rows'[l].ext, rows'[i].ext # None
        PROVE  rows'[l].seen < i
    <3>1. CASE l = j
      BY <1>1, <1>3, <2>1, <2>2, <3>1
    <3>2. CASE l # j
      <4>1. i \in Ids /\ l \in Ids
        BY <1>1, <1>3, <2>2, <3>2
      <4> QED BY <1>1, <2>2, <4>1 DEF ContentInv, Table, DriveFileOnce
    <3> QED BY <3>1, <3>2
  <2> QED BY <2>2 DEF DriveFileOnce
<1>7. RightContent'
  <2>1. ASSUME NEW i \in Ids, NEW c \in rows[i].held \ {rows[i].want} PROVE Replacement(i, c)'
    <3>1. c \in Bytes /\ Replacement(i, c)
      BY RowName DEF ContentInv, Table, RightContent, TypeInv
    <3> QED BY <3>1, ReplacementStays
  <2> QED BY <1>1, <2>1 DEF RightContent
<1> QED BY <1>4, <1>5, <1>6, <1>7, SourcesStep DEF ContentInv, Table

LEMMA TableExtract ==
  ASSUME TypeInv, Grows, Held, Fresh, ContentInv, NEW i \in Ids, Extract(i), [Next]_vars
  PROVE  Table'
<1>0. PICK c : c = disk[rows[i].name]
  OBVIOUS
<1>1. /\ UNCHANGED <<disk, copying>> /\ Ids' = Ids /\ rows[i].name \in Names /\ i \in runs
      /\ c \in Bytes \cup {Absent} /\ \A j \in Ids : RowKept(j)
      /\ rows'[i].held = rows[i].held \cup ({c} \ {Absent})
      /\ \A j \in Ids : j # i => rows'[j] = rows[j]
  BY <1>0, Extracted DEF Extract, diskVars, RowsSame, Ids
<1>2. \A j \in Ids : Provenance(j)'
  BY ProvenanceStays DEF ContentInv, Table
<1>3. DuplicatesRaced' /\ DriveFileOnce'
  BY <1>1, ReplacedStays DEF ContentInv, Table, DuplicatesRaced, DriveFileOnce, RowKept
<1>4. ASSUME NEW j \in Ids, NEW b \in rows[j].held \ {rows[j].want} PROVE Replacement(j, b)'
  <2>1. b \in Bytes /\ Replacement(j, b)
    BY RowName DEF ContentInv, Table, RightContent, TypeInv
  <2> QED BY <2>1, ReplacementStays
<1>5. ASSUME c # Absent, c # rows[i].want PROVE Replacement(i, c)
  <2>1. c # Empty
    BY <1>0, <1>1, <1>5 DEF Fresh
  <2>2. CASE \E j \in Ids : rows[j].name = rows[i].name /\ rows[j].want = c
    BY <1>5, <2>2 DEF Replacement
  <2>3. CASE c = copying[rows[i].name]
    <3>1. rows[i].name \in UserNames
      BY <1>1, <1>5, <2>3 DEF TypeInv, CopyInv
    <3>2. Provenance(i)
      BY DEF ContentInv, Table
    <3> QED BY <1>5, <2>3, <3>1, <3>2 DEF Provenance, Replacement
  <2> QED BY <1>0, <1>1, <1>5, <2>1, <2>2, <2>3 DEF ContentInv, Table, Sources
<1>6. RightContent'
  <2>1. ASSUME NEW j \in Ids, NEW b \in rows'[j].held \ {rows'[j].want} PROVE Replacement(j, b)'
    <3>1. CASE b \in rows[j].held
      BY <1>1, <1>4, <2>1, <3>1 DEF RowKept
    <3>2. CASE b \notin rows[j].held
      <4>1. j = i /\ b = c /\ c # Absent /\ c # rows[i].want
        BY <1>1, <2>1, <3>2 DEF RowKept
      <4>2. Replacement(i, c) /\ c \in Bytes
        BY <1>1, <1>5, <4>1
      <4> QED BY <4>1, <4>2, ReplacementStays
    <3> QED BY <3>1, <3>2
  <2> QED BY <1>1, <2>1 DEF RightContent
<1> QED BY <1>1, <1>2, <1>3, <1>6, SourcesStep DEF ContentInv, Table

\* All steps that leave the rows alike.
LEMMA TableStays ==
  ASSUME TypeInv, Grows, ContentInv, RowsAlike, [Next]_vars
  PROVE  Table'
<1>1. Ids' = Ids /\ \A i \in Ids : RowKept(i) /\ rows'[i].held = rows[i].held
  BY DEF RowsAlike, RowsSame, Ids
<1>2. DuplicatesRaced' /\ DriveFileOnce'
  BY <1>1 DEF ContentInv, Table, DuplicatesRaced, DriveFileOnce, RowKept
<1>3. RightContent'
  <2>1. ASSUME NEW i \in Ids, NEW c \in rows[i].held \ {rows[i].want} PROVE Replacement(i, c)'
    <3>1. c \in Bytes /\ Replacement(i, c)
      BY RowName DEF ContentInv, Table, RightContent, TypeInv
    <3> QED BY <3>1, ReplacementStays
  <2> QED BY <1>1, <2>1 DEF RightContent, RowKept
<1>4. \A i \in Ids' : Provenance(i)'
  BY <1>1, ProvenanceStays DEF ContentInv, Table
<1> QED BY <1>2, <1>3, <1>4, SourcesStep DEF ContentInv, Table

LEMMA ReadFromStep ==
  ASSUME TypeInv, Grows, Sources, NEW k \in Watch, ReadFrom(k), [Next]_vars
  PROVE  ReadFrom(k)'
<1> SUFFICES ASSUME call'[k].pc \in {"check", "insert"} PROVE ReadFrom(k)'
  BY DEF ReadFrom
<1>0. PICK n, c : n = call'[k].name /\ c = call'[k].content
  OBVIOUS
<1>1. ASSUME n \in Names, c \in Bytes,
             \/ c = Empty \/ c = copying[n]
             \/ \E j \in Ids : rows[j].name = n /\ rows[j].want = c
      PROVE  ReadFrom(k)'
  <2>1. c # Absent /\ \A j \in Ids : j \in Ids' /\ RowKept(j)
    BY <1>1, Data DEF Grows
  <2>2. c = copying[n] => c = copying'[n]
    BY <1>1, <2>1 DEF Grows
  <2>3. (\E j \in Ids : rows[j].name = n /\ rows[j].want = c)
        => \E j \in Ids' : rows'[j].name = n /\ rows'[j].want = c
    BY <2>1 DEF RowKept
  <2> QED BY <1>0, <1>1, <2>2, <2>3 DEF ReadFrom
<1>2. ASSUME n = call[k].name, c = call[k].content, call[k].pc \in {"check", "insert"}
      PROVE  ReadFrom(k)'
  <2>1. n \in Names /\ c \in Bytes
    BY <1>2, Roles DEF TypeInv, CallInv, Holding, At
  <2> QED BY <1>1, <1>2, <2>1 DEF ReadFrom
<1>3. ASSUME n = call[k].name, c = disk[n], ~At(k, "idle") PROVE ReadFrom(k)'
  <2>1. n \in Names /\ c \in Bytes
    BY <1>3, Roles DEF TypeInv, TypeOK, CallInv, Holding
  <2> QED BY <1>1, <1>3, <2>1, Data DEF Sources
<1>4. ReadFile(k) => ~At(k, "idle")
  BY DEF ReadFile, At
<1> QED BY <1>0, <1>2, <1>3, <1>4, WatcherStep, WatcherMoves

\* An importer comes to its insert by looking only.
LEMMA ToInsert ==
  ASSUME TypeInv, [Next]_vars, NEW k \in Callers, At(k, "insert")', call'[k] # call[k]
  PROVE  (CheckHash(k) \/ CheckDrive(k)) /\ call'[k] # NoCall
<1> USE DEF Finish
<1>1. NoCall.pc # "insert" /\ call'[k].pc = "insert"
  BY DEF NoCall, At
<1>2. ASSUME NEW q \in Callers, NEW c, Set(q, c), c.pc # "insert" PROVE FALSE
  BY <1>1, <1>2, SetCall DEF TypeInv
<1>3. call' # [q \in Callers |-> NoCall] /\ ~UNCHANGED call
  BY <1>1
<1>4. \A q \in Callers : call[q] \in Call /\ NextFile(q).pc = "check"
  BY DEF TypeInv, TypeOK, NextFile, NoCall
<1>5. ASSUME NEW q \in Callers, CheckHash(q) \/ CheckDrive(q) PROVE q = k
  <2>1. \E c : Set(q, c)
    BY <1>5 DEF CheckHash, CheckDrive
  <2> QED BY <2>1, SetCall DEF TypeInv
<1>6. \A q \in Web, n \in UserNames, c \in Contents : ~Submit(q, n, c)
  BY <1>2, Roles DEF Submit, NoCall
<1>7. \A q \in Watch, n \in Names : ~OnCreated(q, n)
  BY <1>2, <1>3, Roles DEF OnCreated, NoCall
<1>8. \A q \in Callers : /\ ~ReadFile(q) /\ ~Insert(q) /\ ~WriteDrive(q) /\ ~PollSources(q)
                         /\ ~ReadFails(q) /\ ~ImportFails(q)
  <2>1. \A q \in Callers : ~ReadFile(q)
    BY <1>2, <1>4 DEF ReadFile, Call
  <2>2. \A q \in Callers : ~Insert(q)
    BY <1>1, <1>2, <1>4 DEF Insert, Call
  <2>3. \A q \in Callers : ~WriteDrive(q)
    BY <1>2, <1>4 DEF WriteDrive
  <2>4. \A q \in Callers : ~PollSources(q)
    BY <1>2 DEF PollSources, NoCall
  <2>5. \A q \in Callers : ~ReadFails(q) /\ ~ImportFails(q)
    BY <1>1, <1>2 DEF ReadFails, ImportFails, GiveUp
  <2> QED BY <2>1, <2>2, <2>3, <2>4, <2>5
<1>9. \A q \in Callers : ~WriteUpload(q) /\ ~WriteUploadFails(q) /\ ~WriteDriveFails(q) /\ ~PollDone(q)
  BY <1>1, <1>2 DEF WriteUpload, WriteUploadFails, WriteDriveFails, PollDone
<1>10. CASE \/ \E n \in UserNames : Copied(n) \/ \E c \in Contents : Drop(n, c)
            \/ \E f \in DriveFiles : AddToDrive(f)
            \/ PickUpFails \/ PickUpCommit \/ Crash \/ UNCHANGED vars
            \/ \E S \in SUBSET Pending : PickUp(S)
            \/ \E i \in Ids : Extract(i)
  BY <1>3, <1>10 DEF Copied, Drop, AddToDrive, PickUpFails, PickUpCommit, Crash, vars, PickUp, Extract
<1> QED BY <1>1, <1>5, <1>6, <1>7, <1>8, <1>9, <1>10 DEF Next

LEMMA LooksStep == ASSUME TypeInv, Grows, Held, ContentInv, [Next]_vars PROVE Looks'
<1>1. SUFFICES ASSUME NEW k \in Callers, At(k, "insert")' PROVE Looked(k)'
  BY DEF Looks
<1>2. /\ Len(rows) \in Nat /\ Len(rows') \in Nat /\ Len(rows) <= Len(rows') /\ call[k] \in Call
      /\ Ids = 1 .. Len(rows)
  BY DEF Grows, TypeInv, TypeOK, Ids
<1>3. \A i \in Ids : /\ rows[i].held # {rows[i].want} => rows'[i].held # {rows'[i].want}
                     /\ RowKept(i)
  BY ReplacedStays DEF Grows
<1>4. CASE call'[k] = call[k]
  <2>1. Looked(k) /\ call[k].seen \in Nat
    BY <1>1, <1>2, <1>4 DEF ContentInv, Looks, At, Call
  <2>2. \A i \in 1 .. call[k].seen : i \in Ids
    BY <1>2, <2>1 DEF Looked
  <2> QED BY <1>2, <1>3, <1>4, <2>1, <2>2 DEF Looked, RowKept
<1>5. CASE CheckHash(k) /\ call'[k] # NoCall
  <2>1. /\ k \notin Pollers /\ WithHash(call[k].content) = {}
        /\ Set(k, [call[k] EXCEPT !.pc = "insert", !.seen = Len(rows)])
    BY <1>5, SetCall DEF CheckHash, Finish, TypeInv
  <2>2. call'[k].seen = Len(rows) /\ call'[k].content = call[k].content
    <3>1. call'[k] = [call[k] EXCEPT !.pc = "insert", !.seen = Len(rows)]
      BY <2>1, SetCall DEF TypeInv
    <3> QED BY <1>2, <3>1 DEF Call
  <2>3. \A i \in Ids : rows[i].want = call[k].content => rows[i].held # {rows[i].want}
    BY <2>1 DEF WithHash, Held
  <2> QED BY <1>2, <1>3, <2>1, <2>2, <2>3 DEF Looked, RowKept
<1>6. CASE CheckDrive(k) /\ call'[k] # NoCall /\ call'[k].pc = "insert"
  <2> DEFINE f == Head(call[k].todo)
  <2>1. IsFiniteSet(Matching(f))
    <3>1. Matching(f) \subseteq Ids
      BY DEF Matching, WithHash
    <3>2. IsFiniteSet(Ids)
      BY <1>2, FS_Interval
    <3> QED BY <3>1, <3>2, FS_Subset
  <2>2. /\ Cardinality(Matching(f)) = 0
        /\ Set(k, [call[k] EXCEPT !.pc = "insert", !.name = FileName[f], !.content = FileContent[f],
                                  !.seen = Len(rows)])
    <3>1. ~Set(k, NextFile(k)) /\ ~Finish(k)
      <4>1. NextFile(k).pc # "insert"
        BY DEF NextFile, NoCall
      <4> QED BY <1>6, <4>1, SetCall DEF Finish, TypeInv
    <3> QED BY <1>6, <3>1 DEF CheckDrive
  <2>3. Matching(f) = {}
    BY <2>1, <2>2, FS_EmptySet
  <2>4. call'[k].seen = Len(rows) /\ call'[k].content = FileContent[f] /\ call'[k].todo = call[k].todo
    <3>1. call'[k] = [call[k] EXCEPT !.pc = "insert", !.name = FileName[f],
                                     !.content = FileContent[f], !.seen = Len(rows)]
      BY <2>2, SetCall DEF TypeInv
    <3> QED BY <1>2, <3>1 DEF Call
  <2>5. \A i \in Ids : /\ rows[i].want = FileContent[f] => rows[i].held # {rows[i].want}
                       /\ rows[i].ext # f
    BY <2>3 DEF Matching, WithHash, Held
  <2> QED BY <1>2, <1>3, <2>4, <2>5 DEF Looked, RowKept
<1> QED BY <1>1, <1>4, <1>5, <1>6, ToInsert DEF At

LEMMA ContentInit == Init => ContentInv
<1> SUFFICES ASSUME Init PROVE ContentInv
  OBVIOUS
<1>1. Ids = {} /\ \A n \in Names : disk[n] = Absent
  BY DEF Init, Ids
<1>2. \A k \in Callers : ~At(k, "insert") /\ call[k].pc \notin {"check", "insert"}
  BY DEF Init, At, NoCall
<1>3. Table
  BY <1>1 DEF Table, Sources, DuplicatesRaced, DriveFileOnce, RightContent
<1> QED BY <1>2, <1>3, Roles DEF ContentInv, Looks, ReadFrom

LEMMA ContentStep == TypeInv /\ FileInv /\ ContentInv /\ [Next]_vars => ContentInv'
<1> SUFFICES ASSUME TypeInv, FileInv, ContentInv, [Next]_vars PROVE ContentInv'
  OBVIOUS
<1>1. Grows /\ Held /\ Fresh
  BY GrowsStep DEF FileInv
<1>2. Table'
  BY <1>1, RowsStep, TableInsert, TableExtract, TableStays
<1>3. \A k \in Watch : ReadFrom(k)'
  BY <1>1, ReadFromStep DEF ContentInv, Table
<1> QED BY <1>1, <1>2, <1>3, LooksStep DEF ContentInv

LEMMA ContentHolds == Spec => [](TypeInv /\ FileInv /\ ContentInv)
  BY TypeInit, TypeStep, FileInit, FileInvStep, ContentInit, ContentStep, PTL DEF Spec

\* Two rows for the same bytes need a look-up before the first row was there, or
\* a run that had replaced the first row's hash.
THEOREM DuplicatesSound == Spec => []DuplicatesRaced
  BY ContentHolds, PTL DEF ContentInv, Table

\* Two rows for the same Drive file need two overlapping polls.
THEOREM DriveOnceSound == Spec => []DriveFileOnce
  BY ContentHolds, PTL DEF ContentInv, Table

\* A run reads other bytes than its importer had only where another row or the
\* user's copy put them at its path.
THEOREM ContentSound == Spec => []RightContent
  BY ContentHolds, PTL DEF ContentInv, Table

-----------------------------------------------------------------------------
(* The runs *)

\* The handler that has committed row i and has not written its file.
Writing(i) == \E k \in Web : At(k, "write") /\ call[k].id = i

RunInv ==
    /\ job \subseteq Pending
    /\ \A i \in job : rows[i].got = Unread => i \in runs
    /\ RunOnce
    /\ \A i \in Pending \ job : rows[i].starts <= faults
    /\ \A k \in Web : At(k, "write") =>
         /\ rows[call[k].id].status = "processing" /\ rows[call[k].id].starts = 0
         /\ \A q \in Web : At(q, "write") /\ call[q].id = call[k].id => q = k
    /\ \A i \in Ids : rows[i].got = Unread => i \in lost \cup runs \cup Pending \/ Writing(i)

\* The handlers between their commit and their file stay where they are.
WritersStay ==
    \A k \in Web : (At(k, "write")' <=> At(k, "write")) /\ (At(k, "write") => call'[k] = call[k])

LEMMA OtherMoves ==
  ASSUME TypeInv, NEW q \in Callers, NEW c, Set(q, c), c.pc # "write", ~At(q, "write") \/ q \notin Web
  PROVE  WritersStay
<1>1. call'[q] = c /\ \A k \in Callers \ {q} : call'[k] = call[k]
  BY SetCall DEF TypeInv
<1> QED BY <1>1, Roles DEF WritersStay, At

LEMMA RunStays ==
  ASSUME TypeInv, RunInv, UNCHANGED <<rows, job, runs>>, lost \subseteq lost',
         Fault \/ UNCHANGED faults, WritersStay
  PROVE  RunInv'
<1>1. faults \in Nat /\ faults' \in Nat /\ faults <= faults' /\ \A i \in Ids : rows[i].starts \in Nat
  BY RowOf1 DEF Fault, TypeInv, TypeOK, Upload
<1>2. Ids' = Ids /\ Pending' = Pending
  BY DEF Ids, Pending
<1>3. RunOnce' /\ \A i \in Pending \ job : rows'[i].starts <= faults'
  <2>1. Pending \subseteq Ids
    BY DEF Pending
  <2> QED BY <1>1, <1>2, <2>1 DEF RunInv, RunOnce
<1>4. \A i : Writing(i) => Writing(i)'
  BY DEF Writing, WritersStay
<1>5. \A k \in Web : At(k, "write")' =>
         /\ rows'[call'[k].id].status = "processing" /\ rows'[call'[k].id].starts = 0
         /\ \A q \in Web : At(q, "write")' /\ call'[q].id = call'[k].id => q = k
  BY DEF RunInv, WritersStay
<1> QED BY <1>2, <1>3, <1>4, <1>5 DEF RunInv

LEMMA RunIdle ==
  ASSUME TypeInv, RunInv,
         \/ \E n \in UserNames : Copied(n) \/ \E c \in Contents : Drop(n, c)
         \/ \E f \in DriveFiles : AddToDrive(f)
         \/ \E k \in Web, n \in UserNames, c \in Contents : Submit(k, n, c)
         \/ \E k \in Watch, n \in Names : OnCreated(k, n)
         \/ \E k \in Callers : \/ ReadFile(k) \/ CheckHash(k) \/ WriteDrive(k)
                               \/ ReadFails(k) \/ ImportFails(k)
                               \/ PollSources(k) \/ CheckDrive(k) \/ WriteDriveFails(k) \/ PollDone(k)
         \/ UNCHANGED vars
  PROVE  RunInv'
<1>1. UNCHANGED <<rows, job, runs>> /\ lost \subseteq lost' /\ (Fault \/ UNCHANGED faults)
  BY DEF Copied, Drop, AddToDrive, Submit, OnCreated, ReadFile, CheckHash,
     ReadFails, ImportFails, GiveUp, WriteDrive, PollSources,
     CheckDrive, WriteDriveFails, PollDone, vars, runVars
<1>2. WritersStay
  <2> USE DEF Finish
  <2>1. UNCHANGED call => WritersStay
    BY DEF WritersStay, At
  <2>2. NoCall.pc # "write" /\ \A q \in Callers : NextFile(q).pc # "write"
    BY DEF NoCall, NextFile
  <2>3. ASSUME NEW k \in Web, NEW n \in UserNames, NEW c \in Contents, Submit(k, n, c) PROVE WritersStay
    BY <2>3, OtherMoves, Roles DEF Submit, At, NoCall
  <2>4. ASSUME NEW k \in Watch, NEW n \in Names, OnCreated(k, n) PROVE WritersStay
    BY <2>1, <2>4, OtherMoves, Roles DEF OnCreated, At, NoCall
  <2>5. ASSUME NEW k \in Callers, ReadFile(k) \/ CheckHash(k) PROVE WritersStay
    <3>1. call[k] \in Call /\ call[k].pc \in {"read", "check"}
      BY <2>5 DEF ReadFile, CheckHash, At, TypeInv, TypeOK
    <3>2. \A c, n : /\ [call[k] EXCEPT !.pc = "check", !.content = c].pc # "write"
                    /\ [call[k] EXCEPT !.pc = "insert", !.seen = n].pc # "write"
      BY <3>1 DEF Call
    <3>3. CASE ReadFile(k)
      BY <3>1, <3>2, <3>3, OtherMoves DEF ReadFile, At
    <3>4. CASE CheckHash(k)
      BY <2>2, <3>1, <3>2, <3>4, OtherMoves DEF CheckHash, At
    <3> QED BY <2>5, <3>3, <3>4
  <2>6. ASSUME NEW k \in Callers, k \in Pollers, NEW c, Set(k, c), c.pc # "write" PROVE WritersStay
    BY <2>6, OtherMoves, Roles
  <2>7. ASSUME NEW k \in Callers, WriteDrive(k) \/ WriteDriveFails(k) \/ PollDone(k) \/ PollSources(k)
        PROVE  WritersStay
    <3>1. k \in Pollers
      BY <2>7 DEF WriteDrive, WriteDriveFails, PollDone, PollSources
    <3>2. CASE WriteDrive(k)
      BY <2>2, <2>6, <3>1, <3>2 DEF WriteDrive
    <3>3. CASE WriteDriveFails(k) \/ PollDone(k)
      BY <2>2, <2>6, <3>1, <3>3 DEF WriteDriveFails, PollDone
    <3>4. CASE PollSources(k)
      <4>1. PICK t : Set(k, [NoCall EXCEPT !.pc = "check", !.todo = t])
        BY <3>4 DEF PollSources
      <4>2. [NoCall EXCEPT !.pc = "check", !.todo = t].pc # "write"
        BY DEF NoCall
      <4> QED BY <2>6, <3>1, <4>1, <4>2
    <3> QED BY <2>7, <3>2, <3>3, <3>4
  <2>8. ASSUME NEW k \in Callers, CheckDrive(k) PROVE WritersStay
    <3>1. k \in Pollers /\ call[k] \in Call /\ At(k, "check")
      BY <2>8 DEF CheckDrive, TypeInv, TypeOK
    <3>2. PICK d : Set(k, d) /\ d.pc # "write"
      <4> DEFINE f == Head(call[k].todo)
                 d == [call[k] EXCEPT !.pc = "insert", !.name = FileName[f], !.content = FileContent[f],
                                      !.seen = Len(rows)]
      <4>1. d.pc = "insert"
        BY <3>1 DEF Call
      <4> QED BY <2>2, <2>8, <4>1 DEF CheckDrive
    <3> QED BY <2>6, <3>1, <3>2
  <2>10. ASSUME NEW k \in Callers, ReadFails(k) \/ ImportFails(k) PROVE WritersStay
    BY <2>2, <2>10, OtherMoves DEF ReadFails, ImportFails, GiveUp, At
  <2>9. CASE \/ \E n \in UserNames : Copied(n) \/ \E c \in Contents : Drop(n, c)
             \/ \E f \in DriveFiles : AddToDrive(f)
             \/ UNCHANGED vars
    BY <2>1, <2>9 DEF Copied, Drop, AddToDrive, vars
  <2> QED BY <2>3, <2>4, <2>5, <2>7, <2>8, <2>9, <2>10
<1> QED BY <1>1, <1>2, RunStays

LEMMA RunInsert == ASSUME TypeInv, RunInv, NEW k \in Callers, Insert(k) PROVE RunInv'
<1>0. PICK j : j = Len(rows) + 1
  OBVIOUS
<1>1. /\ At(k, "insert") /\ Ids' = Ids \cup {j} /\ j \notin Ids /\ \A i \in Ids : rows'[i] = rows[i]
      /\ rows'[j] = NewRow(k) /\ UNCHANGED <<job, lost, faults>>
  BY <1>0, InsertRow DEF Insert, runVars
<1>2. rows'[j].starts = 0 /\ rows'[j].got = Unread
  BY <1>1, NewRowType
<1>3. /\ rows'[j].status = IF k \in Web THEN "processing" ELSE "pending"
      /\ Pending' = Pending \cup (IF k \in Web THEN {} ELSE {j}) /\ runs' = runs
  BY <1>0, InsertPending
<1>4. call'[k] = NoCall \/ (call'[k].pc = "write" /\ call'[k].id = j /\ k \notin Watch)
  <2>1. call[k] \in Call
    BY DEF TypeInv, TypeOK
  <2>2. CASE k \in Watch
    BY <2>2, SetCall DEF Insert, Finish, TypeInv
  <2>3. CASE k \notin Watch
    <3>1. call'[k] = [call[k] EXCEPT !.pc = "write", !.id = j]
      BY <1>0, <2>3, SetCall DEF Insert, TypeInv
    <3> QED BY <2>1, <2>3, <3>1 DEF Call
  <2> QED BY <2>2, <2>3
<1>5. \A q \in Callers \ {k} : call'[q] = call[q]
  <2>1. PICK c : Set(k, c)
    BY DEF Insert, Finish
  <2> QED BY <2>1, SetCall DEF TypeInv
<1>6. k \in Web => call'[k].pc = "write" /\ call'[k].id = j
  <2>1. ASSUME k \in Web PROVE call'[k].pc = "write" /\ call'[k].id = j
    <3>1. call[k] \in Call /\ k \notin Watch
      BY <2>1, Roles DEF TypeInv, TypeOK
    <3>2. call'[k] = [call[k] EXCEPT !.pc = "write", !.id = j]
      BY <1>0, <3>1, SetCall DEF Insert, TypeInv
    <3> QED BY <3>1, <3>2 DEF Call
  <2> QED BY <2>1
<1>7. faults \in Nat /\ \A q \in Web : At(q, "write") => call[q].id \in Ids
  BY ToWrite, Roles DEF TypeInv, TypeOK
<1>8. job \subseteq Pending /\ Pending \subseteq Ids /\ runs \subseteq Ids
  BY DEF RunInv, Pending, TypeInv, TypeOK
<1>9. RunOnce'
  BY <1>1, <1>2, <1>7 DEF RunInv, RunOnce
<1>10. /\ (job \subseteq Pending)'
       /\ \A i \in job' : rows'[i].got = Unread => i \in runs'
       /\ \A i \in Pending' \ job' : rows'[i].starts <= faults'
  BY <1>1, <1>2, <1>3, <1>7, <1>8 DEF RunInv
<1>11. \A q \in Web : At(q, "write")' =>
         /\ rows'[call'[q].id].status = "processing" /\ rows'[call'[q].id].starts = 0
         /\ \A l \in Web : At(l, "write")' /\ call'[l].id = call'[q].id => l = q
  <2>1. ASSUME NEW q \in Web, At(q, "write")'
        PROVE  IF q = k THEN call'[q].id = j ELSE call'[q] = call[q] /\ At(q, "write") /\ call'[q].id \in Ids
    BY <1>5, <1>6, <1>7, <2>1, Roles DEF At
  <2>2. ASSUME NEW q \in Web, At(q, "write")'
        PROVE  rows'[call'[q].id].status = "processing" /\ rows'[call'[q].id].starts = 0
    BY <1>1, <1>2, <1>3, <2>1, <2>2 DEF RunInv
  <2>3. ASSUME NEW q \in Web, At(q, "write")', NEW l \in Web, At(l, "write")', call'[l].id = call'[q].id
        PROVE  l = q
    BY <1>1, <2>1, <2>3 DEF RunInv
  <2> QED BY <2>2, <2>3
<1>12. \A i \in Ids' : rows'[i].got = Unread => i \in lost' \cup runs' \cup Pending' \/ Writing(i)'
  <2>1. \A i \in Ids : Writing(i) => Writing(i)'
    BY <1>1, <1>5, Roles DEF Writing, At
  <2>2. j \in Pending' \/ Writing(j)'
    BY <1>3, <1>6 DEF Writing, At
  <2> QED BY <1>1, <1>3, <2>1, <2>2 DEF RunInv
<1> QED BY <1>9, <1>10, <1>11, <1>12 DEF RunInv

\* The handler that was writing row r is done with it.
LEMMA WriterDone ==
  ASSUME TypeInv, RunInv, NEW k \in Web, At(k, "write"), Finish(k)
  PROVE  /\ \A q \in Web : At(q, "write")' =>
              q # k /\ At(q, "write") /\ call'[q] = call[q] /\ call[q].id # call[k].id
         /\ \A i : Writing(i) /\ i # call[k].id => Writing(i)'
<1>1. call'[k] = NoCall /\ \A q \in Callers \ {k} : call'[q] = call[q]
  BY SetCall, Roles DEF Finish, TypeInv
<1>2. NoCall.pc = "idle"
  BY DEF NoCall
<1> QED BY <1>1, <1>2, Roles DEF At, Writing, RunInv

LEMMA RunWrite ==
  ASSUME TypeInv, RunInv, NEW k \in Callers, WriteUpload(k) \/ WriteUploadFails(k)
  PROVE  RunInv'
<1>0. PICK r : r = call[k].id
  OBVIOUS
<1>1. k \in Web /\ At(k, "write") /\ Finish(k) /\ UNCHANGED job /\ r \in Ids
  BY <1>0, ToWrite DEF WriteUpload, WriteUploadFails, runVars
<1>2. /\ \A q \in Web : At(q, "write")' =>
              q # k /\ At(q, "write") /\ call'[q] = call[q] /\ call[q].id # r
      /\ \A i : Writing(i) /\ i # r => Writing(i)'
  BY <1>0, <1>1, WriterDone
<1>3. rows[r].status = "processing" /\ rows[r].starts = 0 /\ r \notin Pending /\ job \subseteq Pending
  BY <1>0, <1>1 DEF RunInv, Pending
<1>4. faults \in Nat /\ faults' \in Nat /\ faults <= faults' /\ \A i \in Ids : rows[i].starts \in Nat
  BY RowOf1 DEF WriteUpload, WriteUploadFails, Fault, TypeInv, TypeOK, Upload
<1>5. /\ Ids' = Ids /\ Pending' = Pending
      /\ \A i \in Ids : /\ rows'[i].got = rows[i].got /\ rows'[i].status = rows[i].status
                        /\ i # r => rows'[i].starts = rows[i].starts
      /\ rows'[r].starts \in 0 .. 1
  <2>1. CASE WriteUpload(k)
    BY <1>0, <1>1, <1>3, <2>1, StartedRow DEF WriteUpload, RowsSame, Ids, Pending
  <2>2. CASE WriteUploadFails(k)
    BY <1>1, <1>3, <2>2 DEF WriteUploadFails, Ids, Pending
  <2> QED BY <2>1, <2>2
<1>6. r \in runs' \cup lost' /\ runs \subseteq runs' /\ lost \subseteq lost'
  BY <1>0 DEF WriteUpload, WriteUploadFails, runVars
<1>7. Pending \subseteq Ids
  BY DEF Pending
<1>8. RunOnce'
  <2>1. ASSUME NEW i \in Ids, i # r PROVE rows'[i].starts <= 1 + faults'
    <3>1. rows'[i].starts = rows[i].starts /\ rows[i].starts \in Nat /\ rows[i].starts <= 1 + faults
      BY <1>4, <1>5, <2>1 DEF RunInv, RunOnce
    <3> QED BY <1>4, <3>1
  <2>2. rows'[r].starts <= 1 + faults'
    BY <1>4, <1>5
  <2> QED BY <1>5, <2>1, <2>2 DEF RunOnce
<1>9. /\ (job \subseteq Pending)'
      /\ \A i \in job' : rows'[i].got = Unread => i \in runs'
      /\ \A i \in Pending' \ job' : rows'[i].starts <= faults'
  BY <1>1, <1>3, <1>4, <1>5, <1>6, <1>7 DEF RunInv
<1>10. \A q \in Web : At(q, "write")' =>
         /\ rows'[call'[q].id].status = "processing" /\ rows'[call'[q].id].starts = 0
         /\ \A l \in Web : At(l, "write")' /\ call'[l].id = call'[q].id => l = q
  <2>1. \A q \in Web : At(q, "write") => call[q].id \in Ids
    BY ToWrite, Roles
  <2> QED BY <1>2, <1>5, <2>1 DEF RunInv
<1>11. \A i \in Ids' : rows'[i].got = Unread => i \in lost' \cup runs' \cup Pending' \/ Writing(i)'
  BY <1>2, <1>5, <1>6 DEF RunInv
<1> QED BY <1>8, <1>9, <1>10, <1>11 DEF RunInv

\* The job and the runs leave the handlers alone.
LEMMA RunJob ==
  ASSUME TypeInv, RunInv,
         \/ \E S \in SUBSET Pending : PickUp(S)
         \/ PickUpCommit \/ PickUpFails
         \/ \E i \in Ids : Extract(i)
  PROVE  RunInv'
<1>1. UNCHANGED <<call, lost>> /\ (\A i : Writing(i)' <=> Writing(i)) /\ \A q : At(q, "write")' <=> At(q, "write")
  BY DEF PickUp, PickUpCommit, PickUpFails, Extract, Writing, At
<1>2. faults \in Nat /\ faults' \in Nat /\ faults <= faults' /\ \A i \in Ids : rows[i].starts \in Nat
  <2>1. faults \in Nat /\ \A i \in Ids : rows[i].starts \in Nat
    BY RowOf1 DEF TypeInv, TypeOK, Upload
  <2>2. faults' = faults \/ faults' = faults + 1
    BY DEF PickUp, PickUpCommit, PickUpFails, Extract, Fault
  <2> QED BY <2>1, <2>2
<1>3. /\ Pending \subseteq Ids /\ job \subseteq Pending
      /\ \A q \in Web : At(q, "write") => call[q].id \in Ids /\ call[q].id \notin Pending
  BY ToWrite, Roles DEF Pending, RunInv
<1>4. ASSUME NEW S \in SUBSET Pending, PickUp(S) PROVE RunInv'
  <2>1. /\ job = {} /\ job' = S /\ runs' = runs \cup S /\ UNCHANGED faults
        /\ Ids' = Ids /\ Pending' = Pending
        /\ \A j \in Ids : /\ rows'[j].status = rows[j].status /\ rows'[j].got = rows[j].got
                          /\ rows'[j].starts = IF j \in S THEN rows[j].starts + 1 ELSE rows[j].starts
    BY <1>4, PickedUp DEF PickUp, RowsSame, Ids, Pending
  <2>2. RunOnce'
    BY <1>2, <1>3, <2>1 DEF RunInv, RunOnce
  <2>3. \A q \in Web : At(q, "write")' =>
         /\ rows'[call'[q].id].status = "processing" /\ rows'[call'[q].id].starts = 0
         /\ \A l \in Web : At(l, "write")' /\ call'[l].id = call'[q].id => l = q
    BY <1>1, <1>3, <2>1 DEF RunInv
  <2> QED BY <1>1, <1>3, <2>1, <2>2, <2>3 DEF RunInv
<1>5. CASE PickUpCommit
  <2>1. /\ job' = {} /\ runs' = runs /\ UNCHANGED faults /\ Ids' = Ids /\ Pending' = Pending \ job
        /\ \A j \in Ids : /\ rows'[j].starts = rows[j].starts /\ rows'[j].got = rows[j].got
                          /\ rows'[j].status = IF j \in job THEN "processing" ELSE rows[j].status
    BY <1>5, PickUpCommitted DEF PickUpCommit, RowsSame, Ids, Pending
  <2>2. RunOnce'
    BY <2>1 DEF RunInv, RunOnce
  <2>3. \A q \in Web : At(q, "write")' =>
         /\ rows'[call'[q].id].status = "processing" /\ rows'[call'[q].id].starts = 0
         /\ \A l \in Web : At(l, "write")' /\ call'[l].id = call'[q].id => l = q
    BY <1>1, <1>3, <2>1 DEF RunInv
  <2>4. \A i \in Pending' \ job' : rows'[i].starts <= faults'
    BY <1>3, <2>1 DEF RunInv
  <2>5. \A i \in Ids' : rows'[i].got = Unread => i \in lost' \cup runs' \cup Pending' \/ Writing(i)'
    BY <1>1, <1>3, <2>1 DEF RunInv
  <2> QED BY <2>1, <2>2, <2>3, <2>4, <2>5 DEF RunInv
<1>6. CASE PickUpFails
  <2>1. /\ job' = {} /\ UNCHANGED <<runs, rows>> /\ Ids' = Ids /\ Pending' = Pending
        /\ faults' = faults + 1
    BY <1>6 DEF PickUpFails, Ids, Pending, Fault
  <2>2. \A i \in Ids : rows[i].starts <= faults'
    BY <1>2, <2>1 DEF RunInv, RunOnce
  <2>3. RunOnce'
    BY <1>2, <2>1, <2>2 DEF RunOnce
  <2> QED BY <1>1, <1>3, <2>1, <2>2, <2>3 DEF RunInv
<1>7. ASSUME NEW r \in Ids, Extract(r) PROVE RunInv'
  <2>1. /\ job' = job /\ runs' = runs \ {r} /\ UNCHANGED faults /\ Ids' = Ids /\ Pending' = Pending
        /\ \A j \in Ids : /\ rows'[j].starts = rows[j].starts /\ rows'[j].status = rows[j].status
                          /\ j # r => rows'[j].got = rows[j].got
        /\ rows'[r].got # Unread
    <3>1. RowsSame /\ rows'[r].got \in Bytes \cup {Absent}
      BY <1>7, Extracted
    <3>2. Ids' = Ids /\ rows'[r].got # Unread
      BY <3>1, Data DEF RowsSame, Ids
    <3>3. \A j \in Ids : /\ rows'[j].starts = rows[j].starts /\ rows'[j].status = rows[j].status
                         /\ j # r => rows'[j].got = rows[j].got
      BY <1>7, Extracted
    <3>4. Pending' = Pending
      BY <3>2, <3>3 DEF Pending
    <3>5. job' = job /\ runs' = runs \ {r} /\ UNCHANGED faults
      BY <1>7 DEF Extract
    <3> QED BY <3>2, <3>3, <3>4, <3>5
  <2>2. RunOnce'
    BY <2>1 DEF RunInv, RunOnce
  <2>3. \A q \in Web : At(q, "write")' =>
         /\ rows'[call'[q].id].status = "processing" /\ rows'[call'[q].id].starts = 0
         /\ \A l \in Web : At(l, "write")' /\ call'[l].id = call'[q].id => l = q
    BY <1>1, <1>3, <2>1 DEF RunInv
  <2>4. /\ \A i \in job' : rows'[i].got = Unread => i \in runs'
        /\ \A i \in Ids' : rows'[i].got = Unread => i \in lost' \cup runs' \cup Pending' \/ Writing(i)'
    BY <1>1, <1>3, <2>1 DEF RunInv
  <2> QED BY <1>3, <2>1, <2>2, <2>3, <2>4 DEF RunInv
<1> QED BY <1>4, <1>5, <1>6, <1>7

LEMMA RunCrash == ASSUME TypeInv, RunInv, Crash PROVE RunInv'
<1>1. /\ UNCHANGED rows /\ job' = {} /\ runs' = {} /\ faults' = faults + 1
      /\ Ids' = Ids /\ Pending' = Pending
      /\ \A q \in Web : ~At(q, "write")'
      /\ lost \subseteq lost' /\ \A i \in runs : rows[i].status = "processing" => i \in lost'
      /\ \A k \in Callers : At(k, "write") => call[k].id \in lost'
  BY Roles DEF Crash, Fault, Ids, Pending, At, NoCall
<1>2. faults \in Nat /\ \A i \in Ids : rows[i].starts \in Nat /\ rows[i].starts <= 1 + faults
  BY RowOf1 DEF RunInv, RunOnce, TypeInv, TypeOK, Upload
<1>3. RunOnce' /\ \A i \in Pending' \ job' : rows'[i].starts <= faults'
  <2>1. Pending \subseteq Ids
    BY DEF Pending
  <2> QED BY <1>1, <1>2, <2>1 DEF RunOnce
<1>4. \A i \in Ids' : rows'[i].got = Unread => i \in lost' \cup runs' \cup Pending' \/ Writing(i)'
  <2>1. ASSUME NEW i \in Ids, rows[i].got = Unread PROVE i \in lost' \/ i \in Pending
    <3>1. rows[i].status \in {"pending", "processing"}
      BY RowOf1 DEF TypeInv, Upload
    <3> QED BY <1>1, <2>1, <3>1, Roles DEF RunInv, Writing, Pending
  <2> QED BY <1>1, <2>1
<1> QED BY <1>1, <1>3, <1>4 DEF RunInv

LEMMA RunInit == Init => RunInv
<1> SUFFICES ASSUME Init PROVE RunInv
  OBVIOUS
<1>1. Ids = {} /\ Pending = {} /\ job = {}
  BY DEF Init, Ids, Pending
<1>2. \A k \in Web : ~At(k, "write")
  BY Roles DEF Init, At, NoCall
<1> QED BY <1>1, <1>2 DEF RunInv, RunOnce

LEMMA RunStep == TypeInv /\ RunInv /\ [Next]_vars => RunInv'
  BY RunIdle, RunInsert, RunWrite, RunJob, RunCrash DEF Next

\* An upload is run once, and again only after a failed commit or a crash.
THEOREM RunOnceSound == Spec => []RunOnce
<1>1. Spec => [](TypeInv /\ RunInv)
  BY TypeInit, TypeStep, RunInit, RunStep, PTL DEF Spec
<1> QED BY <1>1, PTL DEF RunInv

\* When all is quiet every row has been read by a run or was stranded by a fault.
THEOREM UploadsSound == Spec => []NoUploadForgotten
<1>1. Spec => [](TypeInv /\ RunInv)
  BY TypeInit, TypeStep, RunInit, RunStep, PTL DEF Spec
<1>2. RunInv => NoUploadForgotten
  <2>1. Quiet => runs = {} /\ Pending = {} /\ \A i : ~Writing(i)
    BY Roles DEF Quiet, Writing, At
  <2> QED BY <2>1 DEF RunInv, NoUploadForgotten
<1> QED BY <1>1, <1>2, PTL

-----------------------------------------------------------------------------
(* The files dropped into the folder *)

Noticed(n) ==
    \/ HasRow(n) \/ n \in created \cup missed
    \/ \E k \in Watch : ~At(k, "idle") /\ call[k].name = n
    \/ disk[n] # Empty /\ \E i \in Ids : disk[n] \in rows[i].held

DropInv == \A n \in Names : disk[n] # Absent => Noticed(n)

LEMMA EventsStay ==
  ASSUME TypeInv, [Next]_vars
  PROVE  /\ missed \subseteq missed'
         /\ created \subseteq created' \/ Crash \/ \E k \in Watch, n \in Names : OnCreated(k, n)
<1> USE DEF diskVars, worldVars
<1>1. ASSUME NEW k \in Callers, WriteUpload(k) \/ WriteDrive(k)
      PROVE  created \subseteq created' /\ UNCHANGED missed
  BY <1>1 DEF WriteUpload, WriteDrive, WriteFile
<1>2. CASE \/ \E n \in UserNames : Copied(n) \/ \E c \in Contents : Drop(n, c)
           \/ \E f \in DriveFiles : AddToDrive(f)
           \/ \E k \in Web, n \in UserNames, c \in Contents : Submit(k, n, c)
           \/ \E k \in Callers : \/ ReadFile(k) \/ CheckHash(k) \/ WriteUploadFails(k) \/ Insert(k)
                                 \/ ReadFails(k) \/ ImportFails(k)
                                 \/ PollSources(k) \/ CheckDrive(k) \/ WriteDriveFails(k) \/ PollDone(k)
           \/ PickUpFails \/ PickUpCommit \/ UNCHANGED vars
           \/ \E S \in SUBSET Pending : PickUp(S)
           \/ \E i \in Ids : Extract(i)
  BY <1>2 DEF Drop, Copied, AddToDrive, Submit, ReadFile, CheckHash,
     ReadFails, ImportFails, GiveUp, WriteUploadFails, Insert, PollSources,
     CheckDrive, WriteDriveFails, PollDone, PickUpFails, PickUpCommit, PickUp, Extract, vars
<1>3. ASSUME NEW k \in Watch, NEW n \in Names, OnCreated(k, n) PROVE UNCHANGED missed
  BY <1>3 DEF OnCreated
<1>4. Crash => missed \subseteq missed'
  BY DEF Crash
<1> QED BY <1>1, <1>2, <1>3, <1>4 DEF Next

LEMMA NoticedStep ==
  ASSUME TypeInv, Grows, Copies, Held, \A k \in Watch : Watched(k), [Next]_vars,
         NEW n \in Names, disk'[n] # Absent, disk[n] # Absent => Noticed(n)
  PROVE  Noticed(n)'
<1>1. /\ HasRow(n) => HasRow(n)'
      /\ \A i \in Ids : i \in Ids' /\ rows[i].held \subseteq rows'[i].held /\ rows'[i].want = rows[i].want
  BY HasRowStays, HeldGrows DEF Grows, RowKept
<1>2. CASE HasRow(n)
  BY <1>1, <1>2 DEF Noticed
<1>3. CASE n \in created'
  BY <1>3 DEF Noticed
<1>4. CASE ~HasRow(n) /\ n \notin created'
  <2>0. \A j \in Ids : rows[j].name # n
    BY <1>4 DEF HasRow
  <2>1. disk[n] # Absent
    BY <1>4, <2>0, FileStep, Data DEF Copies
  <2>2. disk[n] # Empty => disk'[n] = disk[n]
    BY <1>4, <2>0, <2>1, FileStep DEF Copies
  <2>3. disk[n] # Empty /\ (\E i \in Ids : disk[n] \in rows[i].held) => Noticed(n)'
    BY <1>1, <2>2 DEF Noticed
  <2>4. n \in missed => Noticed(n)'
    BY EventsStay DEF Noticed
  <2>5. ASSUME NEW k \in Watch, ~At(k, "idle"), call[k].name = n PROVE Noticed(n)'
    <3>1. CASE call'[k].name = n /\ call'[k].pc # "idle"
      BY <3>1 DEF Noticed, At
    <3>2. CASE CheckHash(k) /\ call[k].pc = "check" /\ WithHash(call[k].content) # {}
      <4>1. CASE call[k].content = Empty
        <5>1. n \in missed'
          BY <2>5, <3>2, <4>1 DEF CheckHash
        <5> QED BY <5>1 DEF Noticed
      <4>2. CASE call[k].content # Empty
        <5>1. disk[n] # Empty /\ call[k].content = disk[n]
          BY <1>4, <2>5, <3>2, <4>2 DEF Watched
        <5>2. PICK i \in Ids : rows[i].hash = call[k].content
          BY <3>2 DEF WithHash
        <5>3. call[k].content \in rows[i].held
          BY <5>2 DEF Held
        <5> QED BY <2>3, <5>1, <5>3
      <4> QED BY <4>1, <4>2
    <3>3. CASE Insert(k)
      <4>1. k \in Callers /\ Len(rows) + 1 \in Ids' /\ rows'[Len(rows) + 1].name = n
        BY <2>5, <3>3, InsertRow, NewRowType, Roles
      <4> QED BY <4>1 DEF Noticed, HasRow
    <3>4. CASE Crash
      BY <2>5, <3>4 DEF Crash, Noticed
    <3>9. CASE GiveUp(k)
      <4>1. n \in missed'
        BY <2>5, <3>9 DEF GiveUp
      <4> QED BY <4>1 DEF Noticed
    <3>5. CASE ReadFile(k)
      BY <2>5, <3>1, <3>5, WatcherMoves
    <3>6. CASE call'[k] = call[k]
      BY <2>5, <3>1, <3>6 DEF At
    <3>7. ASSUME NEW m \in Names, OnCreated(k, m) PROVE Noticed(n)'
      BY <2>5, <3>6, <3>7 DEF OnCreated
    <3>8. CASE CheckHash(k)
      BY <2>5, <3>1, <3>2, <3>8, WatcherMoves
    <3> QED BY <3>3, <3>4, <3>5, <3>6, <3>7, <3>8, <3>9, WatcherStep
  <2>6. CASE n \in created
    <3>1. CASE Crash
      BY <2>6, <3>1 DEF Crash, Noticed
    <3>2. ASSUME NEW k \in Watch, NEW m \in Names, OnCreated(k, m) PROVE Noticed(n)'
      <4>1. m = n
        BY <1>4, <2>6, <3>2 DEF OnCreated
      <4>2. call'[k].pc = "read" /\ call'[k].name = n
        BY <1>4, <3>2, <4>1, WatcherMoves
      <4> QED BY <4>2 DEF Noticed, At
    <3> QED BY <1>4, <2>6, <3>1, <3>2, EventsStay
  <2> QED BY <1>4, <2>1, <2>3, <2>4, <2>5, <2>6 DEF Noticed
<1> QED BY <1>2, <1>3, <1>4

LEMMA DropInit == Init => DropInv
  BY DEF Init, DropInv

LEMMA DropStep == TypeInv /\ FileInv /\ DropInv /\ [Next]_vars => DropInv'
  BY GrowsStep, NoticedStep DEF FileInv, DropInv

\* When all is quiet every file in the folder has a row, or a row has held its
\* bytes, or its event came to nothing: in a crash, in a failed registration, or
\* because the file was still empty and so was that of another row.
THEOREM DropsSound == Spec => []NoDropForgotten
<1>1. Spec => [](TypeInv /\ FileInv /\ DropInv)
  BY TypeInit, TypeStep, FileInit, FileInvStep, DropInit, DropStep, PTL DEF Spec
<1>2. DropInv => NoDropForgotten
  <2>1. SUFFICES ASSUME DropInv, Quiet, NEW n \in Names, disk[n] # Absent, n \notin missed
                 PROVE  \E i \in Ids : rows[i].name = n \/ disk[n] \in rows[i].held
    BY DEF NoDropForgotten
  <2>2. created = {} /\ \A k \in Watch : At(k, "idle")
    BY <2>1, Roles DEF Quiet
  <2>3. Noticed(n)
    BY <2>1 DEF DropInv
  <2> QED BY <2>1, <2>2, <2>3 DEF Noticed, HasRow
<1> QED BY <1>1, <1>2, PTL

=============================================================================
