--------------------------- MODULE PipelineProofs ---------------------------
(***************************************************************************)
(* The published status never lies, for any number of posts, runs, shares, *)
(* faults and every choice of requests; and, under the operating           *)
(* conditions that each theorem names, consent, rejections, slots and at   *)
(* most one publication.                                                   *)
(***************************************************************************)
EXTENDS Pipeline, TLAPS

LEMMA NoPatchType == NoPatch \in Patch /\ NoRow \in Row
  BY DEF NoPatch, Patch, NoRow, Row, Statuses

LEMMA AdvanceRun ==
    ASSUME TypeOK, NEW r \in Runs, NEW n \in Nodes \cup {"end"},
           NEW s \in State, Advance(r, n, s)
    PROVE  /\ run' \in [Runs -> RunRec]
           /\ run'[r].pc = n /\ run'[r].st = s
           /\ \A q \in Runs \ {r} : run'[q] = run[q]
  <1> DEFINE new == [run[r] EXCEPT !.pc = n, !.st = s, !.unsaved = TRUE, !.upd = NoPatch]
  <1>1. run[r] \in RunRec /\ n \in PCs
    BY DEF TypeOK, PCs, Nodes
  <1>2. new \in RunRec /\ new.pc = n /\ new.st = s
    BY <1>1, NoPatchType DEF RunRec
  <1>3. run' = [run EXCEPT ![r] = new]
    BY DEF Advance
  <1> HIDE DEF new
  <1> QED BY <1>2, <1>3 DEF TypeOK

LEMMA GotoRun ==
    ASSUME TypeOK, NEW r \in Runs, NEW n \in PCs, Goto(r, n)
    PROVE  /\ run' \in [Runs -> RunRec]
           /\ run'[r].pc = n /\ run'[r].st = run[r].st
           /\ run'[r].unsaved = run[r].unsaved
           /\ \A q \in Runs \ {r} : run'[q] = run[q]
  BY DEF Goto, TypeOK, RunRec

LEMMA DiesRun ==
    ASSUME TypeOK, NEW r \in Runs, Dies(r)
    PROVE  /\ run' \in [Runs -> RunRec]
           /\ run'[r] = IdleRun
           /\ \A q \in Runs \ {r} : run'[q] = run[q]
  BY NoPatchType DEF Dies, TypeOK, RunRec, IdleRun, NoState, State, PCs, Origins

LEMMA StatusRow ==
    ASSUME TypeOK, NEW p \in Posts, NEW s \in Statuses, SetStatus(p, s)
    PROVE  /\ rows' \in [Posts -> Row]
           /\ rows'[p].status = s /\ rows'[p].lid = rows[p].lid
           /\ \A q \in Posts \ {p} : rows'[q] = rows[q]
  BY DEF SetStatus, TypeOK, Row

LEMMA RowType == ASSUME TypeOK, NEW p \in Posts PROVE rows[p] \in Row
  BY DEF TypeOK

\* What an assignment to one column does to a row.
LEMMA StatusColumn ==
    ASSUME NEW row \in Row, NEW x \in Statuses
    PROVE  /\ [row EXCEPT !.status = x] \in Row
           /\ [row EXCEPT !.status = x].status = x
           /\ [row EXCEPT !.status = x].lid = row.lid
  BY DEF Row

LEMMA HashColumn ==
    ASSUME NEW row \in Row
    PROVE  /\ [row EXCEPT !.hash = TRUE] \in Row
           /\ [row EXCEPT !.hash = TRUE].status = row.status
           /\ [row EXCEPT !.hash = TRUE].lid = row.lid
  BY DEF Row

LEMMA SlotColumn ==
    ASSUME NEW row \in Row, NEW x \in Slots
    PROVE  /\ [row EXCEPT !.slot = x] \in Row
           /\ [row EXCEPT !.slot = x].status = row.status
           /\ [row EXCEPT !.slot = x].lid = row.lid
  BY DEF Row

LEMMA ShareColumn ==
    ASSUME NEW row \in Row, NEW x \in {0} \cup ShareIds
    PROVE  /\ [row EXCEPT !.lid = x] \in Row
           /\ [row EXCEPT !.lid = x].status = row.status
           /\ [row EXCEPT !.lid = x].lid = x
           /\ [row EXCEPT !.lid = x].slot = row.slot
           /\ [row EXCEPT !.lid = x].hash = row.hash
  BY DEF Row

LEMMA RunState ==
    ASSUME TypeOK, NEW r \in Runs
    PROVE  run[r] \in RunRec /\ run[r].st \in State /\ run[r].upd \in Patch
  BY DEF TypeOK, RunRec

\* What a commit makes of a row.
LEMMA PatchedRow ==
    ASSUME NEW row \in Row, NEW u \in Patch
    PROVE  /\ Patched(row, u) \in Row
           /\ Patched(row, u).status =
                IF "status" \in u.cols THEN u.row.status ELSE row.status
           /\ Patched(row, u).lid = IF "lid" \in u.cols THEN u.row.lid ELSE row.lid
  <1>1. u.row \in Row
    BY DEF Patch
  <1> QED BY <1>1 DEF Patched, Row

LEMMA PatchType ==
    ASSUME NEW old \in Row, NEW new \in Row
    PROVE  /\ PatchOf(old, new) \in Patch
           /\ PatchOf(old, new).row = new
           /\ "lid" \in PatchOf(old, new).cols <=> old.lid # new.lid
           /\ "status" \in PatchOf(old, new).cols <=> old.status # new.status
           /\ old.slot = new.slot /\ old.hash = new.hash
                => PatchOf(old, new).cols \subseteq {"status", "lid"}
  BY DEF PatchOf, Patch, Columns

\* Row p keeps its share, and does not become "published".
Demoted(p) ==
    /\ rows'[p].lid = rows[p].lid
    /\ rows'[p].status = "published" => rows[p].status = "published"

\* What a transaction has in hand stays sound when its row is demoted at most.
LEMMA KeepsPatch ==
    ASSUME TypeOK, NEW p \in Posts, NEW u \in Patch, Demoted(p), UNCHANGED wiped,
           \A j \in ShareIds : owner[j] # 0 => owner'[j] = owner[j]
    PROVE  /\ CommitSound(p, u) => CommitSound(p, u)'
           /\ ClearSound(p, u) => ClearSound(p, u)'
  <1>1. p # 0 /\ u.row.lid \in {0} \cup ShareIds
    BY DEF Posts, Patch, Row
  <1> QED BY <1>1 DEF Demoted, CommitSound, ClearSound

LEMMA PatchesFrame ==
    ASSUME PublicationInv, UNCHANGED <<wiped, deleting, erase>>,
           \A p \in Posts : Demoted(p),
           \A j \in ShareIds : owner[j] # 0 => owner'[j] = owner[j],
           \A q \in Runs : run'[q] = run[q] \/ run'[q].pc \notin {"reset", "commit"}
    PROVE  PatchesSound'
  <1>0. TypeOK /\ PatchesSound
    BY DEF PublicationInv
  <1>1. ASSUME NEW q \in Runs
        PROVE  PatchSound(run[q])'
    <2>1. CASE run'[q].pc \notin {"reset", "commit"}
      BY <2>1 DEF PatchSound
    <2>2. CASE run'[q] = run[q] /\ run[q].pc \in {"reset", "commit"}
      <3>1. run[q].st.post \in Posts /\ run[q].upd \in Patch
        BY <1>0, <2>2, RunState DEF PublicationInv, RunsSound, Sound
      <3>2. PatchSound(run[q])
        BY <1>0 DEF PatchesSound
      <3>3. PICK p \in Posts, u \in Patch : p = run[q].st.post /\ u = run[q].upd
        BY <3>1
      <3>4. /\ CommitSound(p, u) => CommitSound(p, u)'
            /\ ClearSound(p, u) => ClearSound(p, u)'
        BY <1>0, KeepsPatch
      <3> QED BY <2>2, <3>2, <3>3, <3>4 DEF PatchSound
    <2> QED BY <2>1, <2>2
  <1>2. EraseSound'
    <2>1. CASE erase.cols # {}
      <3>1. deleting \in Posts /\ erase \in Patch /\ ClearSound(deleting, erase)
        BY <1>0, <2>1 DEF PatchesSound, EraseSound, TypeOK
      <3>2. PICK p \in Posts, u \in Patch : p = deleting /\ u = erase
        BY <3>1
      <3>3. ClearSound(p, u) => ClearSound(p, u)'
        BY <1>0, KeepsPatch
      <3> QED BY <1>0, <3>1, <3>2, <3>3 DEF PatchesSound, EraseSound
    <2> QED BY <2>1 DEF EraseSound
  <1> QED BY <1>1, <1>2 DEF PatchesSound

\* The frame of almost every action: LinkedIn and the saved checkpoint stay,
\* rows are demoted at most, only run r moves and its new state is sound.
LEMMA Frame ==
    ASSUME PublicationInv, TypeOK', NEW r \in Runs,
           UNCHANGED <<owner, ckpt, wiped, deleting, erase>>,
           \A p \in Posts : Demoted(p),
           \A q \in Runs \ {r} : run'[q] = run[q],
           Sound(owner, run'[r].pc, run'[r].st),
           run'[r].pc \notin {"reset", "commit"},
           run'[r].unsaved => run'[r].pc \in Nodes \cup {"end"}
    PROVE  PublicationInv'
  <1>1. RowsSound'
    BY DEF PublicationInv, TypeOK, RowsSound, Demoted, Row
  <1>2. RunsSound'
    BY DEF PublicationInv, RunsSound, Sound, ClaimsSuccess
  <1>3. CkptSound'
    BY DEF PublicationInv, CkptSound, Sound, ClaimsSuccess
  <1>4. PatchesSound'
    BY PatchesFrame
  <1> QED BY <1>1, <1>2, <1>3, <1>4 DEF PublicationInv

LEMMA InsertInv ==
    ASSUME PublicationInv, NEW r \in Runs, ExtractInserts(r)
    PROVE  PublicationInv'
  <1>0. TypeOK
    BY DEF PublicationInv
  <1>1. PICK p \in Posts :
          /\ rows[p] = NoRow
          /\ rows' = [rows EXCEPT ![p] = ResetRow]
          /\ said' = [said EXCEPT ![p] = {}]
          /\ Advance(r, "dedup", [run[r].st EXCEPT !.post = p])
    BY DEF ExtractInserts, NewPost
  <1> DEFINE s == [run[r].st EXCEPT !.post = p]
  <1>2. s \in State /\ s.post = p
    BY <1>0, RunState DEF State
  <1> HIDE DEF s
  <1>3. /\ run' \in [Runs -> RunRec]
        /\ run'[r].pc = "dedup" /\ run'[r].st = s
        /\ \A q \in Runs \ {r} : run'[q] = run[q]
    BY <1>0, <1>1, <1>2, AdvanceRun DEF Nodes, s
  <1>4. /\ rows' \in [Posts -> Row]
        /\ said' \in [Posts -> SUBSET {"approved", "rejected", "stray"}]
        /\ \A q \in Posts : Demoted(q)
    BY <1>0, <1>1 DEF TypeOK, Row, NoRow, ResetRow, Statuses, Demoted
  <1>5. TypeOK' /\ UNCHANGED <<owner, ckpt, wiped, deleting, erase>>
    BY <1>0, <1>3, <1>4
       DEF ExtractInserts, feedVars, threadVars, jobVars, deleteVars, envVars, TypeOK
  <1>6. Sound(owner, run'[r].pc, run'[r].st)
    BY <1>2, <1>3 DEF Sound
  <1> QED BY <1>3, <1>4, <1>5, <1>6, Frame DEF Nodes

\* A run reads its row and keeps what it is going to write.
LEMMA ReadFrame ==
    ASSUME PublicationInv, NEW r \in Runs, NEW n \in {"reset", "commit"}, NEW want \in Row,
           run[r].st.post \in Posts, ~run[r].unsaved, Reads(r, want, n),
           n = "commit" => CommitSound(run[r].st.post, PatchOf(rows[run[r].st.post], want)),
           n = "reset" => ClearSound(run[r].st.post, PatchOf(rows[run[r].st.post], want)),
           UNCHANGED <<dbVars, feedVars, threadVars, jobVars, envVars, said>>
    PROVE  PublicationInv'
  <1> DEFINE p == run[r].st.post
             u == PatchOf(rows[p], want)
  <1>0. TypeOK /\ rows[p] \in Row /\ run[r] \in RunRec
    BY RowType, RunState DEF PublicationInv
  <1>1. u \in Patch
    BY <1>0, PatchType
  <1>2. run' = [run EXCEPT ![r] = [run[r] EXCEPT !.pc = n, !.upd = u]]
    BY <1>0 DEF Reads, TypeOK
  <1> HIDE DEF u
  <1>3. /\ run' \in [Runs -> RunRec]
        /\ run'[r].pc = n /\ run'[r].st = run[r].st /\ run'[r].upd = u
        /\ ~run'[r].unsaved
        /\ \A q \in Runs \ {r} : run'[q] = run[q]
    BY <1>0, <1>1, <1>2 DEF TypeOK, RunRec, PCs
  <1>4. UNCHANGED <<rows, approval, owner, live, wiped, ckpt, fresh, due, actioned, clicks,
                    deleting, erase, requireApproval, now, faults, said>>
    BY DEF dbVars, feedVars, threadVars, jobVars, deleteVars, envVars
  <1>5. TypeOK'
    BY <1>0, <1>3, <1>4 DEF TypeOK
  <1>6. RowsSound' /\ CkptSound'
    BY <1>4 DEF PublicationInv, RowsSound, CkptSound
  <1>7. RunsSound'
    BY <1>3, <1>4 DEF PublicationInv, RunsSound, Sound
  <1>8. PatchesSound'
    <2>1. n = "commit" => CommitSound(p, u)
      BY DEF u
    <2>2. n = "reset" => ClearSound(p, u)
      BY DEF u
    <2>3. PatchSound(run[r])'
      BY <1>3, <1>4, <2>1, <2>2 DEF PatchSound, CommitSound, ClearSound
    <2>4. \A q \in Runs \ {r} : PatchSound(run[q])'
      BY <1>3, <1>4 DEF PublicationInv, PatchesSound, PatchSound, CommitSound, ClearSound
    <2>5. EraseSound'
      BY <1>4 DEF PublicationInv, PatchesSound, EraseSound, ClearSound
    <2> QED BY <2>3, <2>4, <2>5 DEF PatchesSound
  <1> QED BY <1>5, <1>6, <1>7, <1>8 DEF PublicationInv

\* The commit of a transaction that clears the share id of a row.
LEMMA ClearCommits ==
    ASSUME PublicationInv, NEW p \in Posts, NEW u \in Patch,
           ClearSound(p, u), Apply(p, u), NoteClear(p, u), UNCHANGED owner,
           \A q \in Runs : run'[q] = run[q] \/ run'[q].pc \notin {"reset", "commit"},
           erase' = NoPatch \/ UNCHANGED <<deleting, erase>>
    PROVE  rows' \in [Posts -> Row] /\ wiped' \subseteq Posts /\ RowsSound' /\ PatchesSound'
  <1>0. TypeOK /\ rows[p] \in Row /\ u.row \in Row
    BY RowType DEF PublicationInv, Patch
  <1>1. /\ rows' = [rows EXCEPT ![p] = Patched(rows[p], u)]
        /\ rows' \in [Posts -> Row]
        /\ rows'[p].status = IF "status" \in u.cols THEN u.row.status ELSE rows[p].status
        /\ rows'[p].lid = IF "lid" \in u.cols THEN u.row.lid ELSE rows[p].lid
        /\ \A q \in Posts \ {p} : rows'[q] = rows[q]
    BY <1>0, PatchedRow DEF Apply, TypeOK
  <1>2. /\ wiped' \subseteq Posts
        /\ \A q \in Posts \ {p} : q \in wiped' <=> q \in wiped
        /\ "status" \notin u.cols \/ Finalizing(p) => (p \in wiped => p \in wiped')
        /\ Finalizing(p) /\ "lid" \in u.cols => p \in wiped'
    BY <1>0 DEF NoteClear, TypeOK
  <1>3. /\ u.row.status # "published"
        /\ rows'[p].status = "published" =>
             /\ "status" \notin u.cols /\ rows[p].status = "published"
             /\ "lid" \in u.cols => p \in wiped'
    BY <1>1, <1>2 DEF ClearSound
  <1>4. RowsSound'
    <2>1. ASSUME NEW q \in Posts
          PROVE  /\ rows'[q].lid # 0 => owner[rows'[q].lid] = q
                 /\ rows'[q].status = "published" => rows'[q].lid # 0 \/ q \in wiped'
      <3>1. /\ rows[q].lid # 0 => owner[rows[q].lid] = q
            /\ rows[q].status = "published" => rows[q].lid # 0 \/ q \in wiped
        BY DEF PublicationInv, RowsSound
      <3>2. CASE q # p
        BY <1>1, <1>2, <3>1, <3>2
      <3>3. CASE q = p
        BY <1>1, <1>2, <1>3, <3>1, <3>3 DEF ClearSound
      <3> QED BY <3>2, <3>3
    <2> QED BY <2>1 DEF RowsSound
  <1>5. ASSUME NEW q \in Posts, NEW v \in Patch, ClearSound(q, v)
        PROVE  ClearSound(q, v)'
    <2>1. CASE q # p
      BY <1>1, <1>2, <1>5, <2>1 DEF ClearSound
    <2>2. CASE q = p
      BY <1>1, <1>2, <1>3, <1>5, <2>2 DEF ClearSound
    <2> QED BY <2>1, <2>2
  <1>6. ASSUME NEW q \in Posts, NEW v \in Patch, CommitSound(q, v), Finalizing(q)
        PROVE  CommitSound(q, v)'
    <2>1. CASE q # p
      BY <1>1, <1>2, <1>6, <2>1 DEF CommitSound
    <2>2. CASE q = p
      BY <1>1, <1>2, <1>6, <2>2 DEF CommitSound
    <2> QED BY <2>1, <2>2
  <1>7. PatchesSound'
    <2>1. ASSUME NEW q \in Runs
          PROVE  PatchSound(run[q])'
      <3>1. CASE run'[q].pc \notin {"reset", "commit"}
        BY <3>1 DEF PatchSound
      <3>2. CASE run'[q] = run[q] /\ run[q].pc \in {"reset", "commit"}
        <4>1. run[q].st.post \in Posts /\ run[q].upd \in Patch /\ PatchSound(run[q])
          BY <1>0, <3>2, RunState DEF PublicationInv, RunsSound, Sound, PatchesSound
        <4>2. run[q].pc = "commit" => Finalizing(run[q].st.post)
          BY DEF Finalizing
        <4> QED BY <1>5, <1>6, <3>2, <4>1, <4>2 DEF PatchSound
      <3> QED BY <3>1, <3>2
    <2>2. EraseSound'
      <3>1. CASE erase' = NoPatch
        BY <3>1 DEF NoPatch, EraseSound
      <3>2. CASE UNCHANGED <<deleting, erase>> /\ erase.cols # {}
        <4>1. deleting \in Posts /\ erase \in Patch /\ ClearSound(deleting, erase)
          BY <1>0, <3>2 DEF PublicationInv, PatchesSound, EraseSound, TypeOK
        <4>2. PICK q \in Posts, v \in Patch : q = deleting /\ v = erase
          BY <4>1
        <4>3. ClearSound(q, v)'
          BY <1>5, <4>1, <4>2
        <4> QED BY <1>0, <3>2, <4>1, <4>2, <4>3 DEF PublicationInv, PatchesSound, EraseSound
      <3> QED BY <3>1, <3>2 DEF EraseSound
    <2> QED BY <2>1, <2>2 DEF PatchesSound
  <1> QED BY <1>1, <1>2, <1>4, <1>7

LEMMA ResetInv ==
    ASSUME PublicationInv, NEW r \in Runs, ExtractReads(r) \/ ExtractResets(r)
    PROVE  PublicationInv'
  <1> DEFINE p == run[r].st.post
             u == run[r].upd
  <1>0. TypeOK /\ run[r] \in RunRec /\ run[r].st \in State /\ u \in Patch /\ ~run[r].unsaved
    BY RunState DEF PublicationInv, ExtractReads, ExtractResets, At
  <1>1. CASE ExtractReads(r)
    <2>1. p \in Posts /\ ResetRow \in Row /\ ResetRow.lid = 0 /\ ResetRow.status = "processing"
      BY <1>0, <1>1 DEF ExtractReads, State, ResetRow, NoRow, Row, Statuses
    <2>2. ClearSound(p, PatchOf(rows[p], ResetRow))
      BY <1>0, <2>1, RowType, PatchType DEF ClearSound
    <2>3. Reads(r, ResetRow, "reset")
      BY <1>1 DEF ExtractReads
    <2>4. UNCHANGED <<dbVars, feedVars, threadVars, jobVars, envVars, said>>
      BY <1>1 DEF ExtractReads
    <2> QED BY <1>0, <2>1, <2>2, <2>3, <2>4, ReadFrame
  <1>2. CASE ExtractResets(r)
    <2>1. p \in Posts /\ ClearSound(p, u)
      BY <1>2 DEF ExtractResets, At, PublicationInv, RunsSound, Sound, PatchesSound, PatchSound
    <2>2. /\ Apply(p, u) /\ NoteClear(p, u) /\ Advance(r, "dedup", run[r].st)
          /\ said' = [said EXCEPT ![p] = {}]
          /\ UNCHANGED <<approval, owner, live, threadVars, jobVars, envVars>>
      BY <1>2 DEF ExtractResets
    <2>3. /\ run' \in [Runs -> RunRec] /\ run'[r].pc = "dedup" /\ run'[r].st = run[r].st
          /\ \A q \in Runs \ {r} : run'[q] = run[q]
      BY <1>0, <2>2, AdvanceRun DEF Nodes
    <2>4. \A q \in Runs : run'[q] = run[q] \/ run'[q].pc \notin {"reset", "commit"}
      BY <2>3
    <2>5. UNCHANGED <<owner, ckpt, deleting, erase>>
      BY <2>2 DEF threadVars, jobVars, deleteVars
    <2>6. rows' \in [Posts -> Row] /\ wiped' \subseteq Posts /\ RowsSound' /\ PatchesSound'
      BY <1>0, <2>1, <2>2, <2>4, <2>5, ClearCommits
    <2>7. said' \in [Posts -> SUBSET {"approved", "rejected", "stray"}]
      BY <1>0, <2>2 DEF TypeOK
    <2>8. TypeOK'
      BY <1>0, <2>2, <2>3, <2>6, <2>7 DEF threadVars, jobVars, deleteVars, envVars, TypeOK
    <2>9. RunsSound'
      BY <2>1, <2>3, <2>5 DEF PublicationInv, RunsSound, Sound, Nodes
    <2>10. CkptSound'
      BY <2>5 DEF PublicationInv, CkptSound
    <2> QED BY <2>6, <2>8, <2>9, <2>10 DEF PublicationInv
  <1> QED BY <1>1, <1>2

\* Actions that neither write a row nor touch LinkedIn.
LEMMA QuietInv ==
    ASSUME PublicationInv, NEW r \in Runs,
           \/ SlotPasses(r) \/ Preview(r) \/ PublishAlreadyDone(r)
           \/ PublishProceeds(r) \/ PublishDry(r)
           \/ ApproveReuse(r) \/ NotifySlack(r) \/ ApproveInterrupts(r)
    PROVE  PublicationInv'
  <1>0. /\ TypeOK /\ run[r] \in RunRec /\ run[r].st \in State
        /\ Sound(owner, run[r].pc, run[r].st)
    BY RunState DEF PublicationInv, RunsSound
  <1>1. /\ UNCHANGED <<dbVars, feedVars, threadVars, jobVars, envVars, said>>
        /\ ~run[r].unsaved
    BY DEF SlotPasses, Preview, PublishAlreadyDone, PublishProceeds, PublishDry,
           ApproveReuse, NotifySlack, ApproveInterrupts, At
  <1>2. ASSUME run' \in [Runs -> RunRec],
               Sound(owner, run'[r].pc, run'[r].st),
               run'[r].pc \notin {"reset", "commit"},
               run'[r].unsaved => run'[r].pc \in Nodes \cup {"end"},
               \A q \in Runs \ {r} : run'[q] = run[q]
        PROVE  PublicationInv'
    <2>1. TypeOK' /\ UNCHANGED <<owner, ckpt, wiped, deleting, erase>> /\ \A p \in Posts : Demoted(p)
      BY <1>0, <1>1, <1>2 DEF dbVars, feedVars, threadVars, jobVars, deleteVars, envVars,
                             TypeOK, Demoted, Row
    <2> QED BY <1>2, <2>1, Frame
  <1>3. CASE SlotPasses(r) \/ Preview(r)
    <2>1. PICK n \in {"preview", "publish"} : Advance(r, n, run[r].st)
      BY <1>3 DEF SlotPasses, Preview
    <2>2. run[r].st.post \in Posts
      BY <1>0, <1>3 DEF SlotPasses, Preview, At, Sound
    <2> QED BY <1>0, <1>2, <2>1, <2>2, AdvanceRun DEF Sound, Nodes
  <1>4. CASE PublishAlreadyDone(r)
    <2> DEFINE p == run[r].st.post
               s == [run[r].st EXCEPT !.lid = rows[p].lid]
    <2>1. p \in Posts /\ rows[p].lid # 0 /\ Advance(r, "finalize", s)
      BY <1>0, <1>4 DEF PublishAlreadyDone, At, Sound
    <2>2. rows[p].lid \in ShareIds /\ owner[rows[p].lid] = p
      BY <1>0, <2>1 DEF PublicationInv, RowsSound, TypeOK, Row
    <2>3. s \in State /\ s.post = p /\ s.lid = rows[p].lid
      BY <1>0, <2>2 DEF State
    <2> HIDE DEF s
    <2> QED BY <1>0, <1>2, <2>1, <2>2, <2>3, AdvanceRun DEF Sound, Nodes
  <1>5. CASE PublishProceeds(r) \/ ApproveReuse(r) \/ NotifySlack(r)
    <2>1. PICK n \in {"call", "mark", "decide"} : Goto(r, n)
      BY <1>5 DEF PublishProceeds, ApproveReuse, NotifySlack
    <2>2. run[r].st.post \in Posts
      BY <1>0, <1>5 DEF PublishProceeds, ApproveReuse, NotifySlack, At, Sound
    <2> QED BY <1>0, <1>1, <1>2, <2>1, <2>2, GotoRun DEF Sound, PCs
  <1>6. CASE PublishDry(r)
    <2>1. run[r].st.post \in Posts /\ run[r].st.dry
      BY <1>0, <1>6 DEF PublishDry, At, Sound
    <2>2. /\ run' \in [Runs -> RunRec]
          /\ run'[r].pc = "record" /\ ~run'[r].unsaved
          /\ run'[r].st.post = run[r].st.post
          /\ run'[r].st.lid = 0 /\ run'[r].st.dry
          /\ \A q \in Runs \ {r} : run'[q] = run[q]
      BY <1>0, <1>1, <1>6, <2>1 DEF PublishDry, TypeOK, RunRec, State, PCs
    <2> QED BY <1>2, <2>1, <2>2 DEF Sound
  <1>7. CASE ApproveInterrupts(r)
    BY <1>0, <1>2, <1>7, DiesRun DEF ApproveInterrupts, Sound, IdleRun
  <1> QED BY <1>3, <1>4, <1>5, <1>6, <1>7

\* A node that fails the post and routes to finalize.
LEMMA GiveUpRun ==
    ASSUME TypeOK, NEW r \in Runs, run[r].st.post \in Posts,
           GiveUp(r, run[r].st.post)
    PROVE  /\ rows' \in [Posts -> Row] /\ run' \in [Runs -> RunRec]
           /\ \A p \in Posts : Demoted(p)
           /\ run'[r].pc = "finalize"
           /\ run'[r].st.post = run[r].st.post /\ run'[r].st.err
           /\ \A q \in Runs \ {r} : run'[q] = run[q]
  <1> DEFINE s == [run[r].st EXCEPT !.err = TRUE]
  <1>1. s \in State /\ s.post = run[r].st.post /\ s.err
    BY RunState DEF State
  <1>2. SetStatus(run[r].st.post, "failed") /\ Advance(r, "finalize", s)
    BY DEF GiveUp
  <1> HIDE DEF s
  <1>3. /\ run' \in [Runs -> RunRec] /\ run'[r].pc = "finalize" /\ run'[r].st = s
        /\ \A q \in Runs \ {r} : run'[q] = run[q]
    BY <1>1, <1>2, AdvanceRun DEF Nodes
  <1>4. rows' \in [Posts -> Row] /\ \A p \in Posts : Demoted(p)
    BY <1>2, StatusRow DEF Demoted, Statuses
  <1> QED BY <1>1, <1>3, <1>4

LEMMA GiveUpInv ==
    ASSUME PublicationInv, NEW r \in Runs, run[r].st.post \in Posts,
           GiveUp(r, run[r].st.post),
           UNCHANGED <<approval, feedVars, threadVars, jobVars, envVars, said>>
    PROVE  PublicationInv'
  <1>1. TypeOK
    BY DEF PublicationInv
  <1>2. TypeOK' /\ UNCHANGED <<owner, ckpt, wiped, deleting, erase>>
    BY <1>1, GiveUpRun DEF feedVars, threadVars, jobVars, deleteVars, envVars, TypeOK
  <1>3. Sound(owner, run'[r].pc, run'[r].st)
    BY <1>1, GiveUpRun DEF Sound, ClaimsSuccess
  <1> QED BY <1>1, <1>2, <1>3, GiveUpRun, Frame DEF Nodes

\* An exception: rows are at most marked failed, the run is gone.
LEMMA DeathInv ==
    ASSUME PublicationInv, NEW r \in Runs, MarkFailed(r), Dies(r),
           UNCHANGED <<approval, feedVars, threadVars, jobVars,
                       requireApproval, now, said>>,
           faults' \in 0 .. MaxFaults
    PROVE  PublicationInv'
  <1>1. TypeOK
    BY DEF PublicationInv
  <1>2. rows' \in [Posts -> Row] /\ \A p \in Posts : Demoted(p)
    <2>1. \A p \in Posts :
            rows'[p] = rows[p] \/ rows'[p] = [rows[p] EXCEPT !.status = "failed"]
      BY DEF MarkFailed
    <2>2. \A p \in Posts : rows'[p] \in Row /\ Demoted(p)
      <3> TAKE p \in Posts
      <3>1. rows[p] \in Row
        BY <1>1, RowType
      <3>2. CASE rows'[p] = rows[p]
        BY <3>1, <3>2 DEF Demoted
      <3>3. CASE rows'[p] = [rows[p] EXCEPT !.status = "failed"]
        <4> DEFINE new == [rows[p] EXCEPT !.status = "failed"]
        <4>1. new \in Row /\ new.status = "failed" /\ new.lid = rows[p].lid
          BY <3>1, StatusColumn DEF Statuses
        <4> HIDE DEF new
        <4>2. rows'[p] = new
          BY <3>3 DEF new
        <4> QED BY <4>1, <4>2 DEF Demoted
      <3> QED BY <2>1, <3>2, <3>3
    <2>3. rows' = [p \in Posts |-> rows'[p]]
      BY DEF MarkFailed
    <2> QED BY <2>2, <2>3
  <1>3. TypeOK' /\ UNCHANGED <<owner, ckpt, wiped, deleting, erase>>
    BY <1>1, <1>2, DiesRun DEF feedVars, threadVars, jobVars, deleteVars, TypeOK
  <1> QED BY <1>1, <1>2, <1>3, DiesRun, Frame DEF IdleRun, Sound

\* A node that writes a status other than "published" and goes on to node n.
LEMMA StatusInv ==
    ASSUME PublicationInv, NEW r \in Runs, NEW n \in Nodes \ {"finalize"},
           run[r].st.post \in Posts,
           rows' \in [Posts -> Row], \A p \in Posts : Demoted(p),
           Advance(r, n, run[r].st),
           UNCHANGED <<approval, feedVars, threadVars, jobVars, envVars, said>>
    PROVE  PublicationInv'
  <1>1. TypeOK /\ run[r].st \in State
    BY RunState DEF PublicationInv
  <1>2. /\ run' \in [Runs -> RunRec] /\ run'[r].pc = n /\ run'[r].st = run[r].st
        /\ \A q \in Runs \ {r} : run'[q] = run[q]
    BY <1>1, AdvanceRun
  <1>3. TypeOK' /\ UNCHANGED <<owner, ckpt, wiped, deleting, erase>>
    BY <1>1, <1>2 DEF feedVars, threadVars, jobVars, deleteVars, envVars, TypeOK
  <1>4. Sound(owner, run'[r].pc, run'[r].st)
    BY <1>2 DEF Sound, Nodes
  <1> QED BY <1>2, <1>3, <1>4, Frame DEF Nodes

LEMMA DedupInv ==
    ASSUME PublicationInv, NEW r \in Runs,
           DedupPasses(r) \/ DedupRefuses(r) \/ DedupConflicts(r)
    PROVE  PublicationInv'
  <1>0. /\ TypeOK /\ run[r].st \in State /\ run[r].st.post \in Posts
    BY RunState DEF PublicationInv, RunsSound, Sound, DedupPasses, DedupRefuses,
                    DedupConflicts, At
  <1>1. CASE DedupPasses(r)
    <2>1. rows' \in [Posts -> Row] /\ \A p \in Posts : Demoted(p)
      <3>1. PICK p \in Posts : rows' = [rows EXCEPT ![p] = [rows[p] EXCEPT !.hash = TRUE]]
        BY <1>0, <1>1 DEF DedupPasses
      <3> DEFINE new == [rows[p] EXCEPT !.hash = TRUE]
      <3>2. new \in Row /\ new.status = rows[p].status /\ new.lid = rows[p].lid
        BY <1>0, RowType, HashColumn
      <3>3. rows' = [rows EXCEPT ![p] = new]
        BY <3>1
      <3> HIDE DEF new
      <3> QED BY <1>0, <3>2, <3>3 DEF TypeOK, Demoted
    <2>2. UNCHANGED <<approval, feedVars, threadVars, jobVars, envVars, said>>
      BY <1>1 DEF DedupPasses
    <2>3. CASE ~run[r].st.err
      <3>1. Advance(r, "sanitize", run[r].st)
        BY <1>1, <2>3 DEF DedupPasses
      <3> QED BY <1>0, <2>1, <2>2, <3>1, StatusInv DEF Nodes
    <2>4. CASE run[r].st.err
      <3>1. Advance(r, "finalize", run[r].st)
        BY <1>1, <2>4 DEF DedupPasses
      <3>2. /\ run' \in [Runs -> RunRec] /\ run'[r].pc = "finalize"
            /\ run'[r].st = run[r].st
            /\ \A q \in Runs \ {r} : run'[q] = run[q]
        BY <1>0, <3>1, AdvanceRun DEF Nodes
      <3>3. TypeOK' /\ UNCHANGED <<owner, ckpt, wiped, deleting, erase>>
        BY <1>0, <2>1, <2>2, <3>2 DEF feedVars, threadVars, jobVars, deleteVars, envVars, TypeOK
      <3>4. Sound(owner, run'[r].pc, run'[r].st)
        BY <1>0, <2>4, <3>2 DEF Sound, ClaimsSuccess
      <3> QED BY <2>1, <3>2, <3>3, <3>4, Frame DEF Nodes
    <2> QED BY <2>3, <2>4
  <1>2. CASE DedupRefuses(r)
    BY <1>0, <1>2, GiveUpInv DEF DedupRefuses
  <1>3. CASE DedupConflicts(r)
    <2>1. faults' \in 0 .. MaxFaults
      BY <1>0, <1>3 DEF DedupConflicts, envVars, TypeOK
    <2> QED BY <1>3, <2>1, DeathInv DEF DedupConflicts, envVars
  <1> QED BY <1>1, <1>2, <1>3

LEMMA ScreenInv ==
    ASSUME PublicationInv, NEW r \in Runs,
           Sanitize(r) \/ Transform(r) \/ Validate(r)
    PROVE  PublicationInv'
  <1>0. PICK node \in {"sanitize", "transform", "validate"},
             next \in {"transform", "validate", "schedule", "finalize"} :
          /\ Screen(r, node, next)
          /\ next = "finalize" => run[r].st.err
    <2>1. CASE Sanitize(r)
      BY <2>1 DEF Sanitize
    <2>2. CASE Transform(r)
      <3>1. CASE run[r].st.err
        BY <2>2, <3>1 DEF Transform
      <3>2. CASE ~run[r].st.err
        BY <2>2, <3>2 DEF Transform
      <3> QED BY <3>1, <3>2
    <2>3. CASE Validate(r)
      BY <2>3 DEF Validate
    <2> QED BY <2>1, <2>2, <2>3
  <1>1. /\ TypeOK /\ run[r].st \in State /\ run[r].st.post \in Posts
        /\ UNCHANGED <<approval, feedVars, threadVars, jobVars, envVars, said>>
    BY <1>0, RunState DEF PublicationInv, RunsSound, Sound, Screen, At
  <1>2. CASE GiveUp(r, run[r].st.post)
    BY <1>1, <1>2, GiveUpInv
  <1>3. CASE Advance(r, next, run[r].st) /\ UNCHANGED rows
    <2>1. /\ run' \in [Runs -> RunRec] /\ run'[r].pc = next
          /\ run'[r].st = run[r].st
          /\ \A q \in Runs \ {r} : run'[q] = run[q]
      BY <1>1, <1>3, AdvanceRun DEF Nodes
    <2>2. TypeOK' /\ UNCHANGED <<owner, ckpt, wiped, deleting, erase>> /\ \A p \in Posts : Demoted(p)
      BY <1>1, <1>3, <2>1 DEF feedVars, threadVars, jobVars, deleteVars, envVars, TypeOK, Demoted
    <2>3. Sound(owner, run'[r].pc, run'[r].st)
      BY <1>0, <1>1, <2>1 DEF Sound, ClaimsSuccess
    <2> QED BY <2>1, <2>2, <2>3, Frame DEF Nodes
  <1> QED BY <1>0, <1>2, <1>3 DEF Screen

LEMMA ScheduleInv ==
    ASSUME PublicationInv, NEW r \in Runs, Schedule(r) \/ ScheduleRaises(r)
    PROVE  PublicationInv'
  <1>0. TypeOK /\ run[r].st.post \in Posts
    BY DEF PublicationInv, RunsSound, Sound, Schedule, ScheduleRaises, At
  <1>1. CASE Schedule(r)
    <2>1. PICK x \in Slots :
            rows' = [rows EXCEPT ![run[r].st.post] = [rows[run[r].st.post] EXCEPT !.slot = x]]
      BY <1>0, <1>1 DEF Schedule, TypeOK
    <2> DEFINE p == run[r].st.post
               new == [rows[p] EXCEPT !.slot = x]
    <2>2. new \in Row /\ new.status = rows[p].status /\ new.lid = rows[p].lid
      BY <1>0, RowType, SlotColumn
    <2>3. rows' = [rows EXCEPT ![p] = new]
      BY <2>1
    <2> HIDE DEF new
    <2>4. rows' \in [Posts -> Row] /\ \A q \in Posts : Demoted(q)
      BY <1>0, <2>2, <2>3 DEF TypeOK, Demoted
    <2>5. PICK n \in {"wait_for_slot", "approve"} : Advance(r, n, run[r].st)
      BY <1>1 DEF Schedule
    <2>6. UNCHANGED <<approval, feedVars, threadVars, jobVars, envVars, said>>
      BY <1>1 DEF Schedule
    <2> QED BY <1>0, <2>4, <2>5, <2>6, StatusInv DEF Nodes
  <1>2. CASE ScheduleRaises(r)
    <2>1. faults' \in 0 .. MaxFaults
      BY <1>0, <1>2 DEF ScheduleRaises, envVars, TypeOK
    <2> QED BY <1>2, <2>1, DeathInv DEF ScheduleRaises, envVars
  <1> QED BY <1>1, <1>2

LEMMA ApproveInv ==
    ASSUME PublicationInv, NEW r \in Runs, ApproveEnqueue(r) \/ ApproveDecides(r)
    PROVE  PublicationInv'
  <1> DEFINE p == run[r].st.post
  <1>0. /\ TypeOK /\ run[r] \in RunRec /\ run[r].st \in State /\ p \in Posts
        /\ ~run[r].unsaved
    BY RunState DEF PublicationInv, RunsSound, Sound, ApproveEnqueue, ApproveDecides, At
  <1>1. CASE ApproveEnqueue(r)
    <2>1. rows' \in [Posts -> Row] /\ \A q \in Posts : Demoted(q)
      BY <1>0, <1>1, StatusRow DEF ApproveEnqueue, Statuses, Demoted
    <2>2. /\ run' \in [Runs -> RunRec] /\ run'[r].pc = "notify"
          /\ run'[r].st = run[r].st /\ ~run'[r].unsaved
          /\ \A q \in Runs \ {r} : run'[q] = run[q]
      BY <1>0, <1>1, GotoRun DEF ApproveEnqueue, PCs
    <2>3. approval' \in [Posts -> {"none", "pending"} \cup Decisions]
      BY <1>0, <1>1 DEF ApproveEnqueue, TypeOK
    <2>4. TypeOK' /\ UNCHANGED <<owner, ckpt, wiped, deleting, erase>>
      BY <1>0, <1>1, <2>1, <2>2, <2>3
         DEF ApproveEnqueue, feedVars, threadVars, jobVars, deleteVars, envVars, TypeOK
    <2> QED BY <1>0, <2>1, <2>2, <2>4, Frame DEF Sound
  <1>2. CASE ApproveDecides(r)
    <2> DEFINE d == IF run[r].resume = "true" THEN "approved" ELSE run[r].resume
               s == [run[r].st EXCEPT !.appr = d]
               n == IF d = "approved" THEN "wait_for_slot" ELSE "finalize"
    <2>1. d \in Decisions
      BY <1>0, <1>2 DEF ApproveDecides, RunRec, Decisions
    <2>2. s \in State /\ s.post = p /\ s.appr = d
      BY <1>0, <2>1 DEF State
    <2>3. /\ Advance(r, n, s)
          /\ approval' = [approval EXCEPT ![p] = d]
          /\ SetStatus(p, "approved") \/ SetStatus(p, "rejected")
          /\ UNCHANGED <<feedVars, threadVars, jobVars, envVars, said>>
      BY <1>2 DEF ApproveDecides
    <2>4. n \in Nodes /\ (n = "finalize" => d \in {"rejected", "timeout"})
      BY <2>1 DEF Nodes, Decisions
    <2> HIDE DEF s, n, d
    <2>5. /\ run' \in [Runs -> RunRec] /\ run'[r].pc = n /\ run'[r].st = s
          /\ \A q \in Runs \ {r} : run'[q] = run[q]
      BY <1>0, <2>2, <2>3, <2>4, AdvanceRun
    <2>6. rows' \in [Posts -> Row] /\ \A q \in Posts : Demoted(q)
      BY <1>0, <2>3, StatusRow DEF Statuses, Demoted
    <2>7. TypeOK' /\ UNCHANGED <<owner, ckpt, wiped, deleting, erase>>
      BY <1>0, <2>1, <2>3, <2>5, <2>6
         DEF feedVars, threadVars, jobVars, deleteVars, envVars, TypeOK
    <2>8. Sound(owner, run'[r].pc, run'[r].st)
      BY <1>0, <2>2, <2>4, <2>5 DEF Sound, ClaimsSuccess, Nodes
    <2> QED BY <2>4, <2>5, <2>6, <2>7, <2>8, Frame DEF Nodes
  <1> QED BY <1>1, <1>2

LEMMA SlotHoldsInv ==
    ASSUME PublicationInv, NEW r \in Runs, SlotHolds(r)
    PROVE  PublicationInv'
  <1>0. TypeOK /\ run[r].st.post \in Posts
    BY DEF PublicationInv, RunsSound, Sound, SlotHolds, At
  <1>1. UNCHANGED <<approval, feedVars, threadVars, jobVars, envVars, said>>
    BY DEF SlotHolds
  <1>2. rows' \in [Posts -> Row] /\ \A q \in Posts : Demoted(q)
    <2>1. CASE UNCHANGED rows
      BY <1>0, <2>1 DEF TypeOK, Demoted
    <2>2. CASE SetStatus(run[r].st.post, "scheduled")
      BY <1>0, <2>2, StatusRow DEF Statuses, Demoted
    <2> QED BY <2>1, <2>2 DEF SlotHolds
  <1>3. CASE Dies(r)
    <2>1. TypeOK' /\ UNCHANGED <<owner, ckpt, wiped, deleting, erase>>
      BY <1>0, <1>1, <1>2, <1>3, DiesRun DEF feedVars, threadVars, jobVars, deleteVars, envVars, TypeOK
    <2> QED BY <1>0, <1>2, <1>3, <2>1, DiesRun, Frame DEF IdleRun, Sound
  <1>4. CASE Advance(r, "preview", run[r].st)
    BY <1>0, <1>1, <1>2, <1>4, StatusInv DEF Nodes
  <1> QED BY <1>3, <1>4 DEF SlotHolds

LEMMA PublishInv ==
    ASSUME PublicationInv, NEW r \in Runs,
           PublishFailsClosed(r) \/ PublishMarks(r) \/ LinkedInRefuses(r)
    PROVE  PublicationInv'
  <1>0. TypeOK /\ run[r].st.post \in Posts /\ ~run[r].unsaved
    BY DEF PublicationInv, RunsSound, Sound, PublishFailsClosed, PublishMarks,
           LinkedInRefuses, At
  <1>1. CASE PublishFailsClosed(r) \/ LinkedInRefuses(r)
    BY <1>0, <1>1, GiveUpInv DEF PublishFailsClosed, LinkedInRefuses
  <1>2. CASE PublishMarks(r)
    <2>1. rows' \in [Posts -> Row] /\ \A q \in Posts : Demoted(q)
      BY <1>0, <1>2, StatusRow DEF PublishMarks, Statuses, Demoted
    <2>2. /\ run' \in [Runs -> RunRec] /\ run'[r].pc = "call"
          /\ run'[r].st = run[r].st /\ ~run'[r].unsaved
          /\ \A q \in Runs \ {r} : run'[q] = run[q]
      BY <1>0, <1>2, GotoRun DEF PublishMarks, PCs
    <2>3. TypeOK' /\ UNCHANGED <<owner, ckpt, wiped, deleting, erase>>
      BY <1>0, <1>2, <2>1, <2>2
         DEF PublishMarks, feedVars, threadVars, jobVars, deleteVars, envVars, TypeOK
    <2> QED BY <1>0, <2>1, <2>2, <2>3, Frame DEF Sound
  <1> QED BY <1>1, <1>2

\* A new share never takes the id of an old one, so what was sound stays so.
LEMMA NewShare ==
    ASSUME TypeOK, NEW i \in ShareIds, owner[i] = 0, NEW q \in Posts,
           owner' = [owner EXCEPT ![i] = q]
    PROVE  /\ owner' \in [ShareIds -> {0} \cup Posts] /\ owner'[i] = q
           /\ \A j \in ShareIds : owner[j] # 0 => owner'[j] = owner[j]
           /\ \A node \in PCs \cup {"unused"}, s \in State :
                Sound(owner, node, s) => Sound(owner', node, s)
  <1>1. /\ owner' \in [ShareIds -> {0} \cup Posts] /\ owner'[i] = q
        /\ \A j \in ShareIds : owner[j] # 0 => owner'[j] = owner[j]
    BY DEF TypeOK
  <1>2. ASSUME NEW node \in PCs \cup {"unused"}, NEW s \in State,
               Sound(owner, node, s)
        PROVE  Sound(owner', node, s)
    <2>1. 0 \notin Posts /\ s.lid \in {0} \cup ShareIds
      BY DEF Posts, State
    <2> QED BY <1>1, <1>2, <2>1 DEF Sound
  <1> QED BY <1>1, <1>2

LEMMA LinkedInInv ==
    ASSUME PublicationInv, NEW r \in Runs, LinkedInAccepts(r) \/ LinkedInReplyLost(r)
    PROVE  PublicationInv'
  <1> DEFINE p == run[r].st.post
  <1>0. /\ TypeOK /\ run[r] \in RunRec /\ run[r].st \in State /\ p \in Posts
        /\ ~run[r].unsaved
    BY RunState DEF PublicationInv, RunsSound, Sound, LinkedInAccepts,
                    LinkedInReplyLost, At
  <1>1. PICK i \in ShareIds :
          /\ owner[i] = 0 /\ owner' = [owner EXCEPT ![i] = p]
          /\ live' = live \cup {i}
          /\ LinkedInAccepts(r) =>
               run' = [run EXCEPT ![r] = [@ EXCEPT !.pc = "record", !.st.lid = i]]
    BY DEF LinkedInAccepts, LinkedInReplyLost, NextShare
  <1>2. /\ owner' \in [ShareIds -> {0} \cup Posts] /\ owner'[i] = p
        /\ live' \subseteq ShareIds
        /\ \A j \in ShareIds : owner[j] # 0 => owner'[j] = owner[j]
        /\ \A node \in PCs \cup {"unused"}, s \in State :
             Sound(owner, node, s) => Sound(owner', node, s)
    BY <1>0, <1>1, NewShare DEF TypeOK
  <1>3. UNCHANGED <<approval, wiped, ckpt, fresh, jobVars, requireApproval, now, said>>
    BY DEF LinkedInAccepts, LinkedInReplyLost, threadVars, envVars, dbVars
  <1>4. CkptSound'
    BY <1>0, <1>2, <1>3 DEF PublicationInv, CkptSound, TypeOK, Checkpoint, PCs
  <1>5. ASSUME NEW q \in Runs \ {r}, run'[q] = run[q]
        PROVE  Sound(owner', run'[q].pc, run'[q].st)
    <2>1. Sound(owner, run[q].pc, run[q].st)
      BY DEF PublicationInv, RunsSound
    <2>2. run[q].pc \in PCs /\ run[q].st \in State
      BY <1>0, RunState DEF RunRec
    <2> QED BY <1>2, <1>5, <2>1, <2>2
  <1>6. ASSUME rows' \in [Posts -> Row], \A q \in Posts : Demoted(q),
               \A q \in Runs \ {r} : run'[q] = run[q], run'[r].pc \notin {"reset", "commit"}
        PROVE  RowsSound' /\ PatchesSound'
    <2>1. ASSUME NEW q \in Posts
          PROVE  /\ rows'[q].lid # 0 => owner'[rows'[q].lid] = q
                 /\ rows'[q].status = "published" => rows'[q].lid # 0 \/ q \in wiped'
      <3>1. 0 \notin Posts /\ rows[q].lid \in {0} \cup ShareIds
        BY <1>0, RowType DEF Posts, Row
      <3>2. /\ rows[q].lid # 0 => owner[rows[q].lid] = q
            /\ rows[q].status = "published" => rows[q].lid # 0 \/ q \in wiped
        BY DEF PublicationInv, RowsSound
      <3> QED BY <1>2, <1>3, <1>6, <3>1, <3>2 DEF Demoted
    <2>2. PatchesSound'
      BY <1>2, <1>3, <1>6, PatchesFrame DEF jobVars, deleteVars
    <2> QED BY <2>1, <2>2 DEF RowsSound
  <1>7. CASE LinkedInAccepts(r)
    <2>1. UNCHANGED <<rows, faults>>
      BY <1>7 DEF LinkedInAccepts, dbVars, envVars
    <2>2. rows' \in [Posts -> Row] /\ \A q \in Posts : Demoted(q)
      BY <1>0, <2>1 DEF Demoted, TypeOK
    <2>3. /\ run' \in [Runs -> RunRec]
          /\ run'[r].pc = "record" /\ ~run'[r].unsaved
          /\ run'[r].st.post = p /\ run'[r].st.lid = i
          /\ \A q \in Runs \ {r} : run'[q] = run[q]
      <3>1. run' = [run EXCEPT ![r] = [run[r] EXCEPT !.pc = "record",
                                  !.st = [run[r].st EXCEPT !.lid = i]]]
        BY <1>0, <1>1, <1>7 DEF TypeOK, RunRec
      <3> DEFINE s == [run[r].st EXCEPT !.lid = i]
      <3>2. s \in State /\ s.post = p /\ s.lid = i
        BY <1>0 DEF State
      <3> HIDE DEF s
      <3>3. run' = [run EXCEPT ![r] = [run[r] EXCEPT !.pc = "record", !.st = s]]
        BY <3>1 DEF s
      <3> QED BY <1>0, <3>2, <3>3 DEF TypeOK, RunRec, PCs
    <2>4. Sound(owner', run'[r].pc, run'[r].st)
      BY <1>0, <1>2, <2>3 DEF Sound, ShareIds
    <2>5. RunsSound'
      BY <1>5, <2>3, <2>4 DEF PublicationInv, RunsSound
    <2>6. TypeOK'
      BY <1>0, <1>2, <1>3, <2>1, <2>2, <2>3 DEF jobVars, deleteVars, TypeOK
    <2> QED BY <1>4, <1>6, <2>2, <2>3, <2>5, <2>6 DEF PublicationInv
  <1>8. CASE LinkedInReplyLost(r)
    <2>1. GiveUp(r, p) /\ faults' \in 0 .. MaxFaults
      BY <1>0, <1>8, CountsAssumption DEF LinkedInReplyLost, TypeOK
    <2>2. /\ rows' \in [Posts -> Row] /\ run' \in [Runs -> RunRec]
          /\ \A q \in Posts : Demoted(q)
          /\ run'[r].pc = "finalize"
          /\ run'[r].st.post = run[r].st.post /\ run'[r].st.err
          /\ \A q \in Runs \ {r} : run'[q] = run[q]
      BY <1>0, <2>1, GiveUpRun
    <2>3. Sound(owner', run'[r].pc, run'[r].st)
      BY <1>0, <2>2 DEF Sound, ClaimsSuccess
    <2>4. RunsSound'
      BY <1>5, <2>2, <2>3 DEF PublicationInv, RunsSound, Nodes
    <2>5. TypeOK'
      BY <1>0, <1>2, <1>3, <2>1, <2>2 DEF jobVars, deleteVars, TypeOK
    <2> QED BY <1>4, <1>6, <2>2, <2>4, <2>5 DEF PublicationInv
  <1> QED BY <1>7, <1>8

\* A commit that brings shares of its own post, and publishes only what has one
\* or has lost it.
LEMMA BringCommits ==
    ASSUME PublicationInv, NEW r \in Runs, NEW p \in Posts, NEW u \in Patch,
           CommitSound(p, u), Apply(p, u), UNCHANGED <<owner, deleting, erase>>,
           wiped' = IF "status" \in u.cols /\ u.row.status = "published" /\ Clearing(p)
                    THEN wiped \cup {p} ELSE wiped,
           \A q \in Runs : run'[q] = run[q] \/ run'[q].pc \notin {"reset", "commit"}
    PROVE  rows' \in [Posts -> Row] /\ wiped' \subseteq Posts /\ RowsSound' /\ PatchesSound'
  <1>0. TypeOK /\ rows[p] \in Row /\ u.row \in Row
    BY RowType DEF PublicationInv, Patch
  <1>1. /\ rows' = [rows EXCEPT ![p] = Patched(rows[p], u)]
        /\ rows' \in [Posts -> Row]
        /\ rows'[p].status = IF "status" \in u.cols THEN u.row.status ELSE rows[p].status
        /\ rows'[p].lid = IF "lid" \in u.cols THEN u.row.lid ELSE rows[p].lid
        /\ \A q \in Posts \ {p} : rows'[q] = rows[q]
    BY <1>0, PatchedRow DEF Apply, TypeOK
  <1>2. /\ wiped' \subseteq Posts
        /\ \A q \in Posts : q \in wiped => q \in wiped'
        /\ "status" \in u.cols /\ u.row.status = "published" /\ Clearing(p) => p \in wiped'
    BY <1>0 DEF TypeOK
  <1>3. RowsSound'
    <2>1. ASSUME NEW q \in Posts
          PROVE  /\ rows'[q].lid # 0 => owner[rows'[q].lid] = q
                 /\ rows'[q].status = "published" => rows'[q].lid # 0 \/ q \in wiped'
      <3>1. /\ rows[q].lid # 0 => owner[rows[q].lid] = q
            /\ rows[q].status = "published" => rows[q].lid # 0 \/ q \in wiped
        BY DEF PublicationInv, RowsSound
      <3>2. CASE q # p
        BY <1>1, <1>2, <3>1, <3>2
      <3>3. CASE q = p
        BY <1>1, <1>2, <3>1, <3>3 DEF CommitSound
      <3> QED BY <3>2, <3>3
    <2> QED BY <2>1 DEF RowsSound
  <1>4. ASSUME NEW q \in Posts, NEW v \in Patch, CommitSound(q, v)
        PROVE  CommitSound(q, v)'
    <2>1. CASE q # p
      BY <1>1, <1>2, <1>4, <2>1 DEF CommitSound
    <2>2. CASE q = p
      BY <1>1, <1>2, <1>4, <2>2 DEF CommitSound
    <2> QED BY <2>1, <2>2
  <1>5. ASSUME NEW q \in Posts, NEW v \in Patch, ClearSound(q, v),
               "lid" \in v.cols => Clearing(q)
        PROVE  ClearSound(q, v)'
    <2>1. CASE q # p
      BY <1>1, <1>2, <1>5, <2>1 DEF ClearSound
    <2>2. CASE q = p
      BY <1>1, <1>2, <1>5, <2>2 DEF ClearSound
    <2> QED BY <2>1, <2>2
  <1>6. PatchesSound'
    <2>1. ASSUME NEW q \in Runs
          PROVE  PatchSound(run[q])'
      <3>1. CASE run'[q].pc \notin {"reset", "commit"}
        BY <3>1 DEF PatchSound
      <3>2. CASE run'[q] = run[q] /\ run[q].pc \in {"reset", "commit"}
        <4>1. run[q].st.post \in Posts /\ run[q].upd \in Patch /\ PatchSound(run[q])
          BY <1>0, <3>2, RunState DEF PublicationInv, RunsSound, Sound, PatchesSound
        <4>2. run[q].pc = "reset" /\ "lid" \in run[q].upd.cols => Clearing(run[q].st.post)
          BY DEF Clearing
        <4> QED BY <1>4, <1>5, <3>2, <4>1, <4>2 DEF PatchSound
      <3> QED BY <3>1, <3>2
    <2>2. EraseSound'
      <3>1. CASE erase.cols # {}
        <4>1. /\ deleting \in Posts /\ erase \in Patch /\ ClearSound(deleting, erase)
              /\ "lid" \in erase.cols => Clearing(deleting)
          BY <1>0, <3>1 DEF PublicationInv, PatchesSound, EraseSound, TypeOK, Clearing
        <4>2. PICK q \in Posts, v \in Patch : q = deleting /\ v = erase
          BY <4>1
        <4>3. ClearSound(q, v)'
          BY <1>5, <4>1, <4>2
        <4> QED BY <1>0, <3>1, <4>1, <4>2, <4>3 DEF PublicationInv, PatchesSound, EraseSound
      <3> QED BY <3>1 DEF EraseSound
    <2> QED BY <2>1, <2>2 DEF PatchesSound
  <1> QED BY <1>1, <1>2, <1>3, <1>6

LEMMA RecordsInv ==
    ASSUME PublicationInv, NEW r \in Runs, PublishRecords(r)
    PROVE  PublicationInv'
  <1> DEFINE p == run[r].st.post
             i == run[r].st.lid
             new == [rows[p] EXCEPT !.lid = i]
             u == [cols |-> IF i = 0 THEN {} ELSE {"lid"}, row |-> new]
  <1>0. /\ TypeOK /\ run[r].st \in State /\ p \in Posts /\ rows[p] \in Row
        /\ i \in {0} \cup ShareIds
        /\ i # 0 => owner[i] = p
        /\ ~run[r].st.dry => i # 0
    <2>1. TypeOK /\ run[r].st \in State /\ Sound(owner, "record", run[r].st)
      BY RunState DEF PublicationInv, RunsSound, PublishRecords, At
    <2>2. p \in Posts /\ (i # 0 => owner[i] = p) /\ (~run[r].st.dry => i # 0)
      BY <2>1 DEF Sound
    <2> QED BY <2>1, <2>2, RowType DEF State
  <1>1. /\ Advance(r, "finalize", run[r].st)
        /\ UNCHANGED <<approval, feedVars, threadVars, jobVars, envVars, said>>
    BY DEF PublishRecords
  <1>2. Sound(owner, "finalize", run[r].st)
    BY <1>0 DEF Sound, ClaimsSuccess
  <1>3. new \in Row /\ new.lid = i
    BY <1>0, ShareColumn
  <1>4. u \in Patch /\ CommitSound(p, u)
    BY <1>0, <1>3 DEF Patch, Columns, CommitSound
  <1>5. Apply(p, u)
    <2>1. CASE i = 0
      BY <1>0, <2>1 DEF PublishRecords, Apply, Patched, Row, TypeOK
    <2>2. CASE i # 0
      <3>1. Patched(rows[p], u) = new
        BY <1>0, <2>2 DEF Patched, Row
      <3> QED BY <1>0, <2>2, <3>1 DEF PublishRecords, Apply, TypeOK
    <2> QED BY <2>1, <2>2
  <1>6. "status" \notin u.cols
    OBVIOUS
  <1>7. /\ run' \in [Runs -> RunRec] /\ run'[r].pc = "finalize" /\ run'[r].st = run[r].st
        /\ \A q \in Runs \ {r} : run'[q] = run[q]
    BY <1>0, <1>1, AdvanceRun DEF Nodes
  <1>8. UNCHANGED <<owner, wiped, ckpt, deleting, erase>>
    BY <1>1 DEF feedVars, threadVars, jobVars, deleteVars
  <1> HIDE DEF u, new
  <1>9. rows' \in [Posts -> Row] /\ RowsSound' /\ PatchesSound'
    BY <1>0, <1>4, <1>5, <1>6, <1>7, <1>8, BringCommits
  <1>10. TypeOK'
    BY <1>0, <1>1, <1>7, <1>9
       DEF feedVars, threadVars, jobVars, deleteVars, envVars, TypeOK
  <1>11. RunsSound' /\ CkptSound'
    BY <1>2, <1>7, <1>8 DEF PublicationInv, RunsSound, CkptSound, Nodes
  <1> QED BY <1>9, <1>10, <1>11 DEF PublicationInv

\* What finalize_node wants of a row, given a sound graph state.
LEMMA FinalRowSound ==
    ASSUME TypeOK, NEW p \in Posts, NEW s \in State,
           ClaimsSuccess(s) => s.lid # 0 /\ owner[s.lid] = p
    PROVE  /\ FinalRow(rows[p], s) \in Row
           /\ CommitSound(p, PatchOf(rows[p], FinalRow(rows[p], s)))
  <1> DEFINE row == FinalRow(rows[p], s)
  <1>0. rows[p] \in Row
    BY RowType
  <1>1. ASSUME row \in Row, row.lid = rows[p].lid, row.slot = rows[p].slot,
               row.hash = rows[p].hash, row.status \in {rows[p].status, "failed", "approved"}
        PROVE  row \in Row /\ CommitSound(p, PatchOf(rows[p], row))
    <2> HIDE DEF row
    <2> QED BY <1>0, <1>1, PatchType DEF CommitSound
  <1>2. CASE s.err
    <2> DEFINE new == [rows[p] EXCEPT !.status = "failed"]
    <2>1. row = rows[p] \/ row = new
      BY <1>2 DEF FinalRow
    <2>2. new \in Row /\ new.status = "failed" /\ new.lid = rows[p].lid
          /\ new.slot = rows[p].slot /\ new.hash = rows[p].hash
      BY <1>0, StatusColumn DEF Statuses, Row
    <2> HIDE DEF new, row
    <2>3. row \in Row /\ row.lid = rows[p].lid /\ row.slot = rows[p].slot
          /\ row.hash = rows[p].hash /\ row.status \in {rows[p].status, "failed", "approved"}
      BY <1>0, <2>1, <2>2
    <2> QED BY <1>1, <2>3 DEF row
  <1>3. CASE ~s.err /\ s.appr \in {"rejected", "timeout"}
    BY <1>0, <1>1, <1>3 DEF FinalRow
  <1>4. CASE ~s.err /\ s.appr \notin {"rejected", "timeout"} /\ s.dry
    <2> DEFINE new == [rows[p] EXCEPT !.status = "approved"]
    <2>1. row = new
      BY <1>4 DEF FinalRow
    <2>2. new \in Row /\ new.status = "approved" /\ new.lid = rows[p].lid
          /\ new.slot = rows[p].slot /\ new.hash = rows[p].hash
      BY <1>0, StatusColumn DEF Statuses, Row
    <2> HIDE DEF new, row
    <2>3. row \in Row /\ row.lid = rows[p].lid /\ row.slot = rows[p].slot
          /\ row.hash = rows[p].hash /\ row.status \in {rows[p].status, "failed", "approved"}
      BY <1>0, <2>1, <2>2
    <2> QED BY <1>1, <2>3 DEF row
  <1>5. CASE ClaimsSuccess(s)
    <2>1. row = [rows[p] EXCEPT !.status = "published", !.lid = s.lid]
      BY <1>5 DEF FinalRow, ClaimsSuccess
    <2>2. s.lid \in ShareIds
      BY <1>5 DEF State
    <2>3. /\ row \in Row /\ row.lid = s.lid /\ row.slot = rows[p].slot
          /\ row.hash = rows[p].hash /\ row.status = "published"
      BY <1>0, <2>1, <2>2 DEF Row, Statuses
    <2> HIDE DEF row
    <2>4. CommitSound(p, PatchOf(rows[p], row))
      BY <1>0, <1>5, <2>3, PatchType DEF CommitSound
    <2> QED BY <2>3, <2>4 DEF row
  <1> QED BY <1>2, <1>3, <1>4, <1>5 DEF ClaimsSuccess, State

LEMMA FinalizeInv ==
    ASSUME PublicationInv, NEW r \in Runs, FinalizeReads(r) \/ FinalizeCommits(r)
    PROVE  PublicationInv'
  <1> DEFINE p == run[r].st.post
             s == run[r].st
             u == run[r].upd
  <1>0. /\ TypeOK /\ s \in State /\ u \in Patch /\ p \in Posts /\ ~run[r].unsaved
    BY RunState DEF PublicationInv, RunsSound, Sound, FinalizeReads, FinalizeCommits, At
  <1>1. CASE FinalizeReads(r)
    <2>1. ClaimsSuccess(s) => s.lid # 0 /\ owner[s.lid] = p
      BY <1>1 DEF FinalizeReads, At, PublicationInv, RunsSound, Sound
    <2>2. /\ FinalRow(rows[p], s) \in Row
          /\ CommitSound(p, PatchOf(rows[p], FinalRow(rows[p], s)))
      BY <1>0, <2>1, FinalRowSound
    <2>3. Reads(r, FinalRow(rows[p], s), "commit")
      BY <1>1 DEF FinalizeReads
    <2>4. UNCHANGED <<dbVars, feedVars, threadVars, jobVars, envVars, said>>
      BY <1>1 DEF FinalizeReads
    <2> QED BY <1>0, <2>2, <2>3, <2>4, ReadFrame
  <1>2. CASE FinalizeCommits(r)
    <2>1. CommitSound(p, u)
      BY <1>2 DEF FinalizeCommits, At, PublicationInv, PatchesSound, PatchSound
    <2>2. /\ Apply(p, u) /\ Advance(r, "end", s)
          /\ wiped' = IF "status" \in u.cols /\ u.row.status = "published" /\ Clearing(p)
                      THEN wiped \cup {p} ELSE wiped
          /\ UNCHANGED <<approval, owner, live, threadVars, jobVars, envVars, said>>
      BY <1>2 DEF FinalizeCommits
    <2>3. /\ run' \in [Runs -> RunRec] /\ run'[r].pc = "end" /\ run'[r].st = s
          /\ \A q \in Runs \ {r} : run'[q] = run[q]
      BY <1>0, <2>2, AdvanceRun
    <2>4. \A q \in Runs : run'[q] = run[q] \/ run'[q].pc \notin {"reset", "commit"}
      BY <2>3
    <2>5. UNCHANGED <<owner, ckpt, deleting, erase>>
      BY <2>2 DEF threadVars, jobVars, deleteVars
    <2>6. rows' \in [Posts -> Row] /\ wiped' \subseteq Posts /\ RowsSound' /\ PatchesSound'
      BY <1>0, <2>1, <2>2, <2>4, <2>5, BringCommits
    <2>7. TypeOK'
      BY <1>0, <2>2, <2>3, <2>6 DEF threadVars, jobVars, deleteVars, envVars, TypeOK
    <2>8. RunsSound' /\ CkptSound'
      BY <1>0, <2>3, <2>5 DEF PublicationInv, RunsSound, CkptSound, Sound
    <2> QED BY <2>6, <2>7, <2>8 DEF PublicationInv
  <1> QED BY <1>1, <1>2

LEMMA SaveInv ==
    ASSUME PublicationInv, NEW r \in Runs, SaveCheckpoint(r)
    PROVE  PublicationInv'
  <1>0. /\ TypeOK /\ run[r] \in RunRec /\ run[r].st \in State
        /\ run[r].pc \in Nodes \cup {"end"} /\ Sound(owner, run[r].pc, run[r].st)
    BY RunState DEF PublicationInv, RunsSound, SaveCheckpoint
  <1>1. UNCHANGED <<rows, approval, owner, live, wiped, fresh, jobVars, envVars, said>>
    BY DEF SaveCheckpoint, dbVars, feedVars
  <1>2. /\ ckpt' \in Checkpoint
        /\ Sound(owner, ckpt'.next, ckpt'.st)
    <2>1. CASE run[r].thread = "upload"
      <3>1. ckpt' = [next |-> run[r].pc, st |-> run[r].st]
        BY <2>1 DEF SaveCheckpoint
      <3> QED BY <1>0, <3>1 DEF Checkpoint
    <2>2. CASE run[r].thread # "upload"
      BY <1>0, <2>2 DEF SaveCheckpoint, PublicationInv, CkptSound, TypeOK
    <2> QED BY <2>1, <2>2
  <1>3. /\ run' \in [Runs -> RunRec]
        /\ \A q \in Runs \ {r} : run'[q] = run[q]
        /\ Sound(owner, run'[r].pc, run'[r].st) /\ ~run'[r].unsaved
        /\ run'[r].pc \notin {"reset", "commit"}
    <2>1. CASE run[r].pc = "end"
      <3>1. Dies(r)
        BY <2>1 DEF SaveCheckpoint, Dies
      <3> QED BY <1>0, <3>1, DiesRun DEF IdleRun, Sound
    <2>2. CASE run[r].pc # "end"
      <3>1. run' = [run EXCEPT ![r] = [run[r] EXCEPT !.unsaved = FALSE, !.resume = "none"]]
        BY <1>0, <2>2 DEF SaveCheckpoint, TypeOK
      <3> DEFINE new == [run[r] EXCEPT !.unsaved = FALSE, !.resume = "none"]
      <3>2. /\ new \in RunRec /\ new.pc = run[r].pc /\ new.st = run[r].st
            /\ ~new.unsaved
        BY <1>0 DEF RunRec
      <3> HIDE DEF new
      <3>3. run' = [run EXCEPT ![r] = new]
        BY <3>1 DEF new
      <3> QED BY <1>0, <3>2, <3>3 DEF TypeOK, Nodes
    <2> QED BY <2>1, <2>2
  <1>4. TypeOK'
    BY <1>0, <1>1, <1>2, <1>3 DEF TypeOK, jobVars, deleteVars, envVars
  <1>5. RowsSound' /\ RunsSound' /\ CkptSound'
    BY <1>1, <1>2, <1>3 DEF PublicationInv, RowsSound, RunsSound, CkptSound
  <1>6. PatchesSound'
    BY <1>1, <1>3, PatchesFrame DEF Demoted, jobVars, deleteVars
  <1> QED BY <1>4, <1>5, <1>6 DEF PublicationInv

LEMMA RaisesInv ==
    ASSUME PublicationInv, NEW r \in Runs, NodeRaises(r) \/ ScheduleRaises(r)
    PROVE  PublicationInv'
  <1>1. /\ MarkFailed(r) /\ Dies(r)
        /\ UNCHANGED <<approval, feedVars, threadVars, jobVars,
                       requireApproval, now, said>>
    BY DEF NodeRaises, ScheduleRaises, envVars
  <1>2. faults' \in 0 .. MaxFaults
    BY CountsAssumption DEF PublicationInv, TypeOK, NodeRaises, ScheduleRaises, envVars
  <1> QED BY <1>1, <1>2, DeathInv

LEMMA NodeStepInv ==
    ASSUME PublicationInv, NEW r \in Runs, NodeStep(r)
    PROVE  PublicationInv'
  BY InsertInv, ResetInv, QuietInv, DedupInv, ScreenInv, ScheduleInv, RaisesInv, ApproveInv,
     SlotHoldsInv, PublishInv, LinkedInInv, RecordsInv, FinalizeInv, SaveInv
     DEF NodeStep

-----------------------------------------------------------------------------
(* Handlers and jobs *)

LEMMA StartRun ==
    ASSUME TypeOK, NEW r \in Runs, NEW thread \in {"upload", "fresh"},
           NEW origin \in Origins, NEW input \in State,
           Start(r, thread, origin, input)
    PROVE  /\ run' \in [Runs -> RunRec]
           /\ run'[r].pc = "extract" /\ ~run'[r].unsaved
           /\ \A q \in Runs \ {r} : run'[q] = run[q]
  BY NoPatchType DEF Start, TypeOK, RunRec, PCs, Nodes

LEMMA ResumeRun ==
    ASSUME TypeOK, NEW r \in Runs, NEW origin \in Origins,
           NEW v \in {"none", "true"} \cup Decisions, Resume(r, origin, v)
    PROVE  /\ run' \in [Runs -> RunRec]
           /\ run'[r].pc = ckpt.next /\ run'[r].st = ckpt.st /\ ~run'[r].unsaved
           /\ \A q \in Runs \ {r} : run'[q] = run[q]
  BY NoPatchType DEF Resume, CanResume, TypeOK, RunRec, PCs, Checkpoint

LEMMA StartUploadInv ==
    ASSUME PublicationInv, NEW r \in Runs, NEW dry \in BOOLEAN, StartUpload(r, dry)
    PROVE  PublicationInv'
  <1> DEFINE input == [ckpt.st EXCEPT !.dry = dry]
  <1>1. TypeOK /\ input \in State
    BY DEF PublicationInv, TypeOK, Checkpoint, State
  <1>2. /\ Start(r, "upload", "start", input)
        /\ ckpt' = [next |-> "extract", st |-> input]
        /\ UNCHANGED <<dbVars, feedVars, fresh, jobVars, envVars, said>>
    BY DEF StartUpload
  <1> HIDE DEF input
  <1>3. /\ run' \in [Runs -> RunRec]
        /\ run'[r].pc = "extract" /\ ~run'[r].unsaved
        /\ \A q \in Runs \ {r} : run'[q] = run[q]
    BY <1>1, <1>2, StartRun DEF Origins
  <1>4. TypeOK'
    BY <1>1, <1>2, <1>3
       DEF dbVars, feedVars, jobVars, deleteVars, envVars, TypeOK, Checkpoint, Nodes
  <1>5. RowsSound' /\ CkptSound'
    BY <1>2 DEF PublicationInv, RowsSound, CkptSound, Sound, dbVars, feedVars
  <1>6. RunsSound'
    BY <1>2, <1>3 DEF PublicationInv, RunsSound, Sound, feedVars
  <1>7. PatchesSound'
    BY <1>2, <1>3, PatchesFrame DEF Demoted, dbVars, feedVars, jobVars, deleteVars
  <1> QED BY <1>4, <1>5, <1>6, <1>7 DEF PublicationInv

\* Retry and "publish now" write status "processing" and start a fresh thread.
LEMMA FreshInv ==
    ASSUME PublicationInv, NEW r \in Runs, NEW p \in Posts,
           \/ \E dry \in BOOLEAN : RetryPost(r, p, dry)
           \/ PublishPost(r, p)
    PROVE  PublicationInv'
  <1>1. PICK input \in State :
          /\ SetStatus(p, "processing") /\ Start(r, "fresh", "retry", input)
          /\ fresh < MaxFresh /\ fresh' = fresh + 1
          /\ UNCHANGED <<approval, feedVars, ckpt, jobVars, envVars, said>>
    BY DEF RetryPost, PublishPost, State, NoState
  <1>2. /\ TypeOK /\ run' \in [Runs -> RunRec]
        /\ run'[r].pc = "extract" /\ ~run'[r].unsaved
        /\ \A q \in Runs \ {r} : run'[q] = run[q]
    BY <1>1, StartRun DEF PublicationInv, Origins
  <1>3. rows' \in [Posts -> Row] /\ \A q \in Posts : Demoted(q)
    BY <1>1, <1>2, StatusRow DEF Statuses, Demoted
  <1>4. TypeOK' /\ UNCHANGED <<owner, ckpt, wiped, deleting, erase>>
    BY <1>1, <1>2, <1>3, CountsAssumption DEF feedVars, jobVars, deleteVars, envVars, TypeOK
  <1>5. Sound(owner, run'[r].pc, run'[r].st)
    BY <1>2 DEF Sound
  <1> QED BY <1>2, <1>3, <1>4, <1>5, Frame

\* The frame of the actions in which no run moves.
LEMMA StillFrame ==
    ASSUME PublicationInv, TypeOK', UNCHANGED <<owner, ckpt, run, wiped, deleting, erase>>,
           \A p \in Posts : Demoted(p)
    PROVE  PublicationInv'
  <1>1. RowsSound'
    BY DEF PublicationInv, TypeOK, RowsSound, Demoted, Row
  <1>2. RunsSound' /\ CkptSound'
    BY DEF PublicationInv, RunsSound, CkptSound
  <1>3. PatchesSound'
    BY PatchesFrame
  <1> QED BY <1>1, <1>2, <1>3 DEF PublicationInv

\* Handlers and jobs that at most resume the upload's thread: the run starts
\* from the saved graph state, which is sound.
LEMMA ResumeInv ==
    ASSUME PublicationInv, NEW r \in Runs, NEW origin \in Origins,
           NEW v \in {"none", "true"} \cup Decisions,
           Resume(r, origin, v) \/ UNCHANGED run,
           UNCHANGED <<dbVars, feedVars, threadVars, deleteVars, requireApproval, now>>,
           due' \subseteq Posts, actioned' \subseteq Posts \X Decisions,
           clicks' \in [Clicks -> {NoClick} \cup Posts \X Answers],
           faults' \in 0 .. MaxFaults,
           said' \in [Posts -> SUBSET {"approved", "rejected", "stray"}]
    PROVE  PublicationInv'
  <1>1. TypeOK
    BY DEF PublicationInv
  <1>2. run' \in [Runs -> RunRec] => TypeOK'
    BY <1>1 DEF dbVars, feedVars, threadVars, deleteVars, TypeOK
  <1>3. /\ UNCHANGED <<owner, ckpt, wiped, deleting, erase>>
        /\ \A p \in Posts : Demoted(p)
    BY DEF dbVars, feedVars, threadVars, deleteVars, Demoted
  <1>4. CASE Resume(r, origin, v)
    <2>1. /\ run' \in [Runs -> RunRec]
          /\ \A q \in Runs \ {r} : run'[q] = run[q]
          /\ run'[r].pc = ckpt.next /\ run'[r].st = ckpt.st /\ ~run'[r].unsaved
      BY <1>1, <1>4, ResumeRun
    <2>2. Sound(owner, run'[r].pc, run'[r].st)
      BY <2>1 DEF PublicationInv, CkptSound
    <2>3. run'[r].pc \notin {"reset", "commit"}
      BY <1>4, <2>1 DEF Resume, CanResume, Nodes
    <2> QED BY <1>2, <1>3, <2>1, <2>2, <2>3, Frame
  <1>5. CASE UNCHANGED run
    BY <1>1, <1>2, <1>3, <1>5, StillFrame DEF TypeOK
  <1> QED BY <1>4, <1>5

\* Decisions: accepted by a route, delivered, lost.
LEMMA DecisionInv ==
    ASSUME PublicationInv,
           \/ \E c \in Clicks, p \in Posts, d \in Answers : Accept(c, p, d)
           \/ \E r \in Runs, c \in Clicks : DeliverClick(r, c)
           \/ ResumeRaises
    PROVE  PublicationInv'
  <1>1. TypeOK
    BY DEF PublicationInv
  <1>2. ASSUME NEW c \in Clicks, NEW p \in Posts, NEW d \in Answers, Accept(c, p, d)
        PROVE  PublicationInv'
    <2>1. clicks' \in [Clicks -> {NoClick} \cup Posts \X Answers]
      BY <1>1, <1>2 DEF Accept, TypeOK
    <2>2. UNCHANGED <<rows, approval, owner, live, wiped, ckpt, fresh, run, due, actioned,
                      deleting, erase, requireApproval, now, faults, said>>
      BY <1>2 DEF Accept, dbVars, feedVars, threadVars, deleteVars, envVars
    <2>3. TypeOK'
      BY <1>1, <2>1, <2>2 DEF TypeOK
    <2> QED BY <2>2, <2>3, StillFrame DEF Demoted
  <1>3. ASSUME NEW r \in Runs, NEW c \in Clicks, DeliverClick(r, c)
        PROVE  PublicationInv'
    <2> DEFINE p == clicks[c][1]
               d == clicks[c][2]
    <2>1. p \in Posts /\ d \in Answers
      BY <1>1, <1>3 DEF DeliverClick, TypeOK
    <2>2. Resume(r, "decision", d) \/ UNCHANGED run
      BY <1>3 DEF DeliverClick, Wake
    <2>3. clicks' \in [Clicks -> {NoClick} \cup Posts \X Answers]
      BY <1>1, <1>3 DEF DeliverClick, TypeOK
    <2>4. Say(p, d)
      BY <1>3 DEF DeliverClick
    <2>5. said' \in [Posts -> SUBSET {"approved", "rejected", "stray"}]
      BY <1>1, <2>1, <2>4 DEF Say, AfterWord, Word, Answers, TypeOK
    <2>6. UNCHANGED <<dbVars, feedVars, threadVars, due, actioned, deleteVars, envVars>>
      BY <1>3 DEF DeliverClick
    <2> QED BY <1>1, <2>1, <2>2, <2>3, <2>5, <2>6, ResumeInv
            DEF Answers, Decisions, Origins, envVars, TypeOK
  <1>4. CASE ResumeRaises
    <2>1. /\ clicks' \in [Clicks -> {NoClick} \cup Posts \X Answers]
          /\ actioned' \subseteq Posts \X Decisions /\ faults' \in 0 .. MaxFaults
      BY <1>1, <1>4, CountsAssumption DEF ResumeRaises, TypeOK
    <2>2. UNCHANGED <<rows, approval, owner, live, wiped, ckpt, fresh, run, due,
                      deleting, erase, requireApproval, now, said>>
      BY <1>4 DEF ResumeRaises, dbVars, feedVars, threadVars, deleteVars
    <2>3. TypeOK'
      BY <1>1, <2>1, <2>2 DEF TypeOK
    <2> QED BY <2>2, <2>3, StillFrame DEF Demoted
  <1> QED BY <1>2, <1>3, <1>4

LEMMA ResumeJobsInv ==
    ASSUME PublicationInv, NEW r \in Runs, ResumeActioned(r) \/ ResumeDue(r)
    PROVE  PublicationInv'
  <1>1. TypeOK
    BY DEF PublicationInv
  <1>2. CASE ResumeActioned(r)
    <2>1. PICK a \in actioned :
            /\ actioned' = actioned \ {a} /\ Say(a[1], a[2])
            /\ Resume(r, "approvals_job", a[2]) \/ UNCHANGED run
      BY <1>2 DEF ResumeActioned, Wake
    <2>2. a[2] \in Decisions
      BY <1>1 DEF TypeOK
    <2>3. said' \in [Posts -> SUBSET {"approved", "rejected", "stray"}]
      BY <1>1, <2>1, <2>2 DEF Say, AfterWord, Word, Answers, Decisions, TypeOK
    <2>4. UNCHANGED <<dbVars, feedVars, threadVars, due, clicks, deleteVars, envVars>>
      BY <1>2 DEF ResumeActioned
    <2> QED BY <1>1, <2>1, <2>2, <2>3, <2>4, ResumeInv DEF Origins, envVars, TypeOK
  <1>3. CASE ResumeDue(r)
    <2>1. said' \in [Posts -> SUBSET {"approved", "rejected", "stray"}]
      BY <1>1, <1>3 DEF ResumeDue, TypeOK
    <2>2. due' \subseteq Posts /\ (Resume(r, "scheduled_job", "true") \/ UNCHANGED run)
      BY <1>1, <1>3 DEF ResumeDue, Wake, TypeOK
    <2>3. UNCHANGED <<dbVars, feedVars, threadVars, actioned, clicks, deleteVars, envVars>>
      BY <1>3 DEF ResumeDue
    <2> QED BY <1>1, <2>1, <2>2, <2>3, ResumeInv DEF Origins, envVars, TypeOK
  <1> QED BY <1>2, <1>3

LEMMA PollApprovalsInv ==
    ASSUME PublicationInv, PollApprovals
    PROVE  PublicationInv'
  <1>1. PICK dec \in [Posts -> {"none"} \cup Decisions] :
         /\ approval' = [p \in Posts |-> IF dec[p] = "none" THEN approval[p] ELSE dec[p]]
         /\ rows' = [p \in Posts |->
              CASE dec[p] = "none" -> rows[p]
                [] dec[p] = "approved" -> [rows[p] EXCEPT !.status = "approved"]
                [] dec[p] = "rejected" -> [rows[p] EXCEPT !.status = "rejected"]
                [] dec[p] = "timeout"  -> [rows[p] EXCEPT !.status = "failed"]]
         /\ actioned' = {<<p, dec[p]>> : p \in {q \in Posts : dec[q] # "none"}}
    BY DEF PollApprovals
  <1>2. TypeOK /\ UNCHANGED <<feedVars, threadVars, run, due, clicks, deleteVars, envVars, said>>
    BY DEF PublicationInv, PollApprovals
  <1>3. approval' \in [Posts -> {"none", "pending"} \cup Decisions]
    BY <1>1, <1>2 DEF TypeOK, Decisions
  <1>4. actioned' \subseteq Posts \X Decisions
    BY <1>1, <1>2 DEF TypeOK, Decisions
  <1>5. ASSUME NEW p \in Posts
        PROVE  rows'[p] \in Row /\ Demoted(p)
    <2>1. rows[p] \in Row
      BY <1>2, RowType
    <2>2. CASE dec[p] = "none"
      BY <1>1, <2>1, <2>2 DEF Demoted
    <2>3. ASSUME NEW x \in {"approved", "rejected", "failed"},
                 rows'[p] = [rows[p] EXCEPT !.status = x]
          PROVE  rows'[p] \in Row /\ Demoted(p)
      <3> DEFINE new == [rows[p] EXCEPT !.status = x]
      <3>0. x \in Statuses
        BY DEF Statuses
      <3>1. new \in Row /\ new.status = x /\ new.lid = rows[p].lid
        BY <2>1, <3>0, StatusColumn
      <3> HIDE DEF new
      <3>2. rows'[p] = new
        BY <2>3 DEF new
      <3> QED BY <3>1, <3>2 DEF Demoted
    <2>4. CASE dec[p] = "approved"
      BY <1>1, <2>3, <2>4
    <2>5. CASE dec[p] = "rejected"
      BY <1>1, <2>3, <2>5
    <2>6. CASE dec[p] = "timeout"
      BY <1>1, <2>3, <2>6
    <2> QED BY <2>2, <2>4, <2>5, <2>6 DEF Decisions
  <1>6. rows' = [p \in Posts |-> rows'[p]]
    <2> DEFINE new(p) ==
          CASE dec[p] = "none" -> rows[p]
            [] dec[p] = "approved" -> [rows[p] EXCEPT !.status = "approved"]
            [] dec[p] = "rejected" -> [rows[p] EXCEPT !.status = "rejected"]
            [] dec[p] = "timeout"  -> [rows[p] EXCEPT !.status = "failed"]
    <2>1. rows' = [p \in Posts |-> new(p)]
      BY <1>1
    <2> HIDE DEF new
    <2> QED BY <2>1
  <1>7. rows' \in [Posts -> Row]
    BY <1>5, <1>6
  <1>8. TypeOK'
    BY <1>2, <1>3, <1>4, <1>7 DEF feedVars, threadVars, deleteVars, envVars, TypeOK
  <1> QED BY <1>2, <1>5, <1>8, StillFrame DEF feedVars, threadVars, deleteVars

\* The other handlers: rescheduling, the settings, the clock.
LEMMA OperatorInv ==
    ASSUME PublicationInv,
           \/ \E p \in Posts, s \in Slots : Reschedule(p, s)
           \/ ToggleApproval \/ Tick \/ PollScheduled
    PROVE  PublicationInv'
  <1>0. TypeOK
    BY DEF PublicationInv
  <1>1. ASSUME NEW p \in Posts, NEW s \in Slots, Reschedule(p, s)
        PROVE  PublicationInv'
    <2> DEFINE new == [rows[p] EXCEPT !.slot = s]
    <2>1. new \in Row /\ new.status = rows[p].status /\ new.lid = rows[p].lid
      BY <1>0, RowType, SlotColumn
    <2>2. rows' = [rows EXCEPT ![p] = new]
      BY <1>1 DEF Reschedule
    <2> HIDE DEF new
    <2>3. rows' \in [Posts -> Row] /\ \A q \in Posts : Demoted(q)
      BY <1>0, <2>1, <2>2 DEF TypeOK, Demoted
    <2>4. TypeOK' /\ UNCHANGED <<owner, ckpt, run, wiped, deleting, erase>>
      BY <1>0, <1>1, <2>3
         DEF Reschedule, feedVars, threadVars, jobVars, deleteVars, envVars, TypeOK
    <2> QED BY <2>3, <2>4, StillFrame
  <1>2. CASE ToggleApproval \/ PollScheduled \/ Tick
    <2>1. UNCHANGED <<owner, ckpt, run, rows, approval, live, wiped, fresh, actioned,
                      clicks, deleting, erase, faults, said>>
      BY <1>2 DEF ToggleApproval, PollScheduled, Tick, dbVars, feedVars, threadVars,
                  jobVars, deleteVars, envVars
    <2>2. requireApproval' \in BOOLEAN /\ due' \subseteq Posts /\ now' \in 0 .. MaxTime
      <3>1. CASE ToggleApproval
        BY <1>0, <3>1 DEF ToggleApproval, jobVars, deleteVars, TypeOK
      <3>2. CASE PollScheduled
        BY <1>0, <3>2 DEF PollScheduled, DuePosts, envVars, TypeOK
      <3>3. CASE Tick
        BY <1>0, <3>3, CountsAssumption DEF Tick, jobVars, deleteVars, TypeOK
      <3> QED BY <1>2, <3>1, <3>2, <3>3
    <2>3. TypeOK'
      BY <1>0, <2>1, <2>2 DEF TypeOK
    <2> QED BY <2>1, <2>3, StillFrame DEF Demoted
  <1> QED BY <1>1, <1>2

LEMMA DeleteInv ==
    ASSUME PublicationInv, (\E p \in Posts : DeleteShare(p)) \/ DeleteReads \/ DeleteCommits
    PROVE  PublicationInv'
  <1>0. TypeOK /\ erase \in Patch
    BY DEF PublicationInv, TypeOK
  <1>1. ASSUME NEW p \in Posts, DeleteShare(p)
        PROVE  PublicationInv'
    <2>1. UNCHANGED <<rows, approval, owner, wiped, ckpt, fresh, run, due, actioned, clicks,
                      erase, requireApproval, now, faults, said>>
      BY <1>1 DEF DeleteShare, dbVars, threadVars, envVars
    <2>2. TypeOK'
      BY <1>0, <1>1, <2>1 DEF DeleteShare, TypeOK
    <2>3. erase.cols = {}
      BY <1>1 DEF DeleteShare, PublicationInv, PatchesSound, EraseSound
    <2>4. RowsSound' /\ RunsSound' /\ CkptSound'
      BY <2>1 DEF PublicationInv, RowsSound, RunsSound, CkptSound
    <2>5. PatchesSound'
      BY <2>1, <2>3 DEF PublicationInv, PatchesSound, EraseSound, PatchSound, CommitSound, ClearSound
    <2> QED BY <2>2, <2>4, <2>5 DEF PublicationInv
  <1>2. CASE DeleteReads
    <2> DEFINE half == [rows[deleting] EXCEPT !.status = "rejected"]
               new == [half EXCEPT !.lid = 0]
               u == PatchOf(rows[deleting], new)
    <2>1. deleting \in Posts /\ rows[deleting] \in Row
      BY <1>0, <1>2, RowType DEF DeleteReads, TypeOK
    <2>2. half \in Row /\ half.status = "rejected"
          /\ half.slot = rows[deleting].slot /\ half.hash = rows[deleting].hash
      BY <2>1, StatusColumn DEF Statuses, Row
    <2>3. new = [rows[deleting] EXCEPT !.status = "rejected", !.lid = 0]
      BY <2>1 DEF Row
    <2>4. /\ IF u.cols = {} THEN deleting' = 0 /\ UNCHANGED erase
             ELSE erase' = u /\ UNCHANGED deleting
          /\ erase.cols = {}
      BY <1>2, <2>3 DEF DeleteReads
    <2> HIDE DEF half
    <2>5. new \in Row /\ new.status = "rejected" /\ new.lid = 0
          /\ new.slot = rows[deleting].slot /\ new.hash = rows[deleting].hash
      BY <2>2, ShareColumn
    <2> HIDE DEF new
    <2>6. u \in Patch /\ ClearSound(deleting, u) /\ u.cols \subseteq {"status", "lid"}
      BY <2>1, <2>5, PatchType DEF ClearSound
    <2> HIDE DEF u
    <2>7. UNCHANGED <<rows, approval, owner, live, wiped, ckpt, fresh, run, due, actioned,
                      clicks, requireApproval, now, faults, said>>
      BY <1>2 DEF DeleteReads, dbVars, feedVars, threadVars, envVars
    <2>8. TypeOK'
      BY <1>0, <2>4, <2>6, <2>7 DEF TypeOK
    <2>9. RowsSound' /\ RunsSound' /\ CkptSound'
      BY <2>7 DEF PublicationInv, RowsSound, RunsSound, CkptSound
    <2>10. \A r \in Runs : PatchSound(run[r])'
      BY <2>7 DEF PublicationInv, PatchesSound, PatchSound, CommitSound, ClearSound
    <2>11. EraseSound'
      BY <2>1, <2>4, <2>6, <2>7 DEF EraseSound, ClearSound, Posts
    <2> QED BY <2>8, <2>9, <2>10, <2>11 DEF PublicationInv, PatchesSound
  <1>3. CASE DeleteCommits
    <2>1. deleting \in Posts /\ ClearSound(deleting, erase)
      BY <1>0, <1>3 DEF DeleteCommits, PublicationInv, PatchesSound, EraseSound, TypeOK
    <2>2. /\ Apply(deleting, erase) /\ NoteClear(deleting, erase)
          /\ deleting' = 0 /\ erase' = NoPatch
          /\ UNCHANGED <<approval, owner, live, ckpt, fresh, run, due, actioned, clicks,
                         requireApproval, now, faults, said>>
      BY <1>3 DEF DeleteCommits, threadVars, envVars
    <2>3. rows' \in [Posts -> Row] /\ wiped' \subseteq Posts /\ RowsSound' /\ PatchesSound'
      BY <1>0, <2>1, <2>2, ClearCommits
    <2>4. TypeOK'
      BY <1>0, <2>2, <2>3, NoPatchType DEF TypeOK
    <2>5. RunsSound' /\ CkptSound'
      BY <2>2 DEF PublicationInv, RunsSound, CkptSound
    <2> QED BY <2>3, <2>4, <2>5 DEF PublicationInv
  <1> QED BY <1>1, <1>2, <1>3

LEMMA CrashInv ==
    ASSUME PublicationInv, Crash
    PROVE  PublicationInv'
  <1>1. TypeOK'
    BY CountsAssumption, NoPatchType
       DEF PublicationInv, Crash, dbVars, feedVars, threadVars, TypeOK, RunRec,
           IdleRun, NoState, State, PCs, Origins
  <1>2. RunsSound' /\ PatchesSound'
    BY DEF Crash, RunsSound, Sound, IdleRun, PatchesSound, EraseSound, PatchSound, NoPatch
  <1>3. RowsSound' /\ CkptSound'
    BY DEF PublicationInv, Crash, RowsSound, CkptSound, dbVars, feedVars, threadVars
  <1> QED BY <1>1, <1>2, <1>3 DEF PublicationInv

-----------------------------------------------------------------------------
(* The published status *)

LEMMA InitInv == Init => PublicationInv
  <1> SUFFICES ASSUME Init PROVE PublicationInv
    OBVIOUS
  <1>1. NoState \in State
    BY DEF NoState, State
  <1>2. NoRow \in Row
    BY DEF NoRow, Row, Statuses
  <1>3. IdleRun \in RunRec
    BY <1>1, NoPatchType DEF IdleRun, RunRec, PCs, Origins
  <1>4. TypeOK
    BY <1>1, <1>2, <1>3, NoPatchType, CountsAssumption, NeedApprovalAssumption
       DEF Init, TypeOK, Checkpoint
  <1>5. RowsSound
    BY DEF Init, RowsSound, NoRow
  <1>6. RunsSound /\ CkptSound /\ PatchesSound
    BY DEF Init, RunsSound, CkptSound, Sound, IdleRun, PatchesSound, EraseSound, PatchSound, NoPatch
  <1> QED BY <1>4, <1>5, <1>6 DEF PublicationInv

LEMMA StutterInv ==
    ASSUME PublicationInv, UNCHANGED vars
    PROVE  PublicationInv'
  <1>1. TypeOK'
    BY DEF PublicationInv, vars, TypeOK
  <1>2. UNCHANGED <<owner, ckpt, run, wiped, deleting, erase, rows>>
    BY DEF vars
  <1> QED BY <1>1, <1>2, StillFrame DEF Demoted

LEMMA StepInv == PublicationInv /\ [Next]_vars => PublicationInv'
  <1> SUFFICES ASSUME PublicationInv, [Next]_vars PROVE PublicationInv'
    OBVIOUS
  <1>1. CASE \E r \in Runs : NodeStep(r) \/ NodeRaises(r) \/ LinkedInReplyLost(r)
    BY <1>1, NodeStepInv, RaisesInv, LinkedInInv
  <1>2. CASE \E r \in Runs : Handler(r) \/ ResumeActioned(r) \/ ResumeDue(r)
    <2>1. PICK r \in Runs : Handler(r) \/ ResumeActioned(r) \/ ResumeDue(r)
      BY <1>2
    <2>2. CASE \E dry \in BOOLEAN : StartUpload(r, dry)
      BY <2>2, StartUploadInv
    <2>3. CASE \E p \in Posts : (\E dry \in BOOLEAN : RetryPost(r, p, dry)) \/ PublishPost(r, p)
      BY <2>3, FreshInv
    <2>4. CASE \E c \in Clicks : DeliverClick(r, c)
      BY <2>4, DecisionInv
    <2>5. CASE ResumeActioned(r) \/ ResumeDue(r)
      BY <2>5, ResumeJobsInv
    <2> QED BY <2>1, <2>2, <2>3, <2>4, <2>5 DEF Handler
  <1>3. CASE PollApprovals
    BY <1>3, PollApprovalsInv
  <1>4. CASE \/ PollScheduled
             \/ \E p \in Posts, s \in Slots : Reschedule(p, s)
             \/ ToggleApproval \/ Tick
    BY <1>4, OperatorInv
  <1>5. CASE Crash
    BY <1>5, CrashInv
  <1>6. CASE UNCHANGED vars
    BY <1>6, StutterInv
  <1>7. CASE (\E p \in Posts : DeleteShare(p)) \/ DeleteReads \/ DeleteCommits
    BY <1>7, DeleteInv
  <1>8. CASE \E c \in Clicks, p \in Posts, d \in Answers :
                PostDecision(c, p, d) \/ DecideApproval(c, p, d)
    BY <1>8, DecisionInv DEF PostDecision, DecideApproval
  <1>9. CASE ResumeRaises
    BY <1>9, DecisionInv
  <1> QED BY <1>1, <1>2, <1>3, <1>4, <1>5, <1>6, <1>7, <1>8, <1>9 DEF Next

\* Rows, runs and checkpoints only ever name shares that LinkedIn accepted for
\* their own post, also across transactions that overlap, in every reachable
\* state of every instance.
THEOREM PublicationSound == Spec => []PublicationInv
  BY InitInv, StepInv, PTL DEF Spec

\* Every table row, thread and run keeps its shape.
THEOREM TypeSound == Spec => []TypeOK
  <1>1. PublicationInv => TypeOK
    BY DEF PublicationInv
  <1> QED BY <1>1, PublicationSound, PTL

\* A post in status "published" carries the id of a share LinkedIn accepted for
\* that post: publish_node's record and finalize_node's status never part, over
\* all interleavings of runs, jobs, handlers, exceptions and crashes, except
\* where a delete or a reset overlaps finalize_node's transaction.
THEOREM PublishedSound == Spec => []PublishedMeansRecorded
  <1>1. PublicationInv => PublishedMeansRecorded
    BY DEF PublicationInv, RowsSound, PublishedMeansRecorded
  <1> QED BY <1>1, PublicationSound, PTL

-----------------------------------------------------------------------------
(* What the steps do, field by field *)

Kept(r) == \A q \in Runs \ {r} : run'[q] = run[q]

\* Run r goes to point n, for the same post, on the same thread.
Moves(r, n) ==
    /\ Kept(r)
    /\ run'[r].pc = n
    /\ run'[r].thread = run[r].thread /\ run'[r].origin = run[r].origin
    /\ run'[r].resume = run[r].resume
    /\ run'[r].st.post = run[r].st.post
    /\ run'[r].st.dry = run[r].st.dry /\ run'[r].st.skip = run[r].st.skip

Returns(r, n) == Moves(r, n) /\ run'[r].unsaved
Goes(r, n) == Moves(r, n) /\ ~run'[r].unsaved
Ends(r) == Kept(r) /\ run'[r] = IdleRun

\* Post p gets status s and is left alone otherwise, like all other posts.
Gets(p, s) ==
    /\ rows'[p].status = s /\ rows'[p].lid = rows[p].lid /\ rows'[p].slot = rows[p].slot
    /\ \A q \in Posts \ {p} : rows'[q] = rows[q]

\* Rows are marked failed at most.
Fails ==
    \A q \in Posts : /\ rows'[q].status \in {rows[q].status, "failed"}
                     /\ rows'[q].lid = rows[q].lid /\ rows'[q].slot = rows[q].slot

Steady == UNCHANGED <<ckpt, due, actioned, clicks, deleting, erase, requireApproval, now, said>>

LEMMA AdvanceReturns ==
    ASSUME TypeOK, NEW r \in Runs, NEW n, NEW s, Advance(r, n, s),
           s.post = run[r].st.post, s.dry = run[r].st.dry, s.skip = run[r].st.skip
    PROVE  Returns(r, n) /\ run'[r].st = s
  BY DEF Advance, TypeOK, RunRec, Returns, Moves, Kept

LEMMA GotoGoes ==
    ASSUME TypeOK, NEW r \in Runs, NEW n, Goto(r, n), ~run[r].unsaved
    PROVE  Goes(r, n) /\ run'[r].st = run[r].st
  BY DEF Goto, TypeOK, RunRec, Goes, Moves, Kept

LEMMA DiesEnds ==
    ASSUME TypeOK, NEW r \in Runs, Dies(r)
    PROVE  Ends(r)
  BY DEF Dies, TypeOK, Ends, Kept

LEMMA StatusGets ==
    ASSUME TypeOK, NEW p \in Posts, NEW s, SetStatus(p, s)
    PROVE  Gets(p, s)
  BY DEF SetStatus, TypeOK, Row, Gets

LEMMA GiveUpReturns ==
    ASSUME TypeOK, NEW r \in Runs, run[r].st.post \in Posts, GiveUp(r, run[r].st.post)
    PROVE  Returns(r, "finalize") /\ run'[r].st.err /\ Gets(run[r].st.post, "failed")
  <1> DEFINE s == [run[r].st EXCEPT !.err = TRUE]
  <1>1. /\ s.post = run[r].st.post /\ s.dry = run[r].st.dry
        /\ s.skip = run[r].st.skip /\ s.err
    BY RunState DEF State
  <1>2. SetStatus(run[r].st.post, "failed") /\ Advance(r, "finalize", s)
    BY DEF GiveUp
  <1> HIDE DEF s
  <1> QED BY <1>1, <1>2, AdvanceReturns, StatusGets

LEMMA MarkFails ==
    ASSUME TypeOK, NEW r \in Runs, MarkFailed(r)
    PROVE  Fails /\ (run[r].origin \notin {"start", "retry"} => \A q \in Posts : rows'[q] = rows[q])
  <1>1. \A q \in Posts : rows'[q] = rows[q] \/ rows'[q] = [rows[q] EXCEPT !.status = "failed"]
    BY DEF MarkFailed
  <1>2. Fails
    BY <1>1, RowType DEF Fails, Row
  <1>3. run[r].origin \notin {"start", "retry"} => MarkTarget(r) = {}
    BY DEF MarkTarget
  <1> QED BY <1>2, <1>3 DEF MarkFailed

\* An exception, whether the environment's or one the code foresees.
RaiseEffect(r) ==
    /\ ~Idle(r) /\ Ends(r) /\ Fails /\ Steady /\ UNCHANGED <<approval, owner, live>>
    /\ run[r].origin \notin {"start", "retry"} => \A q \in Posts : rows'[q] = rows[q]
    /\ \/ faults < MaxFaults /\ faults' = faults + 1
       \/ run[r].pc \in {"dedup", "schedule"} /\ UNCHANGED faults

LEMMA RaiseSteps ==
    ASSUME TypeOK, NEW r \in Runs,
           NodeRaises(r) \/ DedupConflicts(r) \/ ScheduleRaises(r)
    PROVE  RaiseEffect(r)
  <1>1. MarkFailed(r) /\ Dies(r)
    BY DEF NodeRaises, DedupConflicts, ScheduleRaises
  <1>2. Ends(r) /\ Fails
        /\ (run[r].origin \notin {"start", "retry"} => \A q \in Posts : rows'[q] = rows[q])
    BY <1>1, DiesEnds, MarkFails
  <1> QED BY <1>2 DEF NodeRaises, DedupConflicts, ScheduleRaises, RaiseEffect, Steady,
            feedVars, threadVars, jobVars, deleteVars, envVars, At, Idle

\* Checkpoint after a node.
SaveEffect(r) ==
    /\ run[r].unsaved /\ run[r].pc \in Nodes \cup {"end"}
    /\ UNCHANGED <<rows, approval, owner, live, due, actioned, clicks, deleting, erase,
                   requireApproval, now, faults, said>>
    /\ run[r].thread = "upload" => ckpt'.next = run[r].pc /\ ckpt'.st = run[r].st
    /\ run[r].thread # "upload" => UNCHANGED ckpt
    /\ run[r].pc = "end" => Ends(r)
    /\ run[r].pc # "end" =>
         /\ Kept(r) /\ run'[r].pc = run[r].pc /\ run'[r].thread = run[r].thread
         /\ run'[r].origin = run[r].origin /\ run'[r].st = run[r].st
         /\ ~run'[r].unsaved /\ run'[r].resume = "none"

LEMMA SaveSteps ==
    ASSUME TypeOK, RunsSound, NEW r \in Runs, SaveCheckpoint(r)
    PROVE  SaveEffect(r)
  <1>1. run[r].pc # "end" =>
           run' = [run EXCEPT ![r] = [run[r] EXCEPT !.unsaved = FALSE, !.resume = "none"]]
    BY DEF SaveCheckpoint, TypeOK
  <1>2. run[r].pc = "end" => run' = [run EXCEPT ![r] = IdleRun]
    BY DEF SaveCheckpoint
  <1>3. /\ run[r].unsaved
        /\ ckpt' = IF run[r].thread = "upload"
                   THEN [next |-> run[r].pc, st |-> run[r].st] ELSE ckpt
        /\ UNCHANGED <<rows, approval, owner, live, due, actioned, clicks, deleting, erase,
                       requireApproval, now, faults, said>>
    BY DEF SaveCheckpoint, dbVars, feedVars, jobVars, deleteVars, envVars
  <1>4. run[r] \in RunRec /\ run \in [Runs -> RunRec] /\ run[r].pc \in Nodes \cup {"end"}
    BY <1>3 DEF TypeOK, RunsSound
  <1>5. CASE run[r].pc = "end"
    BY <1>2, <1>3, <1>4, <1>5 DEF Ends, Kept, SaveEffect
  <1>6. CASE run[r].pc # "end"
    <2> DEFINE new == [run[r] EXCEPT !.unsaved = FALSE, !.resume = "none"]
    <2>1. /\ new.pc = run[r].pc /\ new.thread = run[r].thread /\ new.origin = run[r].origin
          /\ new.st = run[r].st /\ ~new.unsaved /\ new.resume = "none"
      BY <1>4 DEF RunRec
    <2>2. run' = [run EXCEPT ![r] = new]
      BY <1>1, <1>6
    <2> HIDE DEF new
    <2>3. run'[r] = new /\ Kept(r)
      BY <1>4, <2>2 DEF Kept
    <2> QED BY <1>3, <1>4, <1>6, <2>1, <2>3 DEF SaveEffect
  <1> QED BY <1>5, <1>6

\* A resume of the upload's thread.
Resumes(r, origin, v) ==
    /\ Idle(r) /\ ckpt.next \in Nodes /\ Kept(r)
    /\ run'[r].pc = ckpt.next /\ run'[r].st = ckpt.st /\ ~run'[r].unsaved
    /\ run'[r].thread = "upload" /\ run'[r].origin = origin /\ run'[r].resume = v

LEMMA ResumeEffect ==
    ASSUME TypeOK, NEW r \in Runs, NEW origin, NEW v, Resume(r, origin, v)
    PROVE  Resumes(r, origin, v)
  BY DEF Resume, CanResume, TypeOK, Resumes, Kept

Screened == {"dedup", "sanitize", "transform", "validate", "schedule"}
Opening  == {"extract", "reset"} \cup Screened

\* The nodes before the gate: the post may be failed, and only a dry run, a
\* "publish now" or a setting gets around approve_node.
OpeningEffect(r) ==
    /\ run[r].pc \in Opening /\ ~run[r].unsaved /\ run[r].st.post \in Posts
    /\ Steady /\ UNCHANGED <<approval, owner, live, faults>>
    /\ \A q \in Posts : /\ rows'[q].status \in {rows[q].status, "failed"}
                        /\ rows'[q].lid = rows[q].lid
    /\ \/ run[r].pc = "extract" /\ Goes(r, "reset")
       \/ \E n \in Screened \cup {"finalize", "approve", "wait_for_slot"} :
            /\ run[r].pc \in Screened /\ Returns(r, n)
            /\ n = "wait_for_slot" => run[r].st.dry \/ run[r].st.skip \/ ~requireApproval

LEMMA OpeningSteps ==
    ASSUME PublicationInv, NEW r \in Runs,
           \/ DedupPasses(r) \/ DedupRefuses(r)
           \/ Sanitize(r) \/ Transform(r) \/ Validate(r)
    PROVE  OpeningEffect(r)
  <1>0. /\ TypeOK /\ run[r].st \in State /\ run[r].st.post \in Posts
    BY RunState DEF PublicationInv, RunsSound, Sound, DedupPasses, DedupRefuses,
                    Sanitize, Transform, Validate, Screen, At
  <1>1. PICK n \in {"finalize"} \cup (Screened) :
          \/ GiveUp(r, run[r].st.post)
          \/ Advance(r, n, run[r].st) /\ UNCHANGED rows
          \/ /\ Advance(r, n, run[r].st)
             /\ rows' = [rows EXCEPT ![run[r].st.post] = [@ EXCEPT !.hash = TRUE]]
    BY DEF DedupPasses, DedupRefuses, Sanitize, Transform, Validate, Screen, Screened
  <1>2. /\ run[r].pc \in Screened /\ ~run[r].unsaved
        /\ Steady /\ UNCHANGED <<approval, owner, live, faults>>
    BY DEF DedupPasses, DedupRefuses, Sanitize, Transform, Validate, Screen, At, Screened,
           Steady, feedVars, threadVars, jobVars, deleteVars, envVars
  <1>3. CASE GiveUp(r, run[r].st.post)
    BY <1>0, <1>2, <1>3, GiveUpReturns DEF OpeningEffect, Opening, Screened, Gets
  <1>4. CASE Advance(r, n, run[r].st) /\ UNCHANGED rows
    BY <1>0, <1>1, <1>2, <1>4, AdvanceReturns DEF OpeningEffect, Opening, Screened
  <1>5. CASE /\ Advance(r, n, run[r].st)
             /\ rows' = [rows EXCEPT ![run[r].st.post] = [@ EXCEPT !.hash = TRUE]]
    <2>1. \A q \in Posts : rows'[q].status = rows[q].status /\ rows'[q].lid = rows[q].lid
      BY <1>0, <1>5 DEF TypeOK, Row
    <2> QED BY <1>0, <1>1, <1>2, <1>5, <2>1, AdvanceReturns DEF OpeningEffect, Opening, Screened
  <1> QED BY <1>1, <1>3, <1>4, <1>5

LEMMA ScheduleSteps ==
    ASSUME PublicationInv, NEW r \in Runs, Schedule(r)
    PROVE  OpeningEffect(r)
  <1>0. TypeOK /\ run[r].st.post \in Posts
    BY DEF PublicationInv, RunsSound, Sound, Schedule, At
  <1>1. \A q \in Posts : rows'[q].status = rows[q].status /\ rows'[q].lid = rows[q].lid
    BY <1>0 DEF Schedule, TypeOK, Row
  <1>2. \/ Returns(r, "approve")
        \/ Returns(r, "wait_for_slot") /\ (run[r].st.dry \/ run[r].st.skip \/ ~requireApproval)
    <2>1. CASE run[r].st.dry \/ run[r].st.skip \/ ~requireApproval
      <3>1. Advance(r, "wait_for_slot", run[r].st)
        BY <2>1 DEF Schedule
      <3> QED BY <1>0, <2>1, <3>1, AdvanceReturns
    <2>2. CASE ~(run[r].st.dry \/ run[r].st.skip \/ ~requireApproval)
      <3>1. Advance(r, "approve", run[r].st)
        BY <2>2 DEF Schedule
      <3> QED BY <1>0, <3>1, AdvanceReturns
    <2> QED BY <2>1, <2>2
  <1> QED BY <1>0, <1>1, <1>2 DEF Schedule, OpeningEffect, Opening, Screened, At, Steady, feedVars, threadVars,
            jobVars, deleteVars, envVars

\* extract_node inserts a row, or commits the reset of the one it was given.
ExtractEffect(r) ==
    LET q == run'[r].st.post IN
    /\ run[r].pc \in {"extract", "reset"} /\ ~run[r].unsaved
    /\ UNCHANGED <<ckpt, due, actioned, clicks, deleting, erase, requireApproval, now,
                   approval, owner, live, faults>>
    /\ Kept(r) /\ run'[r].pc = "dedup" /\ run'[r].unsaved
    /\ run'[r].thread = run[r].thread /\ run'[r].origin = run[r].origin
    /\ run'[r].resume = run[r].resume
    /\ run'[r].st.dry = run[r].st.dry /\ run'[r].st.skip = run[r].st.skip
    /\ q \in Posts
    /\ rows'[q].status \in {rows[q].status, "processing", "rejected"}
    /\ rows'[q].lid \in {rows[q].lid, 0} /\ said'[q] = {}
    /\ \A p \in Posts \ {q} : rows'[p] = rows[p] /\ said'[p] = said[p]

LEMMA InsertSteps ==
    ASSUME TypeOK, NEW r \in Runs, ExtractInserts(r)
    PROVE  ExtractEffect(r)
  <1>1. PICK p \in Posts :
          /\ rows' = [rows EXCEPT ![p] = ResetRow]
          /\ said' = [said EXCEPT ![p] = {}]
          /\ Advance(r, "dedup", [run[r].st EXCEPT !.post = p])
    BY DEF ExtractInserts
  <1> DEFINE s == [run[r].st EXCEPT !.post = p]
  <1>2. s.post = p /\ s.dry = run[r].st.dry /\ s.skip = run[r].st.skip
    BY RunState DEF State
  <1>3. Advance(r, "dedup", s)
    BY <1>1
  <1> HIDE DEF s
  <1>4. /\ Kept(r) /\ run'[r].pc = "dedup" /\ run'[r].unsaved /\ run'[r].st = s
        /\ run'[r].thread = run[r].thread /\ run'[r].origin = run[r].origin
        /\ run'[r].resume = run[r].resume
    BY <1>3 DEF Advance, TypeOK, RunRec, Kept
  <1>5. ResetRow.status = "processing" /\ ResetRow.lid = 0
    BY DEF ResetRow, NoRow
  <1>6. /\ rows'[p] = ResetRow /\ said'[p] = {}
        /\ \A q \in Posts \ {p} : rows'[q] = rows[q] /\ said'[q] = said[q]
    BY <1>1 DEF TypeOK
  <1> QED BY <1>2, <1>4, <1>5, <1>6 DEF ExtractEffect, ExtractInserts, At, feedVars,
            threadVars, jobVars, deleteVars, envVars

\* What a patch does to the row of post p.
LEMMA ApplyEffect ==
    ASSUME TypeOK, NEW p \in Posts, NEW u \in Patch, Apply(p, u)
    PROVE  /\ rows'[p].status = IF "status" \in u.cols THEN u.row.status ELSE rows[p].status
           /\ rows'[p].lid = IF "lid" \in u.cols THEN u.row.lid ELSE rows[p].lid
           /\ u.cols \subseteq {"status", "lid"} => rows'[p].slot = rows[p].slot
           /\ \A q \in Posts \ {p} : rows'[q] = rows[q]
  <1>1. rows'[p] = Patched(rows[p], u) /\ \A q \in Posts \ {p} : rows'[q] = rows[q]
    BY DEF Apply, TypeOK
  <1> QED BY <1>1 DEF Patched

LEMMA ResetSteps ==
    ASSUME PublicationInv, NEW r \in Runs, ExtractResets(r)
    PROVE  ExtractEffect(r)
  <1> DEFINE p == run[r].st.post
             u == run[r].upd
  <1>1. /\ TypeOK /\ p \in Posts /\ u \in Patch /\ ClearSound(p, u)
        /\ run[r].pc = "reset" /\ ~run[r].unsaved
    BY RunState DEF PublicationInv, RunsSound, Sound, PatchesSound, PatchSound, ExtractResets,
                    At
  <1>2. Apply(p, u) /\ Advance(r, "dedup", run[r].st) /\ said' = [said EXCEPT ![p] = {}]
    BY DEF ExtractResets
  <1>3. /\ rows'[p].status \in {rows[p].status, "processing", "rejected"}
        /\ rows'[p].lid \in {rows[p].lid, 0}
        /\ \A q \in Posts \ {p} : rows'[q] = rows[q]
    BY <1>1, <1>2, ApplyEffect DEF ClearSound
  <1>4. said'[p] = {} /\ \A q \in Posts \ {p} : said'[q] = said[q]
    BY <1>1, <1>2 DEF TypeOK
  <1>5. Returns(r, "dedup") /\ run'[r].st = run[r].st
    BY <1>1, <1>2, AdvanceReturns
  <1> QED BY <1>1, <1>3, <1>4, <1>5 DEF ExtractEffect, ExtractResets, Returns, Moves, feedVars,
            threadVars, jobVars, deleteVars, envVars

\* A SELECT: nothing changes but the patch in hand.
LEMMA ReadsGoes ==
    ASSUME TypeOK, NEW r \in Runs, NEW want, NEW n, Reads(r, want, n), ~run[r].unsaved
    PROVE  /\ Goes(r, n) /\ run'[r].st = run[r].st
           /\ run'[r].upd = PatchOf(rows[run[r].st.post], want)
  <1> DEFINE u == PatchOf(rows[run[r].st.post], want)
  <1>1. run' = [run EXCEPT ![r] = [@ EXCEPT !.pc = n, !.upd = u]]
    BY DEF Reads
  <1> HIDE DEF u
  <1>2. Goes(r, n) /\ run'[r].st = run[r].st /\ run'[r].upd = u
    BY <1>1 DEF TypeOK, RunRec, Goes, Moves, Kept
  <1> QED BY <1>2 DEF u

LEMMA ReadSteps ==
    ASSUME TypeOK, NEW r \in Runs, ExtractReads(r)
    PROVE  OpeningEffect(r)
  <1>1. Goes(r, "reset")
    BY ReadsGoes DEF ExtractReads, At
  <1>2. run[r].st.post \in Posts
    BY RunState DEF ExtractReads, State
  <1> QED BY <1>1, <1>2 DEF ExtractReads, At, OpeningEffect, Opening, Steady, dbVars, feedVars,
            threadVars, jobVars, deleteVars, envVars

\* approve_node.
GateEffect(r) ==
    LET p == run[r].st.post IN
    /\ p \in Posts /\ ~run[r].unsaved
    /\ Steady /\ UNCHANGED <<owner, live, faults>>
    /\ \/ /\ run[r].pc = "approve" /\ approval[p] = "none"
          /\ Goes(r, "notify") /\ Gets(p, "awaiting_approval")
          /\ approval' = [approval EXCEPT ![p] = "pending"]
       \/ /\ run[r].pc = "approve" /\ approval[p] # "none"
          /\ Goes(r, "decide") /\ UNCHANGED dbVars
       \/ run[r].pc = "notify" /\ Goes(r, "decide") /\ UNCHANGED dbVars
       \/ run[r].pc = "decide" /\ run[r].resume = "none" /\ Ends(r) /\ UNCHANGED dbVars
       \/ /\ run[r].pc = "decide" /\ run[r].resume \in {"approved", "true"}
          /\ Returns(r, "wait_for_slot") /\ Gets(p, "approved")
          /\ approval' = [approval EXCEPT ![p] = "approved"]
       \/ /\ run[r].pc = "decide" /\ run[r].resume \in {"rejected", "timeout"}
          /\ Returns(r, "finalize") /\ Gets(p, "rejected")
          /\ approval' = [approval EXCEPT ![p] = run[r].resume]

LEMMA GateSteps ==
    ASSUME PublicationInv, NEW r \in Runs,
           \/ ApproveEnqueue(r) \/ ApproveReuse(r) \/ NotifySlack(r)
           \/ ApproveInterrupts(r) \/ ApproveDecides(r)
    PROVE  GateEffect(r)
  <1> DEFINE p == run[r].st.post
  <1>0. /\ TypeOK /\ run[r] \in RunRec /\ run[r].st \in State /\ p \in Posts
        /\ ~run[r].unsaved
    BY RunState DEF PublicationInv, RunsSound, Sound, ApproveEnqueue, ApproveReuse,
                    NotifySlack, ApproveInterrupts, ApproveDecides, At
  <1>1. Steady /\ UNCHANGED <<owner, live, faults>>
    BY DEF ApproveEnqueue, ApproveReuse, NotifySlack, ApproveInterrupts, ApproveDecides,
           Steady, feedVars, threadVars, jobVars, deleteVars, envVars
  <1>2. CASE ApproveEnqueue(r)
    BY <1>0, <1>1, <1>2, GotoGoes, StatusGets DEF ApproveEnqueue, At, GateEffect
  <1>3. CASE ApproveReuse(r) \/ NotifySlack(r)
    BY <1>0, <1>1, <1>3, GotoGoes DEF ApproveReuse, NotifySlack, At, GateEffect
  <1>4. CASE ApproveInterrupts(r)
    BY <1>0, <1>1, <1>4, DiesEnds DEF ApproveInterrupts, At, GateEffect
  <1>5. CASE ApproveDecides(r)
    <2> DEFINE d == IF run[r].resume = "true" THEN "approved" ELSE run[r].resume
               s == [run[r].st EXCEPT !.appr = d]
    <2>1. s.post = p /\ s.dry = run[r].st.dry /\ s.skip = run[r].st.skip
      BY <1>0 DEF State
    <2>2. /\ run[r].pc = "decide" /\ run[r].resume # "none"
          /\ Advance(r, IF d = "approved" THEN "wait_for_slot" ELSE "finalize", s)
          /\ approval' = [approval EXCEPT ![p] = d]
          /\ SetStatus(p, IF d = "approved" THEN "approved" ELSE "rejected")
      BY <1>5 DEF ApproveDecides, At
    <2> HIDE DEF s
    <2>3. CASE run[r].resume \in {"approved", "true"}
      <3>1. d = "approved"
        BY <2>3
      <3> HIDE DEF d
      <3>2. Advance(r, "wait_for_slot", s) /\ SetStatus(p, "approved")
        BY <2>2, <3>1
      <3>3. Returns(r, "wait_for_slot") /\ Gets(p, "approved")
        BY <1>0, <2>1, <3>2, AdvanceReturns, StatusGets
      <3> QED BY <1>0, <1>1, <2>2, <2>3, <3>1, <3>3 DEF GateEffect
    <2>4. CASE run[r].resume \notin {"approved", "true"}
      <3>1. d = run[r].resume /\ d \in {"rejected", "timeout"}
        BY <1>0, <2>2, <2>4 DEF RunRec, Decisions
      <3> HIDE DEF d
      <3>2. Advance(r, "finalize", s) /\ SetStatus(p, "rejected")
        BY <2>2, <3>1
      <3>3. Returns(r, "finalize") /\ Gets(p, "rejected")
        BY <1>0, <2>1, <3>2, AdvanceReturns, StatusGets
      <3> QED BY <1>0, <1>1, <2>2, <3>1, <3>3 DEF GateEffect
    <2> QED BY <2>3, <2>4
  <1> QED BY <1>2, <1>3, <1>4, <1>5

\* wait_for_slot_node and preview.
SlotEffect(r) ==
    LET p == run[r].st.post IN
    /\ p \in Posts /\ ~run[r].unsaved
    /\ Steady /\ UNCHANGED <<approval, owner, live, faults>>
    /\ \/ /\ run[r].pc = "wait_for_slot" /\ ~MustWait(r)
          /\ Returns(r, "preview") /\ UNCHANGED rows
       \/ /\ run[r].pc = "wait_for_slot" /\ MustWait(r)
          /\ UNCHANGED rows \/ Gets(p, "scheduled")
          /\ \/ run[r].resume = "none" /\ Ends(r)
             \/ run[r].resume # "none" /\ Returns(r, "preview")
       \/ run[r].pc = "preview" /\ Returns(r, "publish") /\ UNCHANGED rows

LEMMA SlotSteps ==
    ASSUME PublicationInv, NEW r \in Runs, SlotPasses(r) \/ SlotHolds(r) \/ Preview(r)
    PROVE  SlotEffect(r)
  <1>0. /\ TypeOK /\ run[r].st.post \in Posts /\ ~run[r].unsaved
    BY DEF PublicationInv, RunsSound, Sound, SlotPasses, SlotHolds, Preview, At
  <1>1. Steady /\ UNCHANGED <<approval, owner, live, faults>>
    BY DEF SlotPasses, SlotHolds, Preview, Steady, dbVars, feedVars, threadVars,
           jobVars, deleteVars, envVars
  <1>2. CASE SlotPasses(r) \/ Preview(r)
    BY <1>0, <1>1, <1>2, AdvanceReturns DEF SlotPasses, Preview, At, dbVars, SlotEffect
  <1>3. CASE SlotHolds(r)
    <2>1. UNCHANGED rows \/ Gets(run[r].st.post, "scheduled")
      BY <1>0, <1>3, StatusGets DEF SlotHolds
    <2>2. \/ run[r].resume = "none" /\ Ends(r)
          \/ run[r].resume # "none" /\ Returns(r, "preview")
      BY <1>0, <1>3, DiesEnds, AdvanceReturns DEF SlotHolds
    <2> QED BY <1>0, <1>1, <1>3, <2>1, <2>2 DEF SlotHolds, At, SlotEffect
  <1> QED BY <1>2, <1>3

\* publish_node and LinkedIn.
PublishEffect(r) ==
    LET p == run[r].st.post IN
    /\ p \in Posts /\ ~run[r].unsaved
    /\ Steady /\ UNCHANGED approval
    /\ \/ /\ run[r].pc = "publish" /\ ~run[r].st.dry /\ rows[p].lid # 0
          /\ Returns(r, "finalize") /\ run'[r].st.lid = rows[p].lid
          /\ UNCHANGED <<rows, owner, live, faults>>
       \/ /\ run[r].pc = "publish" /\ ~run[r].st.dry
          /\ rows[p].lid = 0 /\ rows[p].status = "publishing"
          /\ Returns(r, "finalize") /\ run'[r].st.err /\ Gets(p, "failed")
          /\ UNCHANGED <<owner, live, faults>>
       \/ /\ run[r].pc = "publish" /\ run[r].st.dry
          /\ Goes(r, "call") /\ UNCHANGED <<rows, owner, live, faults>>
       \/ /\ run[r].pc = "publish" /\ ~run[r].st.dry
          /\ rows[p].lid = 0 /\ rows[p].status # "publishing"
          /\ Goes(r, "mark") /\ UNCHANGED <<rows, owner, live, faults>>
       \/ /\ run[r].pc = "mark" /\ Goes(r, "call") /\ Gets(p, "publishing")
          /\ UNCHANGED <<owner, live, faults>>
       \/ /\ run[r].pc = "call" /\ run[r].st.dry
          /\ Goes(r, "record") /\ run'[r].st.lid = 0 /\ UNCHANGED <<rows, owner, live, faults>>
       \/ /\ run[r].pc = "call" /\ ~run[r].st.dry /\ Goes(r, "record")
          /\ \E i \in ShareIds : live' = live \cup {i} /\ run'[r].st.lid = i
          /\ UNCHANGED <<rows, faults>>
       \/ /\ run[r].pc = "call" /\ ~run[r].st.dry
          /\ Returns(r, "finalize") /\ run'[r].st.err /\ Gets(p, "failed")
          /\ \E i \in ShareIds : live' = live \cup {i}
          /\ faults < MaxFaults /\ faults' = faults + 1
       \/ /\ run[r].pc = "call"
          /\ Returns(r, "finalize") /\ run'[r].st.err /\ Gets(p, "failed")
          /\ UNCHANGED <<owner, live, faults>>

LEMMA PublishGuards ==
    ASSUME PublicationInv, NEW r \in Runs,
           PublishAlreadyDone(r) \/ PublishFailsClosed(r) \/ PublishProceeds(r)
    PROVE  PublishEffect(r)
  <1> DEFINE p == run[r].st.post
  <1>0. /\ TypeOK /\ run[r].st \in State /\ p \in Posts /\ ~run[r].unsaved
        /\ run[r].pc = "publish"
    BY RunState DEF PublicationInv, RunsSound, Sound, PublishAlreadyDone,
                    PublishFailsClosed, PublishProceeds, At
  <1>1. Steady /\ UNCHANGED <<approval, owner, live, faults>>
    BY DEF PublishAlreadyDone, PublishFailsClosed, PublishProceeds,
           Steady, dbVars, feedVars, threadVars, jobVars, deleteVars, envVars
  <1>2. CASE PublishAlreadyDone(r)
    <2> DEFINE s == [run[r].st EXCEPT !.lid = rows[p].lid]
    <2>1. /\ s.post = p /\ s.dry = run[r].st.dry /\ s.skip = run[r].st.skip
          /\ s.lid = rows[p].lid
      BY <1>0 DEF State
    <2>2. Advance(r, "finalize", s) /\ ~run[r].st.dry /\ rows[p].lid # 0 /\ UNCHANGED rows
      BY <1>2 DEF PublishAlreadyDone, dbVars
    <2> HIDE DEF s
    <2>3. Returns(r, "finalize") /\ run'[r].st = s
      BY <1>0, <2>1, <2>2, AdvanceReturns
    <2> QED BY <1>0, <1>1, <2>1, <2>2, <2>3 DEF PublishEffect
  <1>3. CASE PublishFailsClosed(r)
    <2>1. ~run[r].st.dry /\ rows[p].lid = 0 /\ rows[p].status = "publishing" /\ GiveUp(r, p)
      BY <1>3 DEF PublishFailsClosed
    <2> QED BY <1>0, <1>1, <2>1, GiveUpReturns DEF PublishEffect
  <1>4. CASE PublishProceeds(r)
    <2>1. UNCHANGED rows
      BY <1>4 DEF PublishProceeds, dbVars
    <2>2. CASE run[r].st.dry
      <3>1. Goto(r, "call")
        BY <1>4, <2>2 DEF PublishProceeds
      <3> QED BY <1>0, <1>1, <2>1, <2>2, <3>1, GotoGoes DEF PublishEffect
    <2>3. CASE ~run[r].st.dry
      <3>1. Goto(r, "mark") /\ rows[p].lid = 0 /\ rows[p].status # "publishing"
        BY <1>4, <2>3 DEF PublishProceeds
      <3> QED BY <1>0, <1>1, <2>1, <2>3, <3>1, GotoGoes DEF PublishEffect
    <2> QED BY <2>2, <2>3
  <1> QED BY <1>2, <1>3, <1>4

LEMMA PublishCalls ==
    ASSUME PublicationInv, NEW r \in Runs,
           \/ PublishMarks(r) \/ PublishDry(r) \/ LinkedInAccepts(r)
           \/ LinkedInReplyLost(r) \/ LinkedInRefuses(r)
    PROVE  PublishEffect(r)
  <1> DEFINE p == run[r].st.post
  <1>0. /\ TypeOK /\ run[r] \in RunRec /\ run[r].st \in State /\ p \in Posts
        /\ ~run[r].unsaved /\ run[r].pc \in {"mark", "call"}
    BY RunState DEF PublicationInv, RunsSound, Sound, PublishMarks, PublishDry,
                    LinkedInAccepts, LinkedInReplyLost, LinkedInRefuses, At
  <1>1. Steady /\ UNCHANGED approval
    BY DEF PublishMarks, PublishDry, LinkedInAccepts, LinkedInReplyLost, LinkedInRefuses,
           Steady, dbVars, feedVars, threadVars, jobVars, deleteVars, envVars
  <1>2. CASE PublishMarks(r)
    <2>1. /\ run[r].pc = "mark" /\ Goto(r, "call") /\ SetStatus(p, "publishing")
          /\ UNCHANGED <<owner, live, faults>>
      BY <1>2 DEF PublishMarks, At, feedVars, envVars
    <2> QED BY <1>0, <1>1, <2>1, GotoGoes, StatusGets DEF PublishEffect
  <1>3. CASE PublishDry(r)
    <2> DEFINE new == [run[r] EXCEPT !.pc = "record", !.st.lid = 0]
    <2>1. /\ run' = [run EXCEPT ![r] = new] /\ run[r].pc = "call" /\ run[r].st.dry
          /\ UNCHANGED <<rows, owner, live, faults>>
      BY <1>0, <1>3 DEF PublishDry, At, dbVars, feedVars, envVars, TypeOK
    <2>2. /\ new.pc = "record" /\ new.thread = run[r].thread /\ new.origin = run[r].origin
          /\ new.resume = run[r].resume /\ new.st.post = p /\ new.st.dry = run[r].st.dry
          /\ new.st.skip = run[r].st.skip /\ new.st.lid = 0 /\ ~new.unsaved
      BY <1>0 DEF RunRec, State
    <2> HIDE DEF new
    <2>3. Goes(r, "record") /\ run'[r].st.lid = 0
      BY <1>0, <2>1, <2>2 DEF Goes, Moves, Kept, TypeOK
    <2> QED BY <1>0, <1>1, <2>1, <2>3 DEF PublishEffect
  <1>4. CASE LinkedInAccepts(r)
    <2>1. PICK i \in ShareIds :
            /\ live' = live \cup {i}
            /\ run' = [run EXCEPT ![r] = [run[r] EXCEPT !.pc = "record", !.st.lid = i]]
      BY <1>0, <1>4 DEF LinkedInAccepts, TypeOK
    <2> DEFINE new == [run[r] EXCEPT !.pc = "record", !.st.lid = i]
    <2>2. run[r].pc = "call" /\ ~run[r].st.dry /\ UNCHANGED <<rows, faults>>
      BY <1>4 DEF LinkedInAccepts, At, dbVars, envVars
    <2>3. /\ new.pc = "record" /\ new.thread = run[r].thread /\ new.origin = run[r].origin
          /\ new.resume = run[r].resume /\ new.st.post = p /\ new.st.dry = run[r].st.dry
          /\ new.st.skip = run[r].st.skip /\ new.st.lid = i /\ ~new.unsaved
      BY <1>0 DEF RunRec, State
    <2>4. run' = [run EXCEPT ![r] = new]
      BY <2>1
    <2> HIDE DEF new
    <2>5. Goes(r, "record") /\ run'[r].st.lid = i
      BY <1>0, <2>3, <2>4 DEF Goes, Moves, Kept, TypeOK
    <2> QED BY <1>0, <1>1, <2>1, <2>2, <2>5 DEF PublishEffect
  <1>5. CASE LinkedInReplyLost(r)
    <2>1. /\ run[r].pc = "call" /\ ~run[r].st.dry /\ GiveUp(r, p)
          /\ \E i \in ShareIds : live' = live \cup {i}
          /\ faults < MaxFaults /\ faults' = faults + 1
      BY <1>5 DEF LinkedInReplyLost, At
    <2> QED BY <1>0, <1>1, <2>1, GiveUpReturns DEF PublishEffect
  <1>6. CASE LinkedInRefuses(r)
    <2>1. run[r].pc = "call" /\ GiveUp(r, p) /\ UNCHANGED <<owner, live, faults>>
      BY <1>6 DEF LinkedInRefuses, At, feedVars, envVars
    <2> QED BY <1>0, <1>1, <2>1, GiveUpReturns DEF PublishEffect
  <1> QED BY <1>2, <1>3, <1>4, <1>5, <1>6

\* The share id, then the final status, reach the row; finalize_node commits
\* what it decided when it read the row.
ClosingEffect(r) ==
    LET p == run[r].st.post IN
    /\ p \in Posts /\ ~run[r].unsaved
    /\ Steady /\ UNCHANGED <<approval, owner, live, faults>>
    /\ \A q \in Posts \ {p} : rows'[q] = rows[q]
    /\ rows'[p].slot = rows[p].slot /\ run'[r].st = run[r].st
    /\ \/ /\ run[r].pc = "record" /\ Returns(r, "finalize")
          /\ rows'[p].status = rows[p].status
          /\ rows'[p].lid = IF run[r].st.lid = 0 THEN rows[p].lid ELSE run[r].st.lid
       \/ /\ run[r].pc = "finalize" /\ Goes(r, "commit") /\ UNCHANGED rows
          /\ "lid" \in run'[r].upd.cols => ~run[r].st.dry
       \/ /\ run[r].pc = "commit" /\ Returns(r, "end")
          /\ rows'[p].status \in {rows[p].status, "failed", "approved", "published"}
          /\ "lid" \notin run[r].upd.cols => rows'[p].lid = rows[p].lid

LEMMA ClosingSteps ==
    ASSUME PublicationInv, NEW r \in Runs,
           PublishRecords(r) \/ FinalizeReads(r) \/ FinalizeCommits(r)
    PROVE  ClosingEffect(r)
  <1> DEFINE p == run[r].st.post
             s == run[r].st
             u == run[r].upd
  <1>0. /\ TypeOK /\ s \in State /\ u \in Patch /\ p \in Posts /\ ~run[r].unsaved
        /\ rows[p] \in Row
    BY RunState, RowType DEF PublicationInv, RunsSound, Sound, PublishRecords, FinalizeReads,
                             FinalizeCommits, At
  <1>1. Steady /\ UNCHANGED <<approval, owner, live, faults>>
    BY DEF PublishRecords, FinalizeReads, FinalizeCommits, Steady, dbVars, feedVars, threadVars,
           jobVars, deleteVars, envVars
  <1>2. CASE PublishRecords(r)
    <2>1. /\ run[r].pc = "record" /\ Advance(r, "finalize", run[r].st)
          /\ IF run[r].st.lid = 0 THEN UNCHANGED rows
             ELSE rows' = [rows EXCEPT ![p] = [rows[p] EXCEPT !.lid = run[r].st.lid]]
      BY <1>0, <1>2 DEF PublishRecords, At, TypeOK
    <2>2. /\ \A q \in Posts \ {p} : rows'[q] = rows[q]
          /\ rows'[p].slot = rows[p].slot /\ rows'[p].status = rows[p].status
          /\ rows'[p].lid = IF run[r].st.lid = 0 THEN rows[p].lid ELSE run[r].st.lid
      BY <1>0, <2>1 DEF TypeOK, Row
    <2>3. Returns(r, "finalize") /\ run'[r].st = run[r].st
      BY <1>0, <2>1, AdvanceReturns
    <2> QED BY <1>0, <1>1, <2>1, <2>2, <2>3 DEF ClosingEffect
  <1>3. CASE FinalizeReads(r)
    <2> DEFINE new == FinalRow(rows[p], s)
    <2>1. run[r].pc = "finalize" /\ Reads(r, new, "commit") /\ UNCHANGED rows
      BY <1>3 DEF FinalizeReads, At, dbVars
    <2>2. s.dry => new.lid = rows[p].lid
      BY <1>0 DEF FinalRow, Row
    <2> HIDE DEF new
    <2>3. /\ Goes(r, "commit") /\ run'[r].st = run[r].st
          /\ run'[r].upd = PatchOf(rows[p], new)
      BY <1>0, <2>1, ReadsGoes
    <2>4. "lid" \in run'[r].upd.cols => ~s.dry
      BY <2>2, <2>3 DEF PatchOf
    <2> QED BY <1>0, <1>1, <2>1, <2>3, <2>4 DEF ClosingEffect
  <1>4. CASE FinalizeCommits(r)
    <2>1. /\ run[r].pc = "commit" /\ Apply(p, u) /\ Advance(r, "end", s)
          /\ CommitSound(p, u)
      BY <1>4 DEF FinalizeCommits, At, PublicationInv, PatchesSound, PatchSound
    <2>2. /\ \A q \in Posts \ {p} : rows'[q] = rows[q]
          /\ rows'[p].slot = rows[p].slot
          /\ rows'[p].status \in {rows[p].status, "failed", "approved", "published"}
          /\ "lid" \notin u.cols => rows'[p].lid = rows[p].lid
      BY <1>0, <2>1, ApplyEffect DEF CommitSound
    <2>3. Returns(r, "end") /\ run'[r].st = run[r].st
      BY <1>0, <2>1, AdvanceReturns
    <2> QED BY <1>0, <1>1, <2>1, <2>2, <2>3 DEF ClosingEffect
  <1> QED BY <1>2, <1>3, <1>4

-----------------------------------------------------------------------------
(* What the handlers and the jobs do, field by field *)

\* The decisions committed or answered, and not yet delivered to the graph.
Waiting == actioned \cup ({clicks[c] : c \in Clicks} \ {NoClick})

\* The first start of the upload, or /pipeline/trigger.
StartEffect(r) ==
    /\ Idle(r) /\ Kept(r)
    /\ ckpt.next = "unused" \/ "trigger" \in Ops
    /\ run'[r].pc = "extract" /\ run'[r].thread = "upload" /\ ~run'[r].unsaved
    /\ run'[r].origin = "start" /\ run'[r].resume = "none"
    /\ run'[r].st.post = ckpt.st.post /\ run'[r].st.skip = ckpt.st.skip
    /\ ckpt'.next = "extract" /\ ckpt'.st = run'[r].st
    /\ UNCHANGED <<rows, approval, owner, live, due, actioned, clicks, deleting, erase,
                   requireApproval, now, faults, said>>

LEMMA StartSteps ==
    ASSUME TypeOK, NEW r \in Runs, NEW dry \in BOOLEAN, StartUpload(r, dry)
    PROVE  StartEffect(r)
  <1> DEFINE s == [ckpt.st EXCEPT !.dry = dry]
             new == [pc |-> "extract", thread |-> "upload", unsaved |-> FALSE,
                     origin |-> "start", resume |-> "none", st |-> s, upd |-> NoPatch]
  <1>1. s.post = ckpt.st.post /\ s.skip = ckpt.st.skip
    BY DEF TypeOK, Checkpoint, State
  <1>2. /\ Idle(r) /\ run' = [run EXCEPT ![r] = new]
        /\ ckpt' = [next |-> "extract", st |-> s]
        /\ ckpt.next = "unused" \/ "trigger" \in Ops
        /\ UNCHANGED <<rows, approval, owner, live, due, actioned, clicks, deleting, erase,
                       requireApproval, now, faults, said>>
    BY DEF StartUpload, Start, dbVars, feedVars, jobVars, deleteVars, envVars
  <1>3. Kept(r) /\ run'[r] = new
    BY <1>2 DEF TypeOK, Kept
  <1> HIDE DEF s
  <1> QED BY <1>1, <1>2, <1>3 DEF StartEffect

\* A retry, or "publish now", on a thread of its own.
FreshEffect(r) ==
    /\ Idle(r) /\ Kept(r) /\ Ops \cap {"retry", "publish_now"} # {}
    /\ run'[r].pc = "extract" /\ run'[r].thread = "fresh" /\ ~run'[r].unsaved
    /\ run'[r].origin = "retry" /\ run'[r].resume = "none"
    /\ run'[r].st.post \in Posts /\ Gets(run'[r].st.post, "processing")
    /\ UNCHANGED <<ckpt, approval, owner, live, due, actioned, clicks, deleting, erase,
                   requireApproval, now, faults, said>>

LEMMA FreshSteps ==
    ASSUME TypeOK, NEW r \in Runs, NEW p \in Posts,
           (\E dry \in BOOLEAN : RetryPost(r, p, dry)) \/ PublishPost(r, p)
    PROVE  FreshEffect(r)
  <1>1. PICK s \in State :
          /\ s.post = p
          /\ Start(r, "fresh", "retry", s)
          /\ SetStatus(p, "processing") /\ Ops \cap {"retry", "publish_now"} # {}
          /\ UNCHANGED <<ckpt, approval, owner, live, due, actioned, clicks, deleting, erase,
                         requireApproval, now, faults, said>>
    <2>1. CASE PublishPost(r, p)
      <3> DEFINE s == [NoState EXCEPT !.post = p, !.dry = FALSE, !.skip = TRUE]
      <3>1. s \in State /\ s.post = p
        BY DEF State, NoState
      <3>2. Start(r, "fresh", "retry", s)
        BY <2>1 DEF PublishPost
      <3> HIDE DEF s
      <3> QED BY <2>1, <3>1, <3>2 DEF PublishPost, feedVars, jobVars, deleteVars, envVars
    <2>2. CASE \E dry \in BOOLEAN : RetryPost(r, p, dry)
      <3>1. PICK dry \in BOOLEAN : RetryPost(r, p, dry)
        BY <2>2
      <3> DEFINE s == [NoState EXCEPT !.post = p, !.dry = dry]
      <3>2. s \in State /\ s.post = p
        BY DEF State, NoState
      <3>3. Start(r, "fresh", "retry", s)
        BY <3>1 DEF RetryPost
      <3> HIDE DEF s
      <3> QED BY <3>1, <3>2, <3>3 DEF RetryPost, feedVars, jobVars, deleteVars, envVars
    <2> QED BY <2>1, <2>2
  <1> DEFINE new == [pc |-> "extract", thread |-> "fresh", unsaved |-> FALSE,
                     origin |-> "retry", resume |-> "none", st |-> s, upd |-> NoPatch]
  <1>2. Idle(r) /\ run' = [run EXCEPT ![r] = new]
    BY <1>1 DEF Start
  <1>3. Kept(r) /\ run'[r] = new
    BY <1>2 DEF TypeOK, Kept
  <1>4. Gets(p, "processing")
    BY <1>1, StatusGets
  <1> QED BY <1>1, <1>2, <1>3, <1>4 DEF FreshEffect

\* A resume, or nothing when the thread has nothing to resume.
Wakes(r, origin, v) ==
    Resumes(r, origin, v) \/ (ckpt.next \notin Nodes /\ UNCHANGED run)

LEMMA WakeEffect ==
    ASSUME TypeOK, NEW r \in Runs, NEW origin, NEW v, Wake(r, origin, v)
    PROVE  Wakes(r, origin, v)
  <1>1. CASE CanResume
    <2>1. Resume(r, origin, v)
      BY <1>1 DEF Wake
    <2> QED BY <2>1, ResumeEffect DEF Wakes
  <1>2. CASE ~CanResume
    BY <1>2 DEF Wake, Wakes, CanResume
  <1> QED BY <1>1, <1>2

\* Decision d on post p is delivered, by a route's background task or by the
\* approvals job.
TellEffect(r, origin, p, d) ==
    /\ <<p, d>> \in Waiting /\ Waiting' \subseteq Waiting
    /\ Wakes(r, origin, d) /\ Say(p, d)
    /\ UNCHANGED <<rows, approval, owner, live, ckpt, due, deleting, erase,
                   requireApproval, now, faults>>
Tellers == {"decision", "approvals_job"}

LEMMA DeliverSteps ==
    ASSUME TypeOK, NEW r \in Runs, NEW c \in Clicks, DeliverClick(r, c)
    PROVE  \E p \in Posts, d \in Decisions : TellEffect(r, "decision", p, d)
  <1>1. PICK p \in Posts, d \in Answers : clicks[c] = <<p, d>>
    BY DEF TypeOK, DeliverClick
  <1>2. Wakes(r, "decision", d) /\ Say(p, d)
    BY <1>1, WakeEffect DEF DeliverClick
  <1>3. <<p, d>> \in Waiting
    BY <1>1 DEF Waiting, DeliverClick
  <1>4. Waiting' \subseteq Waiting
    BY DEF DeliverClick, TypeOK, Waiting
  <1>5. d \in Decisions
    BY DEF Answers, Decisions
  <1> QED BY <1>2, <1>3, <1>4, <1>5 DEF DeliverClick, TellEffect, dbVars, feedVars, threadVars,
            deleteVars, envVars

LEMMA ActionedSteps ==
    ASSUME TypeOK, NEW r \in Runs, ResumeActioned(r)
    PROVE  \E p \in Posts, d \in Decisions : TellEffect(r, "approvals_job", p, d)
  <1>1. PICK a \in actioned :
          /\ actioned' = actioned \ {a}
          /\ Wake(r, "approvals_job", a[2]) /\ Say(a[1], a[2])
    BY DEF ResumeActioned
  <1>2. PICK p \in Posts, d \in Decisions : a = <<p, d>>
    BY DEF TypeOK
  <1>3. Wakes(r, "approvals_job", d) /\ Say(p, d)
    BY <1>1, <1>2, WakeEffect
  <1>4. <<p, d>> \in Waiting /\ Waiting' \subseteq Waiting
    BY <1>1, <1>2 DEF ResumeActioned, Waiting
  <1> QED BY <1>3, <1>4 DEF ResumeActioned, TellEffect, dbVars, feedVars, threadVars,
            deleteVars, envVars

\* The scheduled-post job resumes the thread for post p, which it found due; at
\* most some posts are marked as woken by a stray value.
DueEffect(r, p) ==
    /\ p \in due /\ due' = due \ {p}
    /\ Wakes(r, "scheduled_job", "true")
    /\ \A q \in Posts : /\ said'[q] = said[q] \/ said'[q] = said[q] \cup {"stray"}
                        /\ Misled(p, q) => "stray" \in said'[q]
    /\ UNCHANGED <<rows, approval, owner, live, ckpt, actioned, clicks, deleting, erase,
                   requireApproval, now, faults>>

LEMMA DueSteps ==
    ASSUME TypeOK, NEW r \in Runs, ResumeDue(r)
    PROVE  \E p \in due : DueEffect(r, p)
  <1>1. PICK p \in due :
          /\ due' = due \ {p}
          /\ Wake(r, "scheduled_job", "true")
          /\ said' = [q \in Posts |-> IF Misled(p, q) THEN said[q] \cup {"stray"} ELSE said[q]]
    BY DEF ResumeDue
  <1>2. Wakes(r, "scheduled_job", "true")
    BY <1>1, WakeEffect
  <1>3. \A q \in Posts : /\ said'[q] = said[q] \/ said'[q] = said[q] \cup {"stray"}
                         /\ Misled(p, q) => "stray" \in said'[q]
    BY <1>1
  <1> QED BY <1>1, <1>2, <1>3 DEF ResumeDue, DueEffect, dbVars, feedVars, threadVars,
            deleteVars, envVars

\* poll_once: post p is left alone, or its pending approval expired, or the
\* Sheet decides about an approval it has.
Polled(p) ==
    /\ rows'[p].lid = rows[p].lid /\ rows'[p].slot = rows[p].slot
    /\ \/ approval'[p] = approval[p] /\ rows'[p] = rows[p]
       \/ /\ "expire" \in Ops /\ approval[p] = "pending" /\ approval'[p] = "timeout"
          /\ rows'[p].status = "failed"
       \/ /\ "sheet" \in Ops /\ approval[p] # "none" /\ approval'[p] \in Answers
          /\ rows'[p].status \in {"approved", "rejected"}

PollEffect ==
    /\ \A p \in Posts : Polled(p)
    /\ \E p \in Posts : approval[p] # "none"
    /\ \A a \in Waiting' : a \in Waiting \/ (a[1] \in Posts /\ approval[a[1]] # "none")
    /\ UNCHANGED <<owner, live, ckpt, run, due, deleting, erase, requireApproval, now, faults,
                   said>>

LEMMA PollSteps ==
    ASSUME TypeOK, PollApprovals
    PROVE  PollEffect
  <1>1. PICK dec \in [Posts -> {"none"} \cup Decisions] :
         /\ \E p \in Posts : dec[p] # "none"
         /\ \A p \in Posts :
              /\ dec[p] = "timeout" => "expire" \in Ops /\ approval[p] = "pending"
              /\ dec[p] \in {"approved", "rejected"} =>
                   "sheet" \in Ops /\ approval[p] # "none"
         /\ approval' = [p \in Posts |-> IF dec[p] = "none" THEN approval[p] ELSE dec[p]]
         /\ rows' = [p \in Posts |->
              CASE dec[p] = "none" -> rows[p]
                [] dec[p] = "approved" -> [rows[p] EXCEPT !.status = "approved"]
                [] dec[p] = "rejected" -> [rows[p] EXCEPT !.status = "rejected"]
                [] dec[p] = "timeout"  -> [rows[p] EXCEPT !.status = "failed"]]
         /\ actioned' = {<<p, dec[p]>> : p \in {q \in Posts : dec[q] # "none"}}
    BY DEF PollApprovals
  <1>2. \A p \in Posts : dec[p] # "none" => approval[p] # "none"
    BY <1>1 DEF Decisions
  <1>3. ASSUME NEW p \in Posts
        PROVE  Polled(p)
    <2>1. rows[p] \in Row /\ dec[p] \in {"none", "approved", "rejected", "timeout"}
      BY RowType DEF Decisions
    <2>2. CASE dec[p] = "none"
      <3>1. approval'[p] = approval[p] /\ rows'[p] = rows[p]
        BY <1>1, <2>2
      <3> QED BY <3>1 DEF Polled
    <2>3. CASE dec[p] = "timeout"
      <3>1. approval'[p] = "timeout" /\ rows'[p] = [rows[p] EXCEPT !.status = "failed"]
        BY <1>1, <2>3
      <3>2. rows'[p].status = "failed" /\ rows'[p].lid = rows[p].lid
            /\ rows'[p].slot = rows[p].slot
        BY <2>1, <3>1 DEF Row
      <3> QED BY <1>1, <2>3, <3>1, <3>2 DEF Polled
    <2>4. CASE dec[p] \in Answers
      <3>1. approval'[p] = dec[p] /\ rows'[p] = [rows[p] EXCEPT !.status = dec[p]]
        BY <1>1, <2>4 DEF Answers
      <3>2. rows'[p].status = dec[p] /\ rows'[p].lid = rows[p].lid
            /\ rows'[p].slot = rows[p].slot
        BY <2>1, <3>1 DEF Row
      <3> QED BY <1>1, <2>4, <3>1, <3>2 DEF Polled, Answers
    <2> QED BY <2>1, <2>2, <2>3, <2>4 DEF Answers
  <1>4. \A a \in actioned' : a[1] \in Posts /\ approval[a[1]] # "none"
    BY <1>1, <1>2
  <1>5. \A a \in Waiting' : a \in Waiting \/ a \in actioned'
    BY DEF PollApprovals, Waiting
  <1> QED BY <1>1, <1>2, <1>3, <1>4, <1>5 DEF PollApprovals, PollEffect, feedVars, threadVars,
            deleteVars, envVars

\* A decision route answers: the delivery is left to a background task.
AcceptEffect ==
    /\ \E p \in Posts, d \in Answers :
         approval[p] # "none" /\ Waiting' \subseteq Waiting \cup {<<p, d>>}
    /\ UNCHANGED <<rows, approval, owner, live, ckpt, run, due, deleting, erase,
                   requireApproval, now, faults, said>>

LEMMA AcceptSteps ==
    ASSUME TypeOK, NEW c \in Clicks, NEW p \in Posts, NEW d \in Answers,
           PostDecision(c, p, d) \/ DecideApproval(c, p, d)
    PROVE  AcceptEffect
  <1>1. Accept(c, p, d) /\ approval[p] # "none"
    BY DEF PostDecision, DecideApproval
  <1>2. Waiting' \subseteq Waiting \cup {<<p, d>>}
    BY <1>1 DEF Accept, TypeOK, Waiting
  <1> QED BY <1>1, <1>2 DEF Accept, AcceptEffect, dbVars, feedVars, threadVars, deleteVars,
            envVars

\* A delivery raises before it resumes anything.
LoseEffect ==
    /\ Waiting' \subseteq Waiting
    /\ faults < MaxFaults /\ faults' = faults + 1
    /\ UNCHANGED <<rows, approval, owner, live, ckpt, run, due, deleting, erase,
                   requireApproval, now, said>>

LEMMA LoseSteps ==
    ASSUME TypeOK, ResumeRaises
    PROVE  LoseEffect
  <1>1. Waiting' \subseteq Waiting
    BY DEF ResumeRaises, TypeOK, Waiting
  <1> QED BY <1>1 DEF ResumeRaises, LoseEffect, dbVars, feedVars, threadVars, deleteVars

\* The steps of the operator, the clock and the process that touch no run.
RescheduleEffect ==
    /\ "reschedule" \in Ops
    /\ \A q \in Posts : /\ rows'[q].status = rows[q].status /\ rows'[q].lid = rows[q].lid
                        /\ rows[q].status = "publishing" => rows'[q] = rows[q]
    /\ UNCHANGED <<approval, owner, live, ckpt, run, due, actioned, clicks, deleting, erase,
                   requireApproval, now, faults, said>>

DeleteShareEffect ==
    /\ \E p \in Posts : /\ deleting = 0 /\ rows[p].lid # 0
                        /\ live' = live \ {rows[p].lid} /\ deleting' = p
    /\ UNCHANGED <<rows, approval, owner, ckpt, run, due, actioned, clicks,
                   requireApproval, now, faults, said>>

DeleteReadsEffect ==
    /\ deleting' \in {0, deleting}
    /\ UNCHANGED <<rows, approval, owner, live, ckpt, run, due, actioned, clicks,
                   requireApproval, now, faults, said>>

DeleteCommitsEffect ==
    /\ deleting \in Posts /\ deleting' = 0
    /\ rows'[deleting].status \in {rows[deleting].status, "processing", "rejected"}
    /\ rows'[deleting].lid \in {rows[deleting].lid, 0}
    /\ rows'[deleting].slot = rows[deleting].slot
    /\ \A q \in Posts \ {deleting} : rows'[q] = rows[q]
    /\ UNCHANGED <<approval, owner, live, ckpt, run, due, actioned, clicks,
                   requireApproval, now, faults, said>>

PollDueEffect ==
    /\ due = {} /\ due' = DuePosts
    /\ UNCHANGED <<rows, approval, owner, live, ckpt, run, actioned, clicks, deleting, erase,
                   requireApproval, now, faults, said>>

CrashEffect ==
    /\ \A r \in Runs : run'[r] = IdleRun
    /\ due' = {} /\ Waiting' = {} /\ deleting' = 0
    /\ faults < MaxFaults /\ faults' = faults + 1
    /\ UNCHANGED <<rows, approval, owner, live, ckpt, requireApproval, now, said>>

\* Time and the setting.
WorldEffect ==
    /\ requireApproval' # requireApproval => "toggle" \in Ops
    /\ now' \in Nat /\ now' >= now
    /\ UNCHANGED <<rows, approval, owner, live, ckpt, run, due, actioned, clicks, deleting, erase,
                   faults, said>>

LEMMA OperatorSteps ==
    ASSUME PublicationInv
    PROVE  /\ \A p \in Posts, s \in Slots : Reschedule(p, s) => RescheduleEffect
           /\ \A p \in Posts : DeleteShare(p) => DeleteShareEffect
           /\ DeleteReads => DeleteReadsEffect
           /\ DeleteCommits => DeleteCommitsEffect
           /\ PollScheduled => PollDueEffect
           /\ Crash => CrashEffect
           /\ ToggleApproval \/ Tick \/ UNCHANGED vars => WorldEffect
  <1>0. TypeOK
    BY DEF PublicationInv
  <1>1. ASSUME NEW p \in Posts, NEW s \in Slots, Reschedule(p, s)
        PROVE  RescheduleEffect
    <2>1. /\ rows' = [rows EXCEPT ![p] = [rows[p] EXCEPT !.slot = s]]
          /\ rows[p].status # "publishing"
      BY <1>0, <1>1 DEF Reschedule, TypeOK
    <2>2. \A q \in Posts : /\ rows'[q].status = rows[q].status /\ rows'[q].lid = rows[q].lid
                           /\ rows[q].status = "publishing" => rows'[q] = rows[q]
      BY <1>0, <2>1 DEF TypeOK, Row
    <2> QED BY <1>1, <2>2 DEF Reschedule, RescheduleEffect, feedVars, threadVars,
                             jobVars, deleteVars, envVars
  <1>2. ASSUME NEW p \in Posts, DeleteShare(p)
        PROVE  DeleteShareEffect
    BY <1>2 DEF DeleteShare, DeleteShareEffect, dbVars, threadVars, envVars
  <1>3. DeleteReads => DeleteReadsEffect
    BY DEF DeleteReads, DeleteReadsEffect, dbVars, feedVars, threadVars, envVars
  <1>4. ASSUME DeleteCommits
        PROVE  DeleteCommitsEffect
    <2>1. /\ deleting \in Posts /\ erase \in Patch /\ ClearSound(deleting, erase)
          /\ erase.cols \subseteq {"status", "lid"} /\ Apply(deleting, erase)
      BY <1>0, <1>4 DEF DeleteCommits, PublicationInv, PatchesSound, EraseSound, TypeOK
    <2>2. /\ rows'[deleting].status \in {rows[deleting].status, "processing", "rejected"}
          /\ rows'[deleting].lid \in {rows[deleting].lid, 0}
          /\ rows'[deleting].slot = rows[deleting].slot
          /\ \A q \in Posts \ {deleting} : rows'[q] = rows[q]
      <3>1. PICK p \in Posts, u \in Patch : p = deleting /\ u = erase
        BY <2>1
      <3> QED BY <1>0, <2>1, <3>1, ApplyEffect DEF ClearSound
    <2> QED BY <1>4, <2>1, <2>2 DEF DeleteCommits, DeleteCommitsEffect, threadVars, envVars
  <1>5. PollScheduled => PollDueEffect
    BY DEF PollScheduled, PollDueEffect, dbVars, feedVars, threadVars, deleteVars, envVars
  <1>6. ASSUME Crash
        PROVE  CrashEffect
    <2>1. Waiting' = {}
      BY <1>6 DEF Crash, Waiting
    <2> QED BY <1>6, <2>1 DEF Crash, CrashEffect, dbVars, feedVars, threadVars
  <1>7. ToggleApproval \/ Tick \/ UNCHANGED vars => WorldEffect
    BY <1>0 DEF ToggleApproval, Tick, vars, WorldEffect, dbVars, feedVars, threadVars, jobVars,
                deleteVars, TypeOK
  <1> QED BY <1>1, <1>2, <1>3, <1>4, <1>5, <1>6, <1>7

\* Every step, as an effect.
RunEffect(r) ==
    \/ ExtractEffect(r) \/ OpeningEffect(r) \/ GateEffect(r) \/ SlotEffect(r)
    \/ PublishEffect(r) \/ ClosingEffect(r) \/ SaveEffect(r) \/ RaiseEffect(r)
HandlerEffect(r) ==
    \/ StartEffect(r) \/ FreshEffect(r)
    \/ \E origin \in Tellers, p \in Posts, d \in Decisions : TellEffect(r, origin, p, d)
    \/ \E p \in due : DueEffect(r, p)
OutsideEffect ==
    \/ PollEffect \/ AcceptEffect \/ LoseEffect \/ PollDueEffect \/ RescheduleEffect
    \/ DeleteShareEffect \/ DeleteReadsEffect \/ DeleteCommitsEffect
    \/ CrashEffect \/ WorldEffect

LEMMA StepEffects ==
    ASSUME PublicationInv, [Next]_vars
    PROVE  (\E r \in Runs : RunEffect(r) \/ HandlerEffect(r)) \/ OutsideEffect
  <1>0. TypeOK /\ RunsSound
    BY DEF PublicationInv
  <1>1. ASSUME NEW r \in Runs, NodeStep(r) \/ NodeRaises(r) \/ LinkedInReplyLost(r)
        PROVE  RunEffect(r)
    <2>1. CASE ExtractInserts(r) \/ ExtractResets(r) \/ SaveCheckpoint(r)
      BY <1>0, <2>1, InsertSteps, ResetSteps, SaveSteps DEF RunEffect
    <2>2. CASE \/ ExtractReads(r) \/ DedupPasses(r) \/ DedupRefuses(r)
               \/ Sanitize(r) \/ Transform(r) \/ Validate(r) \/ Schedule(r)
      BY <1>0, <2>2, ReadSteps, OpeningSteps, ScheduleSteps DEF RunEffect
    <2>3. CASE \/ ApproveEnqueue(r) \/ ApproveReuse(r) \/ NotifySlack(r)
               \/ ApproveInterrupts(r) \/ ApproveDecides(r)
      BY <2>3, GateSteps DEF RunEffect
    <2>4. CASE SlotPasses(r) \/ SlotHolds(r) \/ Preview(r)
      BY <2>4, SlotSteps DEF RunEffect
    <2>5. CASE \/ PublishAlreadyDone(r) \/ PublishFailsClosed(r) \/ PublishProceeds(r)
               \/ PublishMarks(r) \/ PublishDry(r) \/ LinkedInAccepts(r)
               \/ LinkedInReplyLost(r) \/ LinkedInRefuses(r)
      BY <2>5, PublishGuards, PublishCalls DEF RunEffect
    <2>6. CASE PublishRecords(r) \/ FinalizeReads(r) \/ FinalizeCommits(r)
      BY <2>6, ClosingSteps DEF RunEffect
    <2>7. CASE NodeRaises(r) \/ DedupConflicts(r) \/ ScheduleRaises(r)
      BY <1>0, <2>7, RaiseSteps DEF RunEffect
    <2> QED BY <1>1, <2>1, <2>2, <2>3, <2>4, <2>5, <2>6, <2>7 DEF NodeStep
  <1>2. ASSUME NEW r \in Runs, Handler(r) \/ ResumeActioned(r) \/ ResumeDue(r)
        PROVE  HandlerEffect(r)
    <2>1. CASE \E dry \in BOOLEAN : StartUpload(r, dry)
      BY <1>0, <2>1, StartSteps DEF HandlerEffect
    <2>2. CASE \E p \in Posts : (\E dry \in BOOLEAN : RetryPost(r, p, dry)) \/ PublishPost(r, p)
      BY <1>0, <2>2, FreshSteps DEF HandlerEffect
    <2>3. CASE (\E c \in Clicks : DeliverClick(r, c)) \/ ResumeActioned(r)
      BY <1>0, <2>3, DeliverSteps, ActionedSteps DEF HandlerEffect, Tellers
    <2>4. CASE ResumeDue(r)
      BY <1>0, <2>4, DueSteps DEF HandlerEffect
    <2> QED BY <1>2, <2>1, <2>2, <2>3, <2>4 DEF Handler
  <1>3. CASE \E c \in Clicks, p \in Posts, d \in Answers :
               PostDecision(c, p, d) \/ DecideApproval(c, p, d)
    BY <1>0, <1>3, AcceptSteps DEF OutsideEffect
  <1>4. CASE \/ PollApprovals \/ PollScheduled \/ ResumeRaises
             \/ \E p \in Posts, s \in Slots : Reschedule(p, s)
             \/ \E p \in Posts : DeleteShare(p)
             \/ DeleteReads \/ DeleteCommits \/ ToggleApproval \/ Crash \/ Tick
             \/ UNCHANGED vars
    BY <1>0, <1>4, PollSteps, LoseSteps, OperatorSteps DEF OutsideEffect
  <1> QED BY <1>1, <1>2, <1>3, <1>4 DEF Next

-----------------------------------------------------------------------------
(* One thread, started once: before the gate one run, after it one post *)

\* Nobody restarts the upload, retries a post or publishes one on the spot.
OneStart == Ops \cap {"trigger", "retry", "publish_now"} = {}

\* The saved checkpoint stands before the gate.
Early == ckpt.next \in Opening \cup {"unused"}
thePost == ckpt.st.post

\* A run before the gate, and one behind it.
Opens(x) ==
    /\ x.resume = "none"
    /\ \/ x.pc \in Opening
       \/ x.unsaved /\ x.pc \in {"approve", "wait_for_slot", "finalize"}
Follows(x, c) ==
    x.pc \notin Opening /\ x.st.post = c.st.post /\ x.st.dry = c.st.dry

\* Post p has met the gate: the jobs and the operator may take it up.
Met(p) == approval[p] # "none" \/ rows[p].status = "scheduled" \/ p \in due
Meets(p) == approval'[p] # "none" \/ rows'[p].status = "scheduled" \/ p \in due'

UploadOnly ==
    /\ ~ckpt.st.skip
    /\ \A r \in Runs : run[r].thread = "upload" /\ ~run[r].st.skip
EarlyShape ==
    /\ ckpt.next = "unused" => \A r \in Runs : Idle(r)
    /\ Early => /\ Waiting = {}
                /\ \A p \in Posts : ~Met(p)
                /\ \A q, r \in Runs : Idle(q) \/ Idle(r) \/ q = r
                /\ \A r \in Runs : Idle(r) \/ Opens(run[r])
LateShape ==
    /\ ~Early => thePost \in Posts /\ \A r \in Runs : Idle(r) \/ Follows(run[r], ckpt)
    /\ \A p \in Posts : Met(p) => p = thePost
    /\ \A a \in Waiting : a[1] = thePost
StageInv == UploadOnly /\ EarlyShape /\ LateShape

\* Run r moves within its stage, on the same saved checkpoint.
LEMMA StageMoves ==
    ASSUME PublicationInv, StageInv, NEW r \in Runs, ~Idle(r), Kept(r),
           UNCHANGED <<ckpt, due, actioned, clicks>>,
           run'[r].thread = run[r].thread /\ ~run'[r].st.skip,
           Early => run'[r].pc = "idle" \/ Opens(run'[r]),
           ~Early => run'[r].pc = "idle" \/ Follows(run'[r], ckpt),
           \A p \in Posts : Meets(p) => Met(p) \/ (~Early /\ p = thePost)
    PROVE  StageInv'
  <1>0. Waiting' = Waiting
    BY DEF Waiting
  <1>1. UploadOnly'
    BY DEF StageInv, UploadOnly, Kept
  <1>2. EarlyShape'
    BY <1>0 DEF StageInv, EarlyShape, Early, Kept, Idle, Opens, Met, Meets
  <1>3. LateShape'
    BY <1>0 DEF StageInv, LateShape, Early, thePost, Kept, Idle, Follows, Met, Meets
  <1> QED BY <1>1, <1>2, <1>3 DEF StageInv

\* Run r, for the same post, goes to another point of its stage.
LEMMA StageGoes ==
    ASSUME PublicationInv, StageInv, NEW r \in Runs, NEW n, ~Idle(r),
           Moves(r, n) \/ Ends(r),
           UNCHANGED <<ckpt, due, actioned, clicks>>,
           Early => \/ n \in Opening
                    \/ (n \in {"approve", "wait_for_slot", "finalize"} /\ run'[r].unsaved),
           ~Early => n \notin Opening,
           \A p \in Posts : Meets(p) => Met(p) \/ (~Early /\ p = run[r].st.post)
    PROVE  StageInv'
  <1>1. CASE Ends(r)
    <2>1. run'[r].thread = run[r].thread /\ ~run'[r].st.skip /\ run'[r].pc = "idle"
      BY <1>1 DEF Ends, IdleRun, NoState, Idle, StageInv, UploadOnly
    <2>2. ~Early => run[r].st.post = thePost
      BY DEF StageInv, LateShape, Follows, thePost
    <2> QED BY <1>1, <2>1, <2>2, StageMoves DEF Ends
  <1>2. CASE Moves(r, n)
    <2>1. run'[r].thread = run[r].thread /\ ~run'[r].st.skip /\ Kept(r)
      BY <1>2 DEF Moves, StageInv, UploadOnly
    <2>2. Early => Opens(run'[r])
      BY <1>2 DEF Moves, StageInv, EarlyShape, Opens
    <2>3. ~Early => Follows(run'[r], ckpt) /\ run[r].st.post = thePost
      BY <1>2 DEF Moves, StageInv, LateShape, Follows, thePost
    <2> QED BY <2>1, <2>2, <2>3, StageMoves
  <1> QED BY <1>1, <1>2

\* Past the opening a run is behind the gate, and its post is the upload's.
LEMMA Behind ==
    ASSUME StageInv, NEW r \in Runs, ~Idle(r), ~run[r].unsaved, run[r].pc \notin Opening
    PROVE  ~Early /\ Follows(run[r], ckpt)
  BY DEF StageInv, EarlyShape, LateShape, Opens

LEMMA StageRunSteps ==
    ASSUME PublicationInv, StageInv, NEW r \in Runs, RunEffect(r)
    PROVE  StageInv'
  <1> DEFINE p == run[r].st.post
  <1>0. TypeOK /\ run[r].st \in State
    BY RunState DEF PublicationInv
  <1>1. CASE ExtractEffect(r)
    <2>1. ~Idle(r) /\ Early
      BY <1>1 DEF ExtractEffect, Idle, StageInv, LateShape, Follows, Opening, Screened
    <2>2. Opens(run'[r])
      BY <1>1, <2>1 DEF ExtractEffect, StageInv, EarlyShape, Opens, Opening, Screened
    <2>3. \A q \in Posts : Meets(q) => Met(q)
      BY <1>1 DEF ExtractEffect, Met, Meets
    <2> QED BY <1>1, <2>1, <2>2, <2>3, StageMoves DEF ExtractEffect, StageInv, UploadOnly
  <1>2. CASE OpeningEffect(r)
    <2>1. ~Idle(r) /\ Early
      BY <1>2 DEF OpeningEffect, Idle, StageInv, LateShape, Follows, Opening, Screened
    <2>2. \E n \in Opening \cup {"finalize", "approve", "wait_for_slot"} :
            Moves(r, n) /\ (n \notin Opening => run'[r].unsaved)
      BY <1>2 DEF OpeningEffect, Returns, Goes, Opening, Screened
    <2>3. \A q \in Posts : Meets(q) => Met(q)
      BY <1>2 DEF OpeningEffect, Steady, Met, Meets
    <2> QED BY <1>2, <2>1, <2>2, <2>3, StageGoes DEF OpeningEffect, Steady
  <1>3. CASE GateEffect(r)
    <2>1. ~Idle(r) /\ ~Early
      BY <1>3, Behind DEF GateEffect, Idle, Opening, Screened
    <2>2. PICK n : (Moves(r, n) \/ Ends(r)) /\ n \notin Opening
      BY <1>3 DEF GateEffect, Returns, Goes, Opening, Screened
    <2>3. \A q \in Posts : Meets(q) => Met(q) \/ q = p
      BY <1>0, <1>3 DEF GateEffect, Steady, Met, Meets, Gets, dbVars, TypeOK
    <2> QED BY <1>3, <2>1, <2>2, <2>3, StageGoes DEF GateEffect, Steady
  <1>4. CASE SlotEffect(r)
    <2>1. ~Idle(r) /\ ~Early
      BY <1>4, Behind DEF SlotEffect, Idle, Opening, Screened
    <2>2. PICK n : (Moves(r, n) \/ Ends(r)) /\ n \notin Opening
      BY <1>4 DEF SlotEffect, Returns, Goes, Opening, Screened
    <2>3. \A q \in Posts : Meets(q) => Met(q) \/ q = p
      BY <1>4 DEF SlotEffect, Steady, Met, Meets, Gets
    <2> QED BY <1>4, <2>1, <2>2, <2>3, StageGoes DEF SlotEffect, Steady
  <1>5. CASE PublishEffect(r)
    <2>1. ~Idle(r) /\ ~Early
      BY <1>5, Behind DEF PublishEffect, Idle, Opening, Screened
    <2>2. PICK n : (Moves(r, n) \/ Ends(r)) /\ n \notin Opening
      BY <1>5 DEF PublishEffect, Returns, Goes, Opening, Screened
    <2>3. \A q \in Posts : Meets(q) => Met(q) \/ q = p
      BY <1>5 DEF PublishEffect, Steady, Met, Meets, Gets
    <2> QED BY <1>5, <2>1, <2>2, <2>3, StageGoes DEF PublishEffect, Steady
  <1>6. CASE ClosingEffect(r)
    <2>1. ~Idle(r) /\ ~Early
      BY <1>6, Behind DEF ClosingEffect, Idle, Opening, Screened
    <2>2. PICK n : (Moves(r, n) \/ Ends(r)) /\ n \notin Opening
      BY <1>6 DEF ClosingEffect, Returns, Goes, Opening, Screened
    <2>3. \A q \in Posts : Meets(q) => Met(q) \/ q = p
      BY <1>6 DEF ClosingEffect, Steady, Met, Meets
    <2> QED BY <1>6, <2>1, <2>2, <2>3, StageGoes DEF ClosingEffect, Steady
  <1>7. CASE SaveEffect(r)
    <2>1. /\ ckpt'.next = run[r].pc /\ ckpt'.st = run[r].st /\ ~Idle(r)
          /\ UNCHANGED <<rows, approval, due, actioned, clicks>> /\ Kept(r)
          /\ Waiting' = Waiting
          /\ ckpt'.next # "unused"
      BY <1>7 DEF SaveEffect, StageInv, UploadOnly, Ends, Idle, Nodes, Waiting
    <2>2. \/ run'[r] = IdleRun
          \/ /\ run'[r].pc = run[r].pc /\ run'[r].st = run[r].st
             /\ run'[r].resume = "none" /\ run'[r].thread = "upload"
      BY <1>7 DEF SaveEffect, StageInv, UploadOnly, Ends
    <2>3. UploadOnly'
      BY <2>1, <2>2 DEF StageInv, UploadOnly, Kept, IdleRun, NoState
    <2>4. CASE Early'
      <3>1. Early
        BY <1>7, <2>1, <2>4 DEF Early, Idle, StageInv, LateShape, Follows, SaveEffect, Nodes, Opening, Screened
      <3>2. EarlyShape'
        BY <2>1, <2>2, <2>4, <3>1 DEF StageInv, EarlyShape, Early, Kept, Idle, Opens, Met, Meets, IdleRun
      <3>3. LateShape'
        BY <2>1, <2>4, <3>1 DEF StageInv, EarlyShape, LateShape, Met, Meets
      <3> QED BY <2>3, <3>2, <3>3 DEF StageInv
    <2>5. CASE ~Early'
      <3>1. thePost' = p /\ p \in Posts /\ (~Early => p = thePost)
        BY <1>7, <2>1, <2>5 DEF thePost, PublicationInv, RunsSound, Sound, SaveEffect, Nodes,
              Early, Opening, Screened, StageInv, LateShape, Follows
      <3>2. EarlyShape'
        BY <2>1, <2>5 DEF EarlyShape
      <3>3. \A q \in Runs \ {r} : Idle(q) \/ (Follows(run[q], ckpt) /\ ~Early)
        BY <2>1 DEF StageInv, EarlyShape, LateShape
      <3>4. \A q \in Runs : run'[q].pc = "idle" \/ Follows(run'[q], ckpt')
        BY <2>1, <2>2, <2>5, <3>1, <3>3 DEF Kept, Idle, Follows, thePost, Early, IdleRun,
            StageInv, LateShape
      <3>5. (\A q \in Posts : Meets(q) => q = thePost') /\ (\A a \in Waiting' : a[1] = thePost')
        BY <2>1, <3>1 DEF StageInv, EarlyShape, LateShape, Met, Meets, thePost
      <3> QED BY <2>3, <2>5, <3>1, <3>2, <3>4, <3>5 DEF StageInv, LateShape, Met, Meets, Idle, Follows
    <2> QED BY <2>4, <2>5
  <1>8. CASE RaiseEffect(r)
    <2>1. \A q \in Posts : Meets(q) => Met(q)
      BY <1>8 DEF RaiseEffect, Steady, Fails, Met, Meets
    <2>2. ~Idle(r) /\ Ends(r) /\ UNCHANGED <<ckpt, due, actioned, clicks>>
      BY <1>8 DEF RaiseEffect, Steady
    <2>3. run'[r].pc = "idle" /\ Kept(r) /\ run'[r].thread = run[r].thread /\ ~run'[r].st.skip
      BY <2>2 DEF Ends, IdleRun, NoState, Idle, StageInv, UploadOnly
    <2> QED BY <2>1, <2>2, <2>3, StageMoves
  <1> QED BY <1>1, <1>2, <1>3, <1>4, <1>5, <1>6, <1>7, <1>8 DEF RunEffect

LEMMA StageHandlerSteps ==
    ASSUME OneStart, PublicationInv, StageInv, NEW r \in Runs, HandlerEffect(r)
    PROVE  StageInv'
  <1>1. CASE StartEffect(r)
    <2>1. ckpt.next = "unused" /\ (\A q \in Runs : Idle(q)) /\ Early /\ Waiting' = Waiting
      BY <1>1 DEF StartEffect, OneStart, StageInv, EarlyShape, Early, Waiting
    <2>2. UploadOnly'
      BY <1>1 DEF StartEffect, StageInv, UploadOnly, Kept
    <2>3. EarlyShape'
      BY <1>1, <2>1 DEF StartEffect, StageInv, EarlyShape, Early, Kept, Idle, Opens, Opening, Screened,
            Met, Meets
    <2>4. LateShape'
      BY <1>1, <2>1 DEF StartEffect, StageInv, EarlyShape, LateShape, Early, Opening, Screened, Met,
            Meets
    <2> QED BY <2>2, <2>3, <2>4 DEF StageInv
  <1>2. CASE FreshEffect(r)
    BY <1>2 DEF FreshEffect, OneStart
  <1>3. ASSUME NEW origin, NEW v, Wakes(r, origin, v), ~Early,
               UNCHANGED <<rows, approval, ckpt>>, due' \subseteq due,
               Waiting' \subseteq Waiting
        PROVE  StageInv'
    <2>1. UploadOnly'
      BY <1>3 DEF StageInv, UploadOnly, Wakes, Resumes, Kept
    <2>2. EarlyShape'
      BY <1>3 DEF EarlyShape, Early
    <2>3. LateShape'
      BY <1>3 DEF StageInv, LateShape, Wakes, Resumes, Kept, Idle, Follows, Early, thePost,
            Met, Meets
    <2> QED BY <2>1, <2>2, <2>3 DEF StageInv
  <1>4. ASSUME NEW origin, NEW p, NEW d, TellEffect(r, origin, p, d)
        PROVE  StageInv'
    <2>1. ~Early
      BY <1>4 DEF TellEffect, StageInv, EarlyShape
    <2> QED BY <1>3, <1>4, <2>1 DEF TellEffect
  <1>5. ASSUME NEW p \in due, DueEffect(r, p)
        PROVE  StageInv'
    <2>1. ~Early
      BY <1>5 DEF StageInv, EarlyShape, Met, PublicationInv, TypeOK
    <2>2. Waiting' = Waiting
      BY <1>5 DEF DueEffect, Waiting
    <2> QED BY <1>3, <1>5, <2>1, <2>2 DEF DueEffect
  <1> QED BY <1>1, <1>2, <1>4, <1>5 DEF HandlerEffect

LEMMA StageOutsideSteps ==
    ASSUME PublicationInv, StageInv, OutsideEffect
    PROVE  StageInv'
  <1>1. CASE CrashEffect
    <2>1. \A r \in Runs : run'[r] = IdleRun /\ run'[r].pc = "idle" /\ ~run'[r].st.skip
                          /\ run'[r].thread = "upload"
      <3>1. IdleRun.pc = "idle" /\ ~IdleRun.st.skip /\ IdleRun.thread = "upload"
        BY DEF IdleRun, NoState
      <3> QED BY <1>1, <3>1 DEF CrashEffect
    <2>2. \A p \in Posts : Meets(p) => Met(p)
      BY <1>1 DEF CrashEffect, Met, Meets
    <2> QED BY <1>1, <2>1, <2>2 DEF CrashEffect, StageInv, UploadOnly, EarlyShape, LateShape,
              Met, Meets, Idle, Opens, Early, thePost
  <1>2. ASSUME UNCHANGED <<ckpt, run>>, \A p \in Posts : Meets(p) => Met(p),
               \A a \in Waiting' : a \in Waiting \/ (a[1] \in Posts /\ Met(a[1]))
        PROVE  StageInv'
    <2>1. UploadOnly'
      BY <1>2 DEF StageInv, UploadOnly
    <2>2. EarlyShape'
      BY <1>2 DEF StageInv, EarlyShape, Early, Idle, Opens, Met, Meets
    <2>3. LateShape'
      BY <1>2 DEF StageInv, LateShape, Early, Idle, Follows, thePost, Met, Meets
    <2> QED BY <2>1, <2>2, <2>3 DEF StageInv
  <1>3. CASE PollEffect
    <2>1. \A p \in Posts : Meets(p) => Met(p)
      BY <1>3 DEF PollEffect, Polled, Met, Meets
    <2>2. \A a \in Waiting' : a \in Waiting \/ (a[1] \in Posts /\ Met(a[1]))
      BY <1>3 DEF PollEffect, Met
    <2> QED BY <1>2, <1>3, <2>1, <2>2 DEF PollEffect
  <1>4. CASE PollDueEffect
    <2>1. \A p \in Posts : Meets(p) => Met(p)
      BY <1>4 DEF PollDueEffect, DuePosts, Met, Meets
    <2> QED BY <1>2, <1>4, <2>1 DEF PollDueEffect, Waiting
  <1>5. CASE \/ RescheduleEffect \/ DeleteShareEffect \/ DeleteReadsEffect
             \/ DeleteCommitsEffect \/ WorldEffect
    <2>1. \A p \in Posts : Meets(p) => Met(p)
      BY <1>5 DEF RescheduleEffect, DeleteShareEffect, DeleteReadsEffect, DeleteCommitsEffect,
            WorldEffect, Met, Meets
    <2>2. Waiting' = Waiting /\ UNCHANGED <<ckpt, run>>
      BY <1>5 DEF RescheduleEffect, DeleteShareEffect, DeleteReadsEffect, DeleteCommitsEffect,
            WorldEffect, Waiting
    <2> QED BY <1>2, <2>1, <2>2
  <1>6. CASE AcceptEffect
    <2>1. PICK p \in Posts, d \in Answers :
            approval[p] # "none" /\ Waiting' \subseteq Waiting \cup {<<p, d>>}
      BY <1>6 DEF AcceptEffect
    <2>2. \A a \in Waiting' : a \in Waiting \/ (a[1] \in Posts /\ Met(a[1]))
      BY <2>1 DEF Met
    <2>3. \A q \in Posts : Meets(q) => Met(q)
      BY <1>6 DEF AcceptEffect, Met, Meets
    <2> QED BY <1>2, <1>6, <2>2, <2>3 DEF AcceptEffect
  <1>7. CASE LoseEffect
    <2>1. \A q \in Posts : Meets(q) => Met(q)
      BY <1>7 DEF LoseEffect, Met, Meets
    <2> QED BY <1>2, <1>7, <2>1 DEF LoseEffect
  <1> QED BY <1>1, <1>3, <1>4, <1>5, <1>6, <1>7 DEF OutsideEffect

LEMMA StageStep ==
    ASSUME OneStart, PublicationInv, StageInv, [Next]_vars
    PROVE  StageInv'
  BY StepEffects, StageRunSteps, StageHandlerSteps, StageOutsideSteps

LEMMA StageInit == Init => StageInv
  BY DEF Init, StageInv, UploadOnly, EarlyShape, LateShape, Early, Opening, Screened, Idle, IdleRun,
         NoState, NoRow, Met, Meets, thePost, Waiting

-----------------------------------------------------------------------------
(* Consent *)

\* Approval is required, and stays required.
ConsentRequired == OneStart /\ NeedApproval /\ "toggle" \notin Ops

Passing == {"wait_for_slot", "preview", "publish", "mark", "call"}
Awake(x) == x.pc \in Passing \/ (x.pc # "idle" /\ x.resume \in {"approved", "true"})

\* Something is past the gate, or about to wake a run with an approval.
Woken ==
    \/ ckpt.next \in Passing
    \/ due # {} \/ \E p \in Posts : rows[p].status = "scheduled"
    \/ \E r \in Runs : Awake(run[r])
Consented == ckpt.st.dry \/ "approved" \in said[thePost]
ConsentInv ==
    /\ requireApproval
    /\ Early => \A r \in Runs : run[r].pc = "wait_for_slot" => run[r].st.dry
    /\ ~Early /\ Woken => Consented

\* Run r moves on, and is awake only if something was.
LEMMA ConsentMoves ==
    ASSUME ConsentInv, NEW r \in Runs, Kept(r),
           UNCHANGED <<ckpt, due, requireApproval, said>>,
           Early => (run'[r].pc = "wait_for_slot" => run'[r].st.dry),
           ~Early => (Awake(run'[r]) => Woken),
           ~Early => \A p \in Posts : rows'[p].status = "scheduled" => Woken
    PROVE  ConsentInv'
  <1>1. requireApproval'
    BY DEF ConsentInv
  <1>2. Early' => \A q \in Runs : run'[q].pc = "wait_for_slot" => run'[q].st.dry
    BY DEF ConsentInv, Early, Kept
  <1>3. ~Early' /\ Woken' => Consented'
    BY DEF ConsentInv, Early, Kept, Woken, Consented, thePost
  <1> QED BY <1>1, <1>2, <1>3 DEF ConsentInv

LEMMA ConsentRunSteps ==
    ASSUME ConsentRequired, PublicationInv, StageInv, ConsentInv, NEW r \in Runs, RunEffect(r)
    PROVE  ConsentInv'
  <1>1. CASE ExtractEffect(r)
    <2>1. Early
      BY <1>1 DEF ExtractEffect, Idle, StageInv, LateShape, Follows, Opening, Screened
    <2>2. requireApproval' /\ Early'
      BY <1>1, <2>1 DEF ExtractEffect, ConsentInv, Early
    <2> QED BY <1>1, <2>1, <2>2 DEF ExtractEffect, ConsentInv, Kept
  <1>2. CASE OpeningEffect(r)
    <2>1. Early
      BY <1>2 DEF OpeningEffect, Idle, StageInv, LateShape, Follows, Opening, Screened
    <2>2. /\ Kept(r) /\ UNCHANGED <<ckpt, due, requireApproval, said>>
          /\ run'[r].pc = "wait_for_slot" => run'[r].st.dry
      BY <1>2 DEF OpeningEffect, Steady, Returns, Goes, Moves, StageInv, UploadOnly, ConsentInv
    <2> QED BY <2>1, <2>2, ConsentMoves
  <1>3. CASE GateEffect(r) \/ SlotEffect(r) \/ PublishEffect(r) \/ ClosingEffect(r)
    <2>1. ~Early
      BY <1>3, Behind DEF GateEffect, SlotEffect, PublishEffect, ClosingEffect, Idle, Opening, Screened
    <2>2. UNCHANGED <<ckpt, due, requireApproval, said>>
      BY <1>3 DEF GateEffect, SlotEffect, PublishEffect, ClosingEffect, Steady
    <2>3. Kept(r) /\ (Awake(run'[r]) => Awake(run[r]))
      BY <1>3 DEF GateEffect, SlotEffect, PublishEffect, ClosingEffect, Returns, Goes, Ends,
                  Moves, Awake, Passing, IdleRun
    <2>4. \A p \in Posts : rows'[p].status = "scheduled" =>
             rows[p].status = "scheduled" \/ Awake(run[r])
      BY <1>3 DEF GateEffect, SlotEffect, PublishEffect, ClosingEffect, Gets, dbVars,
                  Awake, Passing
    <2>5. Awake(run[r]) => Woken
      BY DEF Woken
    <2>6. (\E p \in Posts : rows[p].status = "scheduled") => Woken
      BY DEF Woken
    <2> QED BY <2>1, <2>2, <2>3, <2>4, <2>5, <2>6, ConsentMoves
  <1>4. CASE SaveEffect(r)
    <2>1. /\ ckpt'.next = run[r].pc /\ ckpt'.st = run[r].st /\ ~Idle(r)
          /\ UNCHANGED <<rows, due, requireApproval, said>> /\ Kept(r)
      BY <1>4 DEF SaveEffect, StageInv, UploadOnly, Ends, Idle, Nodes
    <2>2. \/ run'[r] = IdleRun
          \/ /\ run'[r].pc = run[r].pc /\ run'[r].st = run[r].st
             /\ run'[r].resume = "none"
      BY <1>4 DEF SaveEffect, Ends
    <2>3. requireApproval'
      BY <2>1 DEF ConsentInv
    <2>4. CASE Early'
      <3>1. Early
        BY <1>4, <2>1, <2>4 DEF Early, Idle, StageInv, LateShape, Follows, SaveEffect, Nodes, Opening, Screened
      <3>2. \A q \in Runs : run'[q].pc = "wait_for_slot" => run'[q].st.dry
        BY <2>1, <2>2, <3>1 DEF ConsentInv, Kept, IdleRun
      <3> QED BY <2>3, <2>4, <3>2 DEF ConsentInv
    <2>5. CASE ~Early' /\ Early
      <3>1. Opens(run[r]) /\ \A q \in Runs \ {r} : Idle(q)
        BY <2>1, <2>5 DEF StageInv, EarlyShape
      <3>2. run[r].pc \in {"approve", "wait_for_slot", "finalize"}
        BY <2>1, <2>5, <3>1 DEF Opens, Early
      <3>3. \A q \in Runs \ {r} : ~Awake(run'[q])
        BY <2>1, <3>1 DEF StageInv, EarlyShape, Kept, Idle, Awake, Passing,
              PublicationInv
      <3>4. run[r].pc = "wait_for_slot" => run[r].st.dry
        BY <2>5 DEF ConsentInv
      <3>5. Woken' => run[r].pc = "wait_for_slot"
        BY <2>1, <2>2, <2>5, <3>2, <3>3 DEF Woken, StageInv, EarlyShape, Met, Awake, Passing, IdleRun,
              PublicationInv, TypeOK
      <3> QED BY <2>1, <2>3, <2>5, <3>4, <3>5 DEF ConsentInv, Consented
    <2>6. CASE ~Early' /\ ~Early
      <3>1. Follows(run[r], ckpt)
        BY <2>1, <2>6 DEF StageInv, LateShape
      <3>2. Consented => Consented'
        BY <2>1, <3>1 DEF Consented, Follows, thePost
      <3>3. \A q \in Runs : Awake(run'[q]) => Awake(run[q])
        BY <2>1, <2>2 DEF Kept, Awake, Passing, IdleRun
      <3>4. Woken' => Woken
        BY <2>1, <3>3 DEF Woken, Awake
      <3> QED BY <2>3, <2>6, <3>2, <3>4 DEF ConsentInv
    <2> QED BY <2>4, <2>5, <2>6
  <1>5. CASE RaiseEffect(r)
    <2>1. UNCHANGED <<ckpt, due, requireApproval, said>> /\ Kept(r) /\ run'[r] = IdleRun
      BY <1>5 DEF RaiseEffect, Steady, Ends
    <2>2. ~Awake(run'[r]) /\ run'[r].pc # "wait_for_slot"
      BY <2>1 DEF Awake, Passing, IdleRun
    <2>3. \A p \in Posts : rows'[p].status = "scheduled" => Woken
      BY <1>5 DEF RaiseEffect, Fails, Woken
    <2> QED BY <2>1, <2>2, <2>3, ConsentMoves
  <1> QED BY <1>1, <1>2, <1>3, <1>4, <1>5 DEF RunEffect

LEMMA ConsentHandlerSteps ==
    ASSUME ConsentRequired, PublicationInv, StageInv, ConsentInv, NEW r \in Runs, HandlerEffect(r)
    PROVE  ConsentInv'
  <1>1. CASE StartEffect(r)
    <2>1. \A q \in Runs : Idle(q)
      BY <1>1 DEF StartEffect, ConsentRequired, OneStart, StageInv, EarlyShape
    <2>2. Early' /\ requireApproval'
      BY <1>1 DEF StartEffect, Early, Opening, Screened, ConsentInv
    <2>3. \A q \in Runs : run'[q].pc # "wait_for_slot"
      BY <1>1, <2>1 DEF StartEffect, Kept, Idle
    <2> QED BY <2>2, <2>3 DEF ConsentInv
  <1>2. CASE FreshEffect(r)
    BY <1>2 DEF FreshEffect, ConsentRequired, OneStart
  <1>3. ASSUME NEW origin \in Tellers, NEW p \in Posts, NEW d \in Decisions,
               TellEffect(r, origin, p, d)
        PROVE  ConsentInv'
    <2>1. ~Early /\ p = thePost /\ thePost \in Posts
      BY <1>3 DEF TellEffect, StageInv, EarlyShape, LateShape
    <2>2. UNCHANGED <<rows, ckpt, due, requireApproval>>
      BY <1>3 DEF TellEffect
    <2>3. said'[p] \in {AfterWord(said[p] \ {"stray"}, d), AfterWord(said[p], d) \cup {"stray"}}
      BY <1>3 DEF TellEffect, Say
    <2>4. d = "approved" => Consented'
      BY <2>1, <2>2, <2>3 DEF Consented, thePost, AfterWord
    <2>5. Consented => Consented'
      BY <2>1, <2>2, <2>3 DEF Consented, thePost, AfterWord
    <2>6. \A q \in Runs : d # "approved" /\ Awake(run'[q]) =>
                            Awake(run[q]) \/ ckpt.next \in Passing
      BY <1>3 DEF TellEffect, Wakes, Resumes, Kept, Awake, Decisions
    <2>7. d # "approved" /\ Woken' => Woken
      BY <2>2, <2>6 DEF Woken
    <2>8. requireApproval' /\ ~Early'
      BY <2>1, <2>2 DEF ConsentInv, Early
    <2> QED BY <2>1, <2>4, <2>5, <2>7, <2>8 DEF ConsentInv
  <1>4. ASSUME NEW p \in due, DueEffect(r, p)
        PROVE  ConsentInv'
    <2>1. ~Early /\ thePost \in Posts
      BY <1>4 DEF StageInv, EarlyShape, LateShape, Met, PublicationInv, TypeOK
    <2>2. Woken
      BY DEF Woken
    <2>3. Consented'
      BY <1>4, <2>1, <2>2 DEF ConsentInv, Consented, DueEffect, thePost
    <2> QED BY <1>4, <2>1, <2>3 DEF DueEffect, ConsentInv, Early
  <1> QED BY <1>1, <1>2, <1>3, <1>4 DEF HandlerEffect

LEMMA ConsentOutsideSteps ==
    ASSUME ConsentRequired, PublicationInv, StageInv, ConsentInv, OutsideEffect
    PROVE  ConsentInv'
  <1>1. ASSUME UNCHANGED <<ckpt, said, requireApproval>>,
               \A r \in Runs : run'[r] = run[r] \/ run'[r] = IdleRun,
               due' # {} => due # {} \/ \E p \in Posts : rows[p].status = "scheduled",
               \A p \in Posts : rows'[p].status = "scheduled" => rows[p].status = "scheduled"
        PROVE  ConsentInv'
    <2>1. \A r \in Runs : Awake(run'[r]) => Awake(run[r])
      BY <1>1 DEF Awake, IdleRun, Passing
    <2>2. Woken' => Woken
      BY <1>1, <2>1 DEF Woken
    <2>3. \A r \in Runs : run'[r].pc = "wait_for_slot" => run'[r].st.dry \/ run'[r] = run[r]
      BY <1>1 DEF IdleRun
    <2> QED BY <1>1, <2>2, <2>3 DEF ConsentInv, Early, Consented, thePost
  <1>2. CASE PollEffect
    <2>1. \A p \in Posts : rows'[p].status = "scheduled" => rows[p].status = "scheduled"
      BY <1>2 DEF PollEffect, Polled
    <2> QED BY <1>1, <1>2, <2>1 DEF PollEffect
  <1>3. CASE RescheduleEffect \/ DeleteShareEffect \/ DeleteReadsEffect \/ CrashEffect
    BY <1>1, <1>3 DEF RescheduleEffect, DeleteShareEffect, DeleteReadsEffect, CrashEffect
  <1>4. CASE DeleteCommitsEffect
    <2>1. \A p \in Posts : rows'[p].status = "scheduled" => rows[p].status = "scheduled"
      BY <1>4 DEF DeleteCommitsEffect
    <2> QED BY <1>1, <1>4, <2>1 DEF DeleteCommitsEffect
  <1>5. CASE AcceptEffect \/ LoseEffect
    BY <1>1, <1>5 DEF AcceptEffect, LoseEffect
  <1>6. CASE PollDueEffect
    BY <1>1, <1>6 DEF PollDueEffect, DuePosts
  <1>7. CASE WorldEffect
    BY <1>1, <1>7 DEF WorldEffect, ConsentRequired
  <1> QED BY <1>2, <1>3, <1>4, <1>5, <1>6, <1>7 DEF OutsideEffect

LEMMA ConsentStep ==
    ASSUME ConsentRequired, PublicationInv, StageInv, ConsentInv, [Next]_vars
    PROVE  ConsentInv'
  BY StepEffects, ConsentRunSteps, ConsentHandlerSteps, ConsentOutsideSteps

LEMMA ConsentInit ==
    ASSUME ConsentRequired, Init
    PROVE  ConsentInv
  BY DEF Init, ConsentInv, ConsentRequired, Early, IdleRun, NoState, Woken

\* approve_node's gate: under ConsentRequired no live post reaches LinkedIn
\* before a human approved it, however runs, jobs, decisions and crashes interleave.
THEOREM ConsentSound ==
    ASSUME ConsentRequired
    PROVE  Spec => ConsentBeforePublish
  <1>1. Init => PublicationInv /\ StageInv /\ ConsentInv
    BY InitInv, StageInit, ConsentInit
  <1>2. PublicationInv /\ StageInv /\ ConsentInv /\ [Next]_vars
          => (PublicationInv /\ StageInv /\ ConsentInv)'
    BY StepInv, StageStep, ConsentStep DEF ConsentRequired
  <1>3. ASSUME PublicationInv, StageInv, ConsentInv, NEW r \in Runs, Publishes(r)
        PROVE  "approved" \in said[run[r].st.post]
    <2>1. ~Early /\ Follows(run[r], ckpt)
      BY <1>3, Behind DEF Publishes, At, Idle, Opening, Screened
    <2>2. Woken
      BY <1>3 DEF Woken, Awake, Passing, Publishes, At
    <2> QED BY <1>3, <2>1, <2>2 DEF ConsentInv, Consented, Follows, thePost, Publishes
  <1>4. PublicationInv /\ StageInv /\ ConsentInv
          => [\A r \in Runs : Publishes(r) /\ ~run[r].st.skip
                => "approved" \in said[run[r].st.post]]_vars
    BY <1>3
  <1> QED BY <1>1, <1>2, <1>4, PTL DEF Spec, ConsentBeforePublish

-----------------------------------------------------------------------------
(* The slot *)

\* One start, and the slot stays as it was assigned.
SlotKept == OneStart /\ "reschedule" \notin Ops

LEMMA Instants ==
    ASSUME TypeOK, NEW p \in Posts
    PROVE  rows[p].slot \in Nat /\ now \in Nat
  <1>1. rows[p].slot \in {0} \cup Slots
    BY RowType DEF Row
  <1>2. rows[p].slot \in Nat
    BY <1>1, SlotsAssumption
  <1>3. now \in Nat
    BY CountsAssumption DEF TypeOK
  <1> QED BY <1>2, <1>3

\* A run at the gate, and one that LinkedIn will see.
AtGate(x) ==
    \/ x.pc \in {"idle", "approve", "notify", "decide"}
    \/ x.unsaved /\ x.pc \in {"wait_for_slot", "finalize"}
Heading(x) ==
    \/ x.pc \in {"preview", "publish", "mark", "call"}
    \/ x.pc = "wait_for_slot" /\ ~x.unsaved /\ x.resume # "none"

OnTime == ckpt.st.dry \/ now >= rows[thePost].slot
Strayed == "stray" \in said[thePost]

GateInv ==
    /\ \A r \in Runs : run[r].unsaved => run[r].pc # "approve"
    /\ ckpt.next = "approve" =>
         /\ \A r \in Runs : AtGate(run[r])
         /\ due = {} /\ \A p \in Posts : rows[p].status # "scheduled"
TimeInv ==
    (\/ ckpt.next \in {"preview", "publish"} \/ due # {}
     \/ \E r \in Runs : Heading(run[r])) => OnTime \/ Strayed
SlotInv == ~Early => GateInv /\ TimeInv

\* Run r, behind the gate, moves on.
LEMMA SlotMoves ==
    ASSUME SlotInv, ~Early, NEW r \in Runs, Kept(r),
           UNCHANGED <<ckpt, due, now, said>>,
           rows'[thePost].slot = rows[thePost].slot,
           run'[r].unsaved => run'[r].pc # "approve",
           ckpt.next = "approve" =>
              AtGate(run'[r]) /\ \A p \in Posts : rows'[p].status # "scheduled",
           Heading(run'[r]) => OnTime \/ Strayed
    PROVE  SlotInv'
  <1>1. GateInv'
    BY DEF SlotInv, GateInv, Kept
  <1>2. (OnTime => OnTime') /\ (Strayed => Strayed')
    BY DEF OnTime, Strayed, thePost
  <1>3. TimeInv'
    BY <1>2 DEF SlotInv, TimeInv, Kept
  <1> QED BY <1>1, <1>3 DEF SlotInv

LEMMA SlotRunSteps ==
    ASSUME SlotKept, PublicationInv, StageInv, SlotInv, NEW r \in Runs, RunEffect(r)
    PROVE  SlotInv'
  <1> DEFINE p == run[r].st.post
  <1>0. TypeOK
    BY DEF PublicationInv
  <1>1. CASE ExtractEffect(r) \/ OpeningEffect(r)
    <2>1. Early
      BY <1>1 DEF ExtractEffect, OpeningEffect, Idle, StageInv, LateShape, Follows, Opening,
            Screened
    <2> QED BY <1>1, <2>1 DEF ExtractEffect, OpeningEffect, Steady, SlotInv, Early
  <1>2. CASE GateEffect(r)
    <2>1. ~Early /\ p = thePost /\ p \in Posts /\ ~run[r].unsaved
      BY <1>2, Behind DEF GateEffect, Idle, Opening, Screened, Follows, thePost
    <2>2. /\ UNCHANGED <<ckpt, due, now, said>> /\ Kept(r)
          /\ \A q \in Posts : rows'[q].slot = rows[q].slot
      BY <1>2 DEF GateEffect, Steady, Returns, Goes, Ends, Moves, Gets, dbVars
    <2>3. /\ AtGate(run'[r]) /\ ~Heading(run'[r])
          /\ run'[r].unsaved => run'[r].pc # "approve"
      BY <1>2 DEF GateEffect, Returns, Goes, Ends, Moves, AtGate, Heading, IdleRun
    <2>4. ckpt.next = "approve" => \A q \in Posts : rows'[q].status # "scheduled"
      BY <1>2, <2>1 DEF GateEffect, Gets, dbVars, SlotInv, GateInv
    <2> QED BY <2>1, <2>2, <2>3, <2>4, SlotMoves
  <1>3. CASE SlotEffect(r) \/ PublishEffect(r) \/ ClosingEffect(r)
    <2>1. ~Early /\ p = thePost /\ p \in Posts /\ ~run[r].unsaved /\ run[r].st.dry = ckpt.st.dry
          /\ ~run[r].st.skip
      BY <1>3, Behind DEF SlotEffect, PublishEffect, ClosingEffect, Idle, Opening, Screened,
            Follows, thePost, StageInv, UploadOnly
    <2>2. /\ UNCHANGED <<ckpt, due, now, said>> /\ Kept(r)
          /\ \A q \in Posts : rows'[q].slot = rows[q].slot
      BY <1>3, <2>1 DEF SlotEffect, PublishEffect, ClosingEffect, Steady, Returns, Goes, Ends,
            Moves, Gets
    <2>3. ~AtGate(run[r])
      BY <1>3 DEF SlotEffect, PublishEffect, ClosingEffect, AtGate
    <2>4. ckpt.next # "approve"
      BY <2>1, <2>3 DEF SlotInv, GateInv
    <2>5. run'[r].pc # "approve"
      BY <1>3 DEF SlotEffect, PublishEffect, ClosingEffect, Returns, Goes, Ends, Moves, IdleRun
    <2>6. Heading(run'[r]) => OnTime \/ Strayed
      <3>1. Heading(run[r]) => OnTime \/ Strayed
        BY <2>1 DEF SlotInv, TimeInv
      <3>2. CASE run[r].pc = "wait_for_slot" /\ ~MustWait(r)
        <4>1. rows[thePost].slot \in Nat /\ now \in Nat
          BY <1>0, <2>1, Instants
        <4> QED BY <2>1, <3>2, <4>1 DEF MustWait, OnTime
      <3>3. CASE ~(run[r].pc = "wait_for_slot" /\ ~MustWait(r)) /\ Heading(run'[r])
        <4>1. Heading(run[r])
          BY <1>3, <2>1, <3>3 DEF SlotEffect, PublishEffect, ClosingEffect, Returns, Goes, Ends,
                Moves, Heading, IdleRun
        <4> QED BY <3>1, <4>1
      <3> QED BY <3>2, <3>3
    <2> QED BY <2>1, <2>2, <2>4, <2>5, <2>6, SlotMoves
  <1>4. CASE SaveEffect(r)
    <2>1. /\ ckpt'.next = run[r].pc /\ ckpt'.st = run[r].st /\ ~Idle(r) /\ run[r].unsaved
          /\ UNCHANGED <<rows, due, now, said>> /\ Kept(r)
      BY <1>4 DEF SaveEffect, StageInv, UploadOnly, Ends, Idle, Nodes
    <2>2. \/ run'[r] = IdleRun
          \/ /\ run'[r].pc = run[r].pc /\ run'[r].st = run[r].st
             /\ run'[r].resume = "none" /\ ~run'[r].unsaved
      BY <1>4 DEF SaveEffect, Ends
    <2>3. CASE Early'
      BY <2>1, <2>3 DEF SlotInv
    <2>4. CASE ~Early' /\ Early
      <3>1. Opens(run[r]) /\ \A q \in Runs \ {r} : Idle(q)
        BY <2>1, <2>4 DEF StageInv, EarlyShape
      <3>2. run[r].pc \in {"approve", "wait_for_slot", "finalize"}
        BY <2>1, <2>4, <3>1 DEF Opens, Early
      <3>3. \A q \in Runs \ {r} : run'[q].pc = "idle" /\ ~run'[q].unsaved
        BY <2>1, <3>1 DEF PublicationInv, RunsSound, Kept, Idle, Nodes
      <3>4. due' = {} /\ \A q \in Posts : rows'[q].status # "scheduled"
        BY <1>0, <2>1, <2>4 DEF StageInv, EarlyShape, Met, TypeOK
      <3>5. GateInv'
        BY <2>1, <2>2, <3>2, <3>3, <3>4 DEF GateInv, AtGate, IdleRun
      <3>6. TimeInv'
        BY <2>1, <2>2, <3>2, <3>3, <3>4 DEF TimeInv, Heading, IdleRun
      <3> QED BY <3>5, <3>6 DEF SlotInv
    <2>5. CASE ~Early' /\ ~Early
      <3>1. Follows(run[r], ckpt) /\ run[r].pc # "approve"
        BY <2>1, <2>5 DEF StageInv, LateShape, SlotInv, GateInv
      <3>2. GateInv'
        BY <2>1, <2>2, <2>5, <3>1 DEF SlotInv, GateInv, Kept, IdleRun
      <3>3. (OnTime => OnTime') /\ (Strayed => Strayed')
        BY <2>1, <3>1 DEF OnTime, Strayed, Follows, thePost
      <3>4. \A q \in Runs : Heading(run'[q]) => Heading(run[q])
        BY <2>1, <2>2 DEF Kept, Heading, IdleRun
      <3>5. run[r].pc \in {"preview", "publish"} => Heading(run[r])
        BY DEF Heading
      <3>6. TimeInv'
        BY <2>1, <2>5, <3>3, <3>4, <3>5 DEF SlotInv, TimeInv
      <3> QED BY <3>2, <3>6 DEF SlotInv
    <2> QED BY <2>3, <2>4, <2>5
  <1>5. CASE RaiseEffect(r)
    <2>1. UNCHANGED <<ckpt, due, now, said>> /\ Kept(r) /\ run'[r] = IdleRun
      BY <1>5 DEF RaiseEffect, Steady, Ends
    <2>2. CASE Early
      BY <2>1, <2>2 DEF SlotInv, Early
    <2>3. CASE ~Early
      <3>1. thePost \in Posts
        BY <2>3 DEF StageInv, LateShape
      <3>2. /\ rows'[thePost].slot = rows[thePost].slot
            /\ ckpt.next = "approve" => \A q \in Posts : rows'[q].status # "scheduled"
        BY <1>5, <2>3, <3>1 DEF RaiseEffect, Fails, SlotInv, GateInv
      <3>3. AtGate(run'[r]) /\ ~Heading(run'[r]) /\ ~run'[r].unsaved
        BY <2>1 DEF AtGate, Heading, IdleRun
      <3> QED BY <2>1, <2>3, <3>2, <3>3, SlotMoves
    <2> QED BY <2>2, <2>3
  <1> QED BY <1>1, <1>2, <1>3, <1>4, <1>5 DEF RunEffect

LEMMA SlotHandlerSteps ==
    ASSUME SlotKept, PublicationInv, StageInv, SlotInv, NEW r \in Runs, HandlerEffect(r)
    PROVE  SlotInv'
  <1>1. CASE StartEffect(r)
    BY <1>1 DEF StartEffect, SlotInv, Early, Opening
  <1>2. CASE FreshEffect(r)
    BY <1>2 DEF FreshEffect, SlotKept, OneStart
  <1>3. ASSUME NEW origin, NEW v, Wakes(r, origin, v), ~Early,
               UNCHANGED <<rows, ckpt, now>>, due' \subseteq due,
               IF ckpt.next = "approve" THEN TRUE
               ELSE (due # {} /\ (Strayed => Strayed')) \/ Strayed'
        PROVE  SlotInv'
    <2>1. \/ UNCHANGED run
          \/ run'[r].pc = ckpt.next /\ ~run'[r].unsaved /\ Kept(r)
      BY <1>3 DEF Wakes, Resumes
    <2>2. GateInv'
      BY <1>3, <2>1 DEF SlotInv, GateInv, Kept, AtGate
    <2>3. CASE ckpt.next = "approve"
      <3>1. \A q \in Runs : AtGate(run'[q]) /\ due' = {}
        BY <1>3, <2>2, <2>3 DEF GateInv
      <3>2. \A q \in Runs : ~Heading(run'[q])
        BY <3>1 DEF AtGate, Heading
      <3>3. TimeInv'
        BY <1>3, <2>3, <3>1, <3>2 DEF TimeInv, SlotInv, GateInv
      <3> QED BY <2>2, <3>3 DEF SlotInv
    <2>4. CASE ckpt.next # "approve"
      <3>1. OnTime => OnTime'
        BY <1>3 DEF OnTime, thePost
      <3>2. OnTime' \/ Strayed'
        BY <1>3, <2>4, <3>1 DEF SlotInv, TimeInv
      <3> QED BY <2>2, <3>2 DEF SlotInv, TimeInv
    <2> QED BY <2>3, <2>4
  <1>4. ASSUME NEW origin, NEW p \in Posts, NEW d, TellEffect(r, origin, p, d)
        PROVE  SlotInv'
    <2>1. ~Early /\ p = thePost
      BY <1>4 DEF TellEffect, StageInv, EarlyShape, LateShape
    <2>2. ckpt.next # "approve" => Strayed'
      BY <1>4, <2>1 DEF TellEffect, Say, InTime, Strayed, thePost
    <2> QED BY <1>3, <1>4, <2>1, <2>2 DEF TellEffect
  <1>5. ASSUME NEW p \in due, DueEffect(r, p)
        PROVE  SlotInv'
    <2>1. ~Early /\ thePost \in Posts
      BY <1>5 DEF StageInv, EarlyShape, LateShape, Met, PublicationInv, TypeOK
    <2>2. Strayed => Strayed'
      BY <1>5, <2>1 DEF DueEffect, Strayed, thePost
    <2> QED BY <1>3, <1>5, <2>1, <2>2 DEF DueEffect
  <1> QED BY <1>1, <1>2, <1>4, <1>5 DEF HandlerEffect

LEMMA SlotOutsideSteps ==
    ASSUME SlotKept, PublicationInv, StageInv, SlotInv, OutsideEffect
    PROVE  SlotInv'
  <1>0. TypeOK
    BY DEF PublicationInv
  <1>1. ASSUME UNCHANGED <<ckpt, said>>, now' >= now, now' \in Nat,
               \A r \in Runs : run'[r] = run[r] \/ run'[r] = IdleRun,
               due' # {} => due # {} \/ (ckpt.next # "approve" /\ OnTime),
               \A q \in Posts : /\ rows'[q].status = "scheduled" => rows[q].status = "scheduled"
                                /\ rows'[q].slot = rows[q].slot
        PROVE  SlotInv'
    <2>1. CASE Early
      BY <1>1, <2>1 DEF SlotInv, Early
    <2>2. CASE ~Early
      <3>1. GateInv'
        BY <1>1, <2>2 DEF SlotInv, GateInv, AtGate, IdleRun
      <3>2. thePost \in Posts
        BY <2>2 DEF StageInv, LateShape
      <3>3. OnTime => OnTime'
        <4>1. rows[thePost].slot \in Nat /\ now \in Nat
          BY <1>0, <3>2, Instants
        <4>2. /\ rows'[thePost].slot = rows[thePost].slot /\ thePost' = thePost
              /\ UNCHANGED ckpt
          BY <1>1, <3>2 DEF thePost
        <4> QED BY <1>1, <4>1, <4>2 DEF OnTime
      <3>4. \A r \in Runs : Heading(run'[r]) => Heading(run[r])
        BY <1>1 DEF Heading, IdleRun
      <3>5. Strayed => Strayed'
        BY <1>1 DEF Strayed, thePost
      <3>6. TimeInv'
        BY <1>1, <2>2, <3>3, <3>4, <3>5 DEF SlotInv, TimeInv
      <3> QED BY <3>1, <3>6 DEF SlotInv
    <2> QED BY <2>1, <2>2
  <1>2. now \in Nat
    BY <1>0, CountsAssumption DEF TypeOK
  <1>3. CASE PollEffect
    <2>1. \A q \in Posts : /\ rows'[q].status = "scheduled" => rows[q].status = "scheduled"
                           /\ rows'[q].slot = rows[q].slot
      BY <1>3 DEF PollEffect, Polled
    <2>2. UNCHANGED <<ckpt, said, now, run, due>>
      BY <1>3 DEF PollEffect
    <2> QED BY <1>1, <1>2, <2>1, <2>2
  <1>4. CASE RescheduleEffect
    BY <1>4 DEF RescheduleEffect, SlotKept
  <1>5. CASE PollDueEffect
    <2>1. due' # {} => ckpt.next # "approve" /\ OnTime
      <3> SUFFICES ASSUME due' # {} PROVE ckpt.next # "approve" /\ OnTime
        OBVIOUS
      <3>1. PICK q \in Posts : rows[q].status = "scheduled" /\ now >= rows[q].slot
        BY <1>5 DEF PollDueEffect, DuePosts
      <3>2. ~Early /\ q = thePost
        BY <3>1 DEF StageInv, EarlyShape, LateShape, Met
      <3> QED BY <3>1, <3>2 DEF SlotInv, GateInv, OnTime
    <2> QED BY <1>1, <1>2, <1>5, <2>1 DEF PollDueEffect
  <1>6. CASE \/ DeleteShareEffect \/ DeleteReadsEffect \/ CrashEffect
             \/ AcceptEffect \/ LoseEffect
    <2>1. /\ UNCHANGED <<ckpt, now, said, rows>>
          /\ \A r \in Runs : run'[r] = run[r] \/ run'[r] = IdleRun
          /\ due' # {} => due # {}
      BY <1>6 DEF DeleteShareEffect, DeleteReadsEffect, CrashEffect, AcceptEffect, LoseEffect
    <2> QED BY <1>1, <1>2, <2>1
  <1>7. CASE DeleteCommitsEffect
    <2>1. \A q \in Posts : /\ rows'[q].status = "scheduled" => rows[q].status = "scheduled"
                           /\ rows'[q].slot = rows[q].slot
      BY <1>7 DEF DeleteCommitsEffect
    <2> QED BY <1>1, <1>2, <1>7, <2>1 DEF DeleteCommitsEffect
  <1>8. CASE WorldEffect
    BY <1>1, <1>8 DEF WorldEffect
  <1> QED BY <1>3, <1>4, <1>5, <1>6, <1>7, <1>8 DEF OutsideEffect

LEMMA SlotStep ==
    ASSUME SlotKept, PublicationInv, StageInv, SlotInv, [Next]_vars
    PROVE  SlotInv'
  BY StepEffects, SlotRunSteps, SlotHandlerSteps, SlotOutsideSteps

\* wait_for_slot_node: under SlotKept no live post goes out before its slot,
\* unless a decision or the job woke the graph where it was not meant to, however
\* jobs, stale clicks, expiries, deletions and crashes interleave.
THEOREM SlotSound ==
    ASSUME SlotKept
    PROVE  Spec => NotBeforeSlot
  <1>0. Init => SlotInv
    BY DEF Init, SlotInv, Early
  <1>1. Init => PublicationInv /\ StageInv /\ SlotInv
    BY <1>0, InitInv, StageInit
  <1>2. PublicationInv /\ StageInv /\ SlotInv /\ [Next]_vars
          => (PublicationInv /\ StageInv /\ SlotInv)'
    BY StepInv, StageStep, SlotStep DEF SlotKept
  <1>3. ASSUME PublicationInv, StageInv, SlotInv, NEW r \in Runs, Publishes(r)
        PROVE  now >= rows[run[r].st.post].slot \/ "stray" \in said[run[r].st.post]
    <2>1. ~Early /\ Follows(run[r], ckpt)
      BY <1>3, Behind DEF Publishes, At, Idle, Opening, Screened
    <2>2. Heading(run[r])
      BY <1>3 DEF Heading, Publishes, At
    <2> QED BY <1>3, <2>1, <2>2 DEF SlotInv, TimeInv, OnTime, Strayed, Follows, thePost,
              Publishes
  <1>4. PublicationInv /\ StageInv /\ SlotInv
          => [\A r \in Runs : Publishes(r) /\ ~run[r].st.skip
                => \/ now >= rows[run[r].st.post].slot
                   \/ "stray" \in said[run[r].st.post]]_vars
    BY <1>3
  <1> QED BY <1>1, <1>2, <1>4, PTL DEF Spec, NotBeforeSlot

-----------------------------------------------------------------------------
(* At most one publication *)

\* One run at a time, one fault, and nobody but poll_once's timeouts and the
\* pipeline writes the status of the post.
OnceKept ==
    /\ OneStart /\ MaxFaults <= 1 /\ "sheet" \notin Ops
    /\ \A q, r \in Runs : q = r

\* The node a run executes, and the one the checkpoint of a run in step names.
StandsAt(x) == CASE x.pc \in {"notify", "decide"} -> "approve"
                 [] x.pc \in {"mark", "call", "record"} -> "publish"
                 [] x.pc = "reset" -> "extract"
                 [] x.pc = "commit" -> "finalize"
                 [] OTHER -> x.pc
InStep(x, n) ==
    /\ x.pc = "idle" \/ x.unsaved \/ n = StandsAt(x)
    /\ x.unsaved => /\ n # "end"
                    /\ n = "publish" => x.pc = "finalize"
                    /\ n = "finalize" => x.pc = "end"

\* Nobody can resume the thread.
Unmet ==
    /\ due = {} /\ Waiting = {}
    /\ \A p \in Posts : approval[p] = "none" /\ rows[p].status # "scheduled"

\* The run of the first start goes past the gate only when there is no gate: then
\* its failure, which takes the row out of "publishing", is the end of the thread.
Starts(x) ==
    /\ x.origin # "retry"
    /\ x.origin = "start" => x.resume = "none"
Unguarded(x) == x.origin = "start" /\ ~x.st.dry /\ x.pc \in Passing \cup {"record"}
StartInv == \A r \in Runs : Unguarded(run[r]) => Unmet

\* A run inside publish_node or finalize_node, the row of its post and the shares LinkedIn shows.
Covered(x, row, shares) ==
    /\ x.st.dry => /\ x.pc = "record" => x.st.lid = 0
                   /\ x.pc = "commit" => "lid" \notin x.upd.cols
    /\ ~x.st.dry =>
         /\ x.pc \in {"mark", "call", "record"} => row.lid = 0
         /\ x.pc \in {"call", "record"} => row.status = "publishing"
         /\ x.pc = "record" => shares \subseteq {x.st.lid}

RunInv == \A r \in Runs :
    /\ InStep(run[r], ckpt.next) /\ Starts(run[r])
    /\ Covered(run[r], rows[run[r].st.post], live)
DecidedInv ==
    ~Early /\ (ckpt.next # "approve" \/ \E r \in Runs : run[r].unsaved)
        => approval[thePost] # "pending"
ShareInv ==
    /\ \A p \in Posts : rows[p].lid # 0 =>
          p = thePost /\ ~ckpt.st.dry /\ ckpt.next \in {"publish", "finalize", "end"}
    /\ deleting # 0 /\ ckpt.next \notin {"finalize", "end"} =>
          rows[deleting].lid # 0 /\ live = {}

\* While the checkpoint still stands at publish, either the row names the share,
\* or the run that made it is about to record it, or the one fault is spent and
\* publish_node's guard, or its error, keeps everyone from publishing again, or
\* nobody will run the node again.
Accounted ==
    LET row == rows[thePost] IN
    \/ row.lid # 0 /\ live \subseteq {row.lid}
    \/ row.lid = 0 /\ \E r \in Runs : run[r].pc = "record"
    \/ /\ row.lid = 0 /\ faults = MaxFaults
       /\ row.status = "publishing" \/ \E r \in Runs : run[r].pc = "finalize"
    \/ row.lid = 0 /\ Unmet /\ \A r \in Runs : run[r].pc = "idle"
LiveInv ==
    live # {} =>
        /\ AtMostOnce /\ ~ckpt.st.dry /\ ckpt.next \in {"publish", "finalize", "end"}
        /\ \A r \in Runs : run[r].pc \notin {"mark", "call"}
        /\ ckpt.next = "publish" => Accounted
OnceInv == RunInv /\ StartInv /\ DecidedInv /\ ShareInv /\ LiveInv

LEMMA NoPostZero == \A p \in Posts : p # 0
  BY CountsAssumption DEF Posts

\* Nobody has published anything while the checkpoint stands before publish.
LEMMA Quiet ==
    ASSUME TypeOK, ShareInv, LiveInv, ckpt.next \notin {"publish", "finalize", "end"}
    PROVE  live = {} /\ deleting = 0 /\ \A p \in Posts : rows[p].lid = 0
  BY DEF TypeOK, ShareInv, LiveInv

LEMMA StaysQuiet ==
    ASSUME live' = {}, deleting' = 0, \A p \in Posts : rows'[p].lid = 0
    PROVE  ShareInv' /\ LiveInv'
  BY DEF ShareInv, LiveInv

\* The node that run r executes is the one the checkpoint names.
LEMMA Executes ==
    ASSUME RunInv, NEW r \in Runs, ~Idle(r), ~run[r].unsaved
    PROVE  ckpt.next = StandsAt(run[r])
  BY DEF RunInv, InStep, Idle

\* Only r runs.
LEMMA OneRunInv ==
    ASSUME OnceKept, NEW r \in Runs,
           InStep(run'[r], ckpt'.next), Starts(run'[r]), Unguarded(run'[r]) => Unmet',
           Covered(run'[r], rows'[run'[r].st.post], live')
    PROVE  RunInv' /\ StartInv'
  BY DEF OnceKept, RunInv, StartInv

LEMMA StaysUnmet ==
    ASSUME Unmet, UNCHANGED <<due, actioned, clicks, approval>>,
           \A p \in Posts : rows'[p].status \in {rows[p].status} \cup (Statuses \ {"scheduled"})
    PROVE  Unmet'
  <1>1. Waiting' = Waiting
    BY DEF Waiting
  <1> QED BY <1>1 DEF Unmet

\* Before the gate nobody can resume the thread.
LEMMA EarlyUnmet ==
    ASSUME PublicationInv, StageInv, Early
    PROVE  Unmet
  BY DEF PublicationInv, TypeOK, StageInv, EarlyShape, Met, Unmet

\* The nodes up to the gate.
LEMMA OnceOpening ==
    ASSUME OnceKept, PublicationInv, StageInv, OnceInv, NEW r \in Runs,
           ExtractEffect(r) \/ OpeningEffect(r)
    PROVE  OnceInv'
  <1>1. /\ ~Idle(r) /\ ~run[r].unsaved /\ Early /\ ckpt.next = StandsAt(run[r])
        /\ ckpt.next \in Opening /\ TypeOK
    BY Executes DEF ExtractEffect, OpeningEffect, Idle, StageInv, LateShape, Follows, Opening, Screened,
          OnceInv, StandsAt, PublicationInv
  <1>2. /\ UNCHANGED <<ckpt, live, deleting>>
        /\ run'[r].origin = run[r].origin /\ run'[r].resume = run[r].resume
        /\ run'[r].pc \in (Opening \ {"extract"}) \cup {"finalize", "approve", "wait_for_slot"}
    BY <1>1 DEF ExtractEffect, OpeningEffect, Steady, Returns, Goes, Moves, StageInv, UploadOnly,
          OnceInv, Opening, Screened
  <1>3. /\ live = {} /\ deleting = 0 /\ \A p \in Posts : rows[p].lid = 0
    BY <1>1, Quiet DEF OnceInv, Opening, Screened
  <1>4. \A p \in Posts : rows'[p].lid = 0
    BY <1>3 DEF ExtractEffect, OpeningEffect
  <1>5. ShareInv' /\ LiveInv'
    BY <1>2, <1>3, <1>4, StaysQuiet
  <1>6. DecidedInv'
    BY <1>1, <1>2 DEF DecidedInv, Early
  <1>7. InStep(run'[r], ckpt'.next)
    BY <1>1, <1>2 DEF InStep, ExtractEffect, OpeningEffect, Returns, Goes, Moves, StandsAt,
          Opening, Screened
  <1>8. Starts(run'[r]) /\ Unmet'
    <2>1. Unmet /\ UNCHANGED <<due, actioned, clicks, approval>>
      BY <1>1, EarlyUnmet DEF ExtractEffect, OpeningEffect, Steady
    <2>2. \A p \in Posts :
             rows'[p].status \in {rows[p].status, "processing", "rejected", "failed"}
      BY DEF ExtractEffect, OpeningEffect
    <2> QED BY <1>2, <2>1, <2>2, StaysUnmet DEF OnceInv, RunInv, Starts, Statuses
  <1>9. Covered(run'[r], rows'[run'[r].st.post], live')
    BY <1>2 DEF Covered, Opening, Screened
  <1> QED BY <1>2, <1>5, <1>6, <1>7, <1>8, <1>9, OneRunInv DEF OnceInv

\* approve_node, wait_for_slot_node and preview.
LEMMA OnceWaiting ==
    ASSUME OnceKept, PublicationInv, StageInv, OnceInv, NEW r \in Runs,
           GateEffect(r) \/ SlotEffect(r)
    PROVE  OnceInv'
  <1> DEFINE p == run[r].st.post
  <1>1. /\ ~Idle(r) /\ ~run[r].unsaved /\ ~Early /\ Follows(run[r], ckpt)
        /\ TypeOK /\ p \in Posts /\ p = thePost
    BY Behind DEF GateEffect, SlotEffect, Idle, Opening, Screened, Follows, thePost, PublicationInv
  <1>2. /\ ckpt.next = StandsAt(run[r])
        /\ ckpt.next \in {"approve", "wait_for_slot", "preview"}
    BY <1>1, Executes DEF OnceInv, GateEffect, SlotEffect, StandsAt
  <1>3. /\ UNCHANGED <<ckpt, live, deleting>>
        /\ \A q \in Posts : rows'[q].lid = rows[q].lid
        /\ run'[r].pc \in {"idle", "notify", "decide", "wait_for_slot", "preview", "publish", "finalize"}
    BY DEF GateEffect, SlotEffect, Steady, Returns, Goes, Moves, Ends, IdleRun, Gets, dbVars
  <1>4. live = {} /\ deleting = 0 /\ \A q \in Posts : rows[q].lid = 0
    BY <1>1, <1>2, Quiet DEF OnceInv
  <1>5. ShareInv' /\ LiveInv'
    BY <1>3, <1>4, StaysQuiet
  <1>6. DecidedInv'
    <2>1. CASE GateEffect(r)
      <3>1. run'[r].unsaved => approval'[p] # "pending"
        BY <1>1, <2>1 DEF GateEffect, Goes, Ends, IdleRun, TypeOK
      <3>2. ckpt.next = "approve" /\ \A q \in Runs : q = r
        BY <1>2, <2>1 DEF GateEffect, StandsAt, OnceKept
      <3> QED BY <1>1, <1>3, <3>1, <3>2 DEF DecidedInv, thePost
    <2>2. CASE SlotEffect(r)
      <3>1. ckpt.next # "approve" /\ UNCHANGED approval
        BY <1>2, <2>2 DEF SlotEffect, StandsAt
      <3> QED BY <1>1, <1>3, <3>1 DEF OnceInv, DecidedInv, thePost
    <2> QED BY <2>1, <2>2
  <1>7. InStep(run'[r], ckpt'.next)
    BY <1>2, <1>3 DEF GateEffect, SlotEffect, Returns, Goes, Moves, Ends, IdleRun, InStep, StandsAt
  <1>8. Starts(run'[r]) /\ (Unguarded(run'[r]) => Unmet')
    <2>1. Starts(run[r]) /\ (Unguarded(run[r]) => Unmet)
      BY DEF OnceInv, RunInv, StartInv
    <2>2. CASE GateEffect(r)
      BY <2>1, <2>2 DEF GateEffect, Returns, Goes, Moves, Ends, IdleRun, Starts, Unguarded, Passing
    <2>3. CASE SlotEffect(r)
      <3>1. CASE Ends(r)
        BY <3>1 DEF Ends, IdleRun, Starts, Unguarded, Passing
      <3>2. CASE ~Ends(r)
        <4>1. \E n \in {"preview", "publish"} : Returns(r, n)
          BY <2>3, <3>2 DEF SlotEffect
        <4>2. Starts(run'[r]) /\ (Unguarded(run'[r]) => Unguarded(run[r]))
          BY <2>1, <2>3, <4>1 DEF SlotEffect, Returns, Moves, Starts, Unguarded, Passing
        <4>3. run[r].origin = "start" => UNCHANGED rows
          BY <2>1, <2>3, <3>2 DEF SlotEffect, Starts
        <4>4. UNCHANGED <<due, actioned, clicks, approval>>
          BY <2>3 DEF SlotEffect, Steady
        <4> QED BY <2>1, <4>2, <4>3, <4>4, StaysUnmet DEF Unguarded
      <3> QED BY <3>1, <3>2
    <2> QED BY <2>2, <2>3
  <1>9. Covered(run'[r], rows'[run'[r].st.post], live')
    BY <1>3 DEF Covered
  <1> QED BY <1>3, <1>5, <1>6, <1>7, <1>8, <1>9, OneRunInv DEF OnceInv

\* The one fault.
LEMMA LastFault ==
    ASSUME OnceKept, TypeOK, faults < MaxFaults, faults' = faults + 1
    PROVE  faults' = MaxFaults
  BY CountsAssumption DEF OnceKept, TypeOK

\* publish_node.
LEMMA OncePublishing ==
    ASSUME OnceKept, PublicationInv, StageInv, OnceInv, NEW r \in Runs, PublishEffect(r)
    PROVE  OnceInv'
  <1> DEFINE p == run[r].st.post
  <1>1. /\ ~Idle(r) /\ ~run[r].unsaved /\ ~Early /\ Follows(run[r], ckpt)
        /\ TypeOK /\ p \in Posts /\ p = thePost /\ run[r].st.dry = ckpt.st.dry
        /\ run[r].pc \in {"publish", "mark", "call"}
    BY Behind DEF PublishEffect, Idle, Opening, Screened, Follows, thePost, PublicationInv
  <1>2. ckpt.next = "publish"
    BY <1>1, Executes DEF OnceInv, StandsAt
  <1>3. /\ UNCHANGED <<ckpt, deleting, approval>> /\ thePost' = thePost
        /\ \A q \in Posts : rows'[q].lid = rows[q].lid
        /\ run'[r].pc \in {"mark", "call", "record", "finalize"}
        /\ run'[r].st.post = p /\ run'[r].st.dry = run[r].st.dry
        /\ run'[r].origin = run[r].origin /\ run'[r].resume = run[r].resume
    BY DEF PublishEffect, Steady, Returns, Goes, Moves, Gets, thePost
  <1>4. DecidedInv'
    BY <1>1, <1>2, <1>3 DEF OnceInv, DecidedInv
  <1>5. /\ InStep(run[r], ckpt.next) /\ Starts(run[r])
        /\ Covered(run[r], rows[p], live)
    BY DEF OnceInv, RunInv
  <1>6. InStep(run'[r], ckpt'.next)
    BY <1>2, <1>3 DEF PublishEffect, Returns, Goes, Moves, InStep, StandsAt
  <1>7. Starts(run'[r]) /\ (Unguarded(run'[r]) => Unmet')
    <2>1. UNCHANGED <<due, actioned, clicks>>
      BY DEF PublishEffect, Steady
    <2>2. \A q \in Posts : rows'[q].status \in {rows[q].status, "publishing", "failed"}
      BY <1>1 DEF PublishEffect, Gets
    <2>3. Unguarded(run'[r]) => Unguarded(run[r])
      BY <1>1, <1>3 DEF Unguarded, Passing
    <2>4. Unguarded(run[r]) => Unmet
      BY DEF OnceInv, StartInv
    <2> QED BY <1>3, <1>5, <2>1, <2>2, <2>3, <2>4, StaysUnmet DEF Starts, Statuses
  <1>8. run[r].st.dry \/ run[r].pc \in {"mark", "call"} => live = {}
    BY <1>1 DEF OnceInv, LiveInv
  <1>9. ASSUME Covered(run'[r], rows'[p], live'), ShareInv', LiveInv'
        PROVE  OnceInv'
    BY <1>3, <1>4, <1>6, <1>7, <1>9, OneRunInv DEF OnceInv
  <1>10. UNCHANGED live => ShareInv'
    BY <1>1, <1>3 DEF OnceInv, ShareInv, TypeOK
  <1>11. rows[p].lid = 0 => deleting = 0
    BY <1>1, <1>2 DEF OnceInv, ShareInv, TypeOK
  <1>12. deleting = 0 => ShareInv'
    BY <1>3 DEF OnceInv, ShareInv
  <1>13. CASE run[r].st.dry /\ UNCHANGED live
    <2>1. Covered(run'[r], rows'[p], live')
      BY <1>1, <1>3, <1>13 DEF Covered, PublishEffect, Goes, Returns, Moves
    <2>2. LiveInv'
      BY <1>8, <1>13 DEF LiveInv
    <2> QED BY <1>9, <1>10, <1>13, <2>1, <2>2
  <1>14. CASE run[r].pc = "publish" /\ ~run[r].st.dry
    <2>1. UNCHANGED <<live, faults>>
      BY <1>14 DEF PublishEffect
    <2>2. live # {} => Accounted
      BY <1>2 DEF OnceInv, LiveInv
    <2>3. run'[r].pc \in {"mark", "finalize"}
      BY <1>14 DEF PublishEffect, Returns, Goes, Moves
    <2>4. run'[r].pc = "mark" => rows[p].lid = 0
      BY <1>14 DEF PublishEffect, Returns, Moves
    <2>5. Covered(run'[r], rows'[p], live')
      BY <1>1, <1>3, <1>14, <2>3, <2>4 DEF Covered
    <2>6. live # {} => Accounted' /\ run'[r].pc = "finalize"
      <3> SUFFICES ASSUME live # {} PROVE Accounted' /\ run'[r].pc = "finalize"
        OBVIOUS
      <3>1. \A q \in Runs : q = r
        BY DEF OnceKept
      <3>2. CASE rows[p].lid # 0
        <4>1. run'[r].pc = "finalize"
          BY <1>14, <3>2 DEF PublishEffect, Returns, Moves
        <4> QED BY <1>1, <1>3, <2>1, <2>2, <3>2, <4>1 DEF Accounted
      <3>3. CASE rows[p].lid = 0
        <4>1. rows[p].status = "publishing" /\ faults = MaxFaults
          BY <1>1, <1>14, <2>2, <3>1, <3>3 DEF Accounted, Idle
        <4>2. run'[r].pc = "finalize"
          BY <1>14, <3>3, <4>1 DEF PublishEffect, Returns, Moves
        <4> QED BY <1>1, <1>3, <2>1, <3>3, <4>1, <4>2 DEF Accounted
      <3> QED BY <3>2, <3>3
    <2>7. LiveInv'
      <3>1. \A q \in Runs : q = r
        BY DEF OnceKept
      <3> QED BY <1>3, <2>1, <2>6, <3>1 DEF OnceInv, LiveInv, AtMostOnce
    <2> QED BY <1>9, <1>10, <2>1, <2>5, <2>7
  <1>15. CASE run[r].pc \in {"mark", "call"} /\ ~run[r].st.dry
    <2>1. rows[p].lid = 0 /\ live = {} /\ rows'[p].lid = 0 /\ deleting = 0
      BY <1>1, <1>3, <1>5, <1>8, <1>11, <1>15 DEF Covered
    <2>2. Covered(run'[r], rows'[p], live')
      BY <1>1, <1>3, <1>5, <1>15, <2>1 DEF Covered, PublishEffect, Goes, Returns, Moves, Gets
    <2>3. LiveInv'
      <3>1. CASE live' = {}
        BY <3>1 DEF LiveInv
      <3>2. CASE live' # {}
        <4>1. PICK i \in ShareIds : live' = {i}
          BY <1>15, <2>1, <3>2 DEF PublishEffect
        <4>2. run'[r].pc = "record" \/ (run'[r].pc = "finalize" /\ faults' = MaxFaults)
          BY <1>1, <1>15, <2>1, <3>2, LastFault DEF PublishEffect, Goes, Returns, Moves
        <4>3. Accounted'
          BY <1>1, <1>3, <2>1, <4>2 DEF Accounted
        <4>4. \A q \in Runs : q = r
          BY DEF OnceKept
        <4> QED BY <1>1, <1>2, <1>3, <1>15, <4>1, <4>2, <4>3, <4>4 DEF LiveInv, AtMostOnce
      <3> QED BY <3>1, <3>2
    <2> QED BY <1>9, <1>12, <2>1, <2>2, <2>3
  <1>16. run[r].st.dry => UNCHANGED live
    BY <1>1 DEF PublishEffect
  <1> QED BY <1>1, <1>13, <1>14, <1>15, <1>16

\* publish_node's record and finalize_node.
LEMMA OnceClosing ==
    ASSUME OnceKept, PublicationInv, StageInv, OnceInv, NEW r \in Runs, ClosingEffect(r)
    PROVE  OnceInv'
  <1> DEFINE p == run[r].st.post
  <1>1. /\ ~Idle(r) /\ ~run[r].unsaved /\ ~Early /\ Follows(run[r], ckpt)
        /\ TypeOK /\ p \in Posts /\ p = thePost /\ run[r].st.dry = ckpt.st.dry
        /\ \A q \in Runs : q = r
    BY Behind DEF ClosingEffect, Idle, Opening, Screened, Follows, thePost, PublicationInv, OnceKept
  <1>2. /\ run[r].pc \in {"record", "finalize", "commit"}
        /\ ckpt.next = IF run[r].pc = "record" THEN "publish" ELSE "finalize"
    BY <1>1, Executes DEF OnceInv, StandsAt, ClosingEffect
  <1>3. /\ UNCHANGED <<ckpt, deleting, approval, live, faults>>
        /\ thePost' = thePost
        /\ run'[r].pc = CASE run[r].pc = "record" -> "finalize"
                          [] run[r].pc = "finalize" -> "commit"
                          [] OTHER -> "end"
        /\ run'[r].origin = run[r].origin /\ run'[r].resume = run[r].resume
        /\ \A q \in Posts \ {p} : rows'[q] = rows[q]
    BY DEF ClosingEffect, Steady, Returns, Goes, Moves, thePost
  <1>4. DecidedInv'
    BY <1>1, <1>2, <1>3 DEF OnceInv, DecidedInv
  <1>5. InStep(run'[r], ckpt'.next) /\ Starts(run'[r]) /\ ~Unguarded(run'[r])
    BY <1>2, <1>3 DEF OnceInv, RunInv, ClosingEffect, Returns, Goes, InStep, StandsAt, Starts,
          Unguarded, Passing
  <1>6. Covered(run'[r], rows'[run'[r].st.post], live')
    BY <1>2, <1>3 DEF Covered, ClosingEffect
  <1>7. rows'[p].lid # rows[p].lid => ~run[r].st.dry
    BY DEF ClosingEffect, OnceInv, RunInv, Covered
  <1>8. CASE run[r].pc = "record" /\ ~run[r].st.dry
    <2>1. run[r].st.lid # 0 /\ rows'[p].lid = run[r].st.lid /\ rows[p].lid = 0
          /\ live \subseteq {run[r].st.lid}
      BY <1>8 DEF ClosingEffect, OnceInv, RunInv, Covered, PublicationInv, RunsSound, Sound
    <2>2. deleting = 0
      BY <1>1, <1>2, <1>8, <2>1 DEF OnceInv, ShareInv, TypeOK
    <2>3. ShareInv'
      BY <1>1, <1>2, <1>3, <1>8, <2>1, <2>2 DEF OnceInv, ShareInv
    <2>4. Accounted'
      BY <1>1, <1>3, <2>1 DEF Accounted
    <2>5. LiveInv'
      BY <1>1, <1>3, <2>4 DEF OnceInv, LiveInv, AtMostOnce
    <2> QED BY <1>3, <1>4, <1>5, <1>6, <2>3, <2>5, OneRunInv DEF OnceInv
  <1>9. CASE run[r].pc \in {"finalize", "commit"} /\ ~run[r].st.dry
    <2>1. ShareInv'
      BY <1>1, <1>2, <1>3, <1>9 DEF OnceInv, ShareInv
    <2>2. LiveInv'
      BY <1>1, <1>2, <1>3, <1>9 DEF OnceInv, LiveInv, AtMostOnce
    <2> QED BY <1>3, <1>4, <1>5, <1>6, <2>1, <2>2, OneRunInv DEF OnceInv
  <1>10. CASE run[r].st.dry
    <2>1. \A q \in Posts : rows'[q].lid = rows[q].lid
      BY <1>3, <1>7, <1>10
    <2>2. live = {} /\ live' = {}
      BY <1>1, <1>3, <1>10 DEF OnceInv, LiveInv
    <2>3. ShareInv' /\ LiveInv'
      BY <1>1, <1>3, <2>1, <2>2 DEF OnceInv, ShareInv, LiveInv, TypeOK
    <2> QED BY <1>3, <1>4, <1>5, <1>6, <2>3, OneRunInv DEF OnceInv
  <1> QED BY <1>8, <1>9, <1>10 DEF ClosingEffect

LEMMA OnceSaves ==
    ASSUME OnceKept, PublicationInv, StageInv, StageInv', OnceInv, NEW r \in Runs, SaveEffect(r)
    PROVE  OnceInv'
  <1>1. /\ ckpt'.next = run[r].pc /\ ckpt'.st = run[r].st /\ ~Idle(r) /\ run[r].unsaved
        /\ run[r].pc \in Nodes \cup {"end"}
        /\ UNCHANGED <<rows, approval, live, deleting, faults>>
        /\ TypeOK /\ \A q \in Runs : q = r
    BY DEF SaveEffect, StageInv, UploadOnly, Ends, Idle, Nodes, PublicationInv, OnceKept
  <1>2. \/ run'[r] = IdleRun
        \/ /\ run'[r].pc = run[r].pc /\ run'[r].st = run[r].st
           /\ run'[r].resume = "none" /\ ~run'[r].unsaved /\ run'[r].origin = run[r].origin
    BY DEF SaveEffect, Ends
  <1>3. InStep(run'[r], ckpt'.next)
    BY <1>1, <1>2 DEF InStep, StandsAt, IdleRun, Nodes
  <1>4. Starts(run'[r]) /\ (Unguarded(run'[r]) => Unmet')
    <2>1. Unguarded(run'[r]) => Unguarded(run[r])
      BY <1>2 DEF Unguarded, IdleRun, Passing
    <2>2. Unguarded(run[r]) => Unmet
      BY DEF OnceInv, StartInv
    <2>3. UNCHANGED <<due, actioned, clicks, approval, rows>>
      BY DEF SaveEffect
    <2> QED BY <1>2, <2>1, <2>2, <2>3, StaysUnmet DEF OnceInv, RunInv, Starts, IdleRun
  <1>5. Covered(run'[r], rows'[run'[r].st.post], live')
    BY <1>1, <1>2 DEF Covered, IdleRun, Nodes
  <1>6. ~Early => run[r].st.post = thePost /\ run[r].st.dry = ckpt.st.dry
    BY <1>1 DEF StageInv, LateShape, Follows, thePost
  <1>7. DecidedInv'
    <2>1. CASE Early'
      BY <2>1 DEF DecidedInv
    <2>2. CASE ~Early' /\ Early
      <3>1. thePost' \in Posts
        BY <2>2 DEF StageInv, LateShape
      <3> QED BY <1>1, <2>2, <3>1 DEF DecidedInv, StageInv, EarlyShape, Met
    <2>3. CASE ~Early' /\ ~Early
      BY <1>1, <1>6, <2>3 DEF OnceInv, DecidedInv, thePost
    <2> QED BY <2>1, <2>2, <2>3
  <1>8. CASE ckpt.next \notin {"publish", "finalize", "end"}
    <2>1. ShareInv' /\ LiveInv'
      BY <1>1, <1>8, Quiet, StaysQuiet DEF OnceInv
    <2> QED BY <1>1, <1>3, <1>4, <1>5, <1>7, <2>1, OneRunInv DEF OnceInv
  <1>9. CASE ckpt.next \in {"publish", "finalize", "end"}
    <2>1. ~Early /\ ckpt'.next \in {"finalize", "end"} /\ thePost' = thePost
          /\ ckpt'.st.dry = ckpt.st.dry
      BY <1>1, <1>6, <1>9 DEF OnceInv, RunInv, InStep, Early, Opening, Screened, thePost
    <2>2. ShareInv'
      BY <1>1, <2>1 DEF OnceInv, ShareInv
    <2>3. run'[r].pc \in {"idle", "finalize", "end"}
      BY <1>1, <1>2, <2>1 DEF IdleRun
    <2>4. LiveInv'
      BY <1>1, <2>1, <2>3 DEF OnceInv, LiveInv, AtMostOnce
    <2> QED BY <1>1, <1>3, <1>4, <1>5, <1>7, <2>2, <2>4, OneRunInv DEF OnceInv
  <1> QED BY <1>8, <1>9

\* The run dies, of an exception or with the process.
LEMMA OnceDies ==
    ASSUME OnceKept, PublicationInv, StageInv, OnceInv, NEW r \in Runs,
           (RaiseEffect(r) \/ CrashEffect)
    PROVE  OnceInv'
  <1>1. /\ UNCHANGED <<ckpt, approval, live>> /\ thePost' = thePost
        /\ run'[r] = IdleRun /\ deleting' \in {0, deleting}
        /\ \A q \in Posts : rows'[q].lid = rows[q].lid
        /\ TypeOK /\ \A q \in Runs : q = r
    BY DEF RaiseEffect, CrashEffect, Steady, Ends, Fails, thePost, PublicationInv, OnceKept
  <1>2. InStep(run'[r], ckpt'.next) /\ Starts(run'[r]) /\ ~Unguarded(run'[r])
        /\ Covered(run'[r], rows'[run'[r].st.post], live')
    BY <1>1 DEF InStep, Starts, Unguarded, Passing, Covered, IdleRun
  <1>3. DecidedInv'
    BY <1>1 DEF OnceInv, DecidedInv, Early, IdleRun
  <1>4. ShareInv'
    BY <1>1 DEF OnceInv, ShareInv, TypeOK
  <1>5. LiveInv'
    <2> SUFFICES ASSUME live # {}, ckpt.next = "publish" PROVE Accounted'
      BY <1>1 DEF OnceInv, LiveInv, AtMostOnce, IdleRun
    <2>1. Accounted /\ ~ckpt.st.dry /\ ~Early /\ thePost \in Posts
      BY DEF OnceInv, LiveInv, Early, Opening, Screened, StageInv, LateShape
    <2>2. faults < MaxFaults /\ faults' = MaxFaults
      <3>1. faults < MaxFaults /\ faults' = faults + 1
        BY <2>1 DEF RaiseEffect, CrashEffect, StageInv, LateShape, Follows, Opening, Screened, Idle
      <3> QED BY <1>1, <3>1, LastFault
    <2>3. rows[thePost].lid # 0 => Accounted'
      BY <1>1, <2>1 DEF Accounted
    <2>4. ASSUME Unmet PROVE Unmet'
      <3>1. /\ due' \in {due, {}} /\ Waiting' \in {Waiting, {}}
            /\ \A q \in Posts : rows'[q].status \in {rows[q].status, "failed"}
        BY DEF RaiseEffect, CrashEffect, Steady, Fails, Waiting
      <3> QED BY <1>1, <2>4, <3>1 DEF Unmet
    <2>5. CASE rows[thePost].lid = 0 /\ ~Idle(r)
      <3>1. run[r].pc = "record"
        BY <1>1, <2>1, <2>2, <2>5, CountsAssumption DEF Accounted, TypeOK, Idle
      <3>2. Follows(run[r], ckpt)
        BY <2>1, <2>5 DEF StageInv, LateShape
      <3>3. CASE run[r].origin = "start"
        <4>1. Unguarded(run[r])
          BY <2>1, <3>1, <3>2, <3>3 DEF Unguarded, Follows
        <4> QED BY <1>1, <2>1, <2>4, <2>5, <4>1 DEF OnceInv, StartInv, Accounted, IdleRun
      <3>4. CASE run[r].origin # "start"
        <4>1. rows[thePost].status = "publishing" /\ run[r].origin \notin {"start", "retry"}
          BY <2>1, <3>1, <3>2, <3>4 DEF OnceInv, RunInv, Covered, Starts, Follows, thePost
        <4>2. rows'[thePost] = rows[thePost]
          BY <2>1, <4>1 DEF RaiseEffect, CrashEffect
        <4> QED BY <1>1, <2>2, <2>5, <4>1, <4>2 DEF Accounted
      <3> QED BY <3>3, <3>4
    <2>6. CASE rows[thePost].lid = 0 /\ Idle(r)
      <3>1. Unmet \/ faults = MaxFaults
        BY <1>1, <2>1, <2>6 DEF Accounted, Idle
      <3> QED BY <1>1, <2>1, <2>2, <2>4, <2>6, <3>1, CountsAssumption DEF Accounted, IdleRun, TypeOK
    <2> QED BY <2>3, <2>5, <2>6
  <1> QED BY <1>1, <1>2, <1>3, <1>4, <1>5, OneRunInv DEF OnceInv

LEMMA OnceHandlerSteps ==
    ASSUME OnceKept, PublicationInv, StageInv, OnceInv, NEW r \in Runs, HandlerEffect(r)
    PROVE  OnceInv'
  <1>0. TypeOK /\ \A q \in Runs : q = r
    BY DEF PublicationInv, OnceKept
  <1>1. CASE StartEffect(r)
    <2>1. ckpt.next = "unused"
      BY <1>1 DEF StartEffect, OnceKept, OneStart
    <2>2. ShareInv' /\ LiveInv'
      BY <1>0, <1>1, <2>1, Quiet, StaysQuiet DEF StartEffect, OnceInv
    <2>3. InStep(run'[r], ckpt'.next) /\ Starts(run'[r]) /\ ~Unguarded(run'[r])
          /\ Covered(run'[r], rows'[run'[r].st.post], live')
      BY <1>1 DEF StartEffect, InStep, Starts, Unguarded, Covered, StandsAt, Passing
    <2>4. DecidedInv'
      BY <1>1 DEF StartEffect, DecidedInv, Early, Opening, Screened, OnceInv
    <2> QED BY <2>2, <2>3, <2>4, OneRunInv DEF OnceInv
  <1>2. CASE FreshEffect(r)
    BY <1>2 DEF FreshEffect, OnceKept, OneStart
  <1>3. ASSUME NEW origin \in {"decision", "approvals_job", "scheduled_job"}, NEW v,
               Wakes(r, origin, v),
               UNCHANGED <<rows, approval, live, ckpt, deleting, faults>>, ~Unmet
        PROVE  OnceInv'
    <2>1. CASE Resumes(r, origin, v)
      <3>1. /\ run'[r].pc = ckpt.next /\ ~run'[r].unsaved /\ ckpt.next \in Nodes
            /\ run'[r].origin \notin {"start", "retry"} /\ run[r].pc = "idle"
            /\ thePost' = thePost
        BY <1>3, <2>1 DEF Resumes, Idle, thePost
      <3>2. InStep(run'[r], ckpt'.next) /\ Starts(run'[r]) /\ ~Unguarded(run'[r])
            /\ Covered(run'[r], rows'[run'[r].st.post], live')
        BY <1>3, <3>1 DEF InStep, Starts, Unguarded, Covered, StandsAt, Nodes
      <3>3. DecidedInv' /\ ShareInv'
        BY <1>0, <1>3, <3>1 DEF OnceInv, DecidedInv, ShareInv, Early
      <3>4. Accounted => Accounted'
        BY <1>0, <1>3, <3>1 DEF Accounted
      <3>5. LiveInv'
        BY <1>0, <1>3, <3>1, <3>4 DEF OnceInv, LiveInv, AtMostOnce, Nodes
      <3> QED BY <1>3, <3>2, <3>3, <3>5, OneRunInv DEF OnceInv
    <2>2. CASE UNCHANGED run
      BY <1>3, <2>2 DEF OnceInv, RunInv, StartInv, DecidedInv, ShareInv, LiveInv, Accounted,
            AtMostOnce, Early, thePost
    <2> QED BY <1>3, <2>1, <2>2 DEF Wakes
  <1>4. ASSUME NEW origin \in Tellers, NEW p \in Posts, NEW d \in Decisions,
               TellEffect(r, origin, p, d)
        PROVE  OnceInv'
    BY <1>3, <1>4 DEF TellEffect, Tellers, Unmet
  <1>5. ASSUME NEW p \in due, DueEffect(r, p)
        PROVE  OnceInv'
    BY <1>3, <1>5 DEF DueEffect, Unmet
  <1> QED BY <1>1, <1>2, <1>4, <1>5 DEF HandlerEffect

LEMMA OnceOutsideSteps ==
    ASSUME OnceKept, PublicationInv, StageInv, OnceInv, OutsideEffect
    PROVE  OnceInv'
  <1>0. TypeOK
    BY DEF PublicationInv
  \* The row of the post that run r publishes: the approval is decided.
  <1>1. ASSUME NEW r \in Runs, run[r].pc \in {"mark", "call", "record"}
        PROVE  /\ ckpt.next = "publish" /\ ~Early /\ run[r].st.post = thePost
               /\ thePost \in Posts
    <2>1. ~run[r].unsaved /\ ~Idle(r)
      BY <1>1 DEF PublicationInv, RunsSound, Nodes, Idle
    <2> QED BY <1>1, <2>1, Executes, Behind DEF OnceInv, StandsAt, Opening, Screened, Follows, thePost,
          StageInv, LateShape
  <1>2. ASSUME UNCHANGED <<ckpt, run, live>>, deleting' \in {0, deleting},
               faults' = faults \/ faults < MaxFaults,
               \A p \in Posts : rows'[p].lid = rows[p].lid,
               ~Early /\ ckpt.next # "approve" => rows'[thePost].status = rows[thePost].status,
               ~Early /\ approval[thePost] # "pending" => approval'[thePost] # "pending",
               Unmet => Unmet'
        PROVE  OnceInv'
    <2>1. \A r \in Runs : Covered(run[r], rows'[run[r].st.post], live)
      <3> SUFFICES ASSUME NEW r \in Runs PROVE Covered(run[r], rows'[run[r].st.post], live)
        OBVIOUS
      <3>1. Covered(run[r], rows[run[r].st.post], live)
        BY DEF OnceInv, RunInv
      <3>2. CASE run[r].pc \in {"mark", "call", "record"}
        BY <1>1, <1>2, <3>1, <3>2 DEF Covered
      <3>3. CASE run[r].pc \notin {"mark", "call", "record"}
        BY <3>1, <3>3 DEF Covered
      <3> QED BY <3>2, <3>3
    <2>2. RunInv' /\ StartInv'
      BY <1>2, <2>1 DEF OnceInv, RunInv, StartInv
    <2>3. DecidedInv'
      BY <1>2 DEF OnceInv, DecidedInv, Early, thePost
    <2>4. ShareInv'
      BY <1>0, <1>2 DEF OnceInv, ShareInv, thePost, TypeOK
    <2>5. ckpt.next = "publish" => ~Early /\ thePost \in Posts
      BY DEF Early, Opening, Screened, StageInv, LateShape
    <2>6. ASSUME ckpt.next = "publish", Accounted
          PROVE  Accounted'
      <3>1. /\ thePost' = thePost /\ rows'[thePost].lid = rows[thePost].lid
            /\ rows'[thePost].status = rows[thePost].status
        BY <1>2, <2>5, <2>6 DEF thePost
      <3>2. faults = MaxFaults => faults' = MaxFaults
        BY <1>0, <1>2, CountsAssumption DEF TypeOK
      <3> QED BY <1>2, <2>6, <3>1, <3>2 DEF Accounted
    <2>7. LiveInv'
      BY <1>2, <2>5, <2>6 DEF OnceInv, LiveInv, AtMostOnce
    <2> QED BY <1>2, <2>2, <2>3, <2>4, <2>7 DEF OnceInv
  <1>3. CASE PollEffect
    <2>1. ~Early => thePost \in Posts
      BY DEF StageInv, LateShape
    <2>2. ~Early /\ ckpt.next # "approve" => approval[thePost] # "pending"
      BY DEF OnceInv, DecidedInv
    <2>3. "sheet" \notin Ops
      BY DEF OnceKept
    <2>4. ~Unmet
      BY <1>3 DEF PollEffect, Unmet
    <2> QED BY <1>2, <1>3, <2>1, <2>2, <2>3, <2>4 DEF PollEffect, Polled
  <1>4. CASE \/ PollDueEffect \/ RescheduleEffect \/ WorldEffect \/ AcceptEffect
             \/ LoseEffect \/ DeleteReadsEffect
    <2>1. ~Early => thePost \in Posts
      BY DEF StageInv, LateShape
    <2>2. Unmet => Unmet'
      <3>1. CASE AcceptEffect \/ LoseEffect
        BY <3>1 DEF AcceptEffect, LoseEffect, Unmet
      <3>2. CASE ~(AcceptEffect \/ LoseEffect)
        <4>1. Waiting' = Waiting
          BY <1>4, <3>2 DEF PollDueEffect, RescheduleEffect, WorldEffect, DeleteReadsEffect, Waiting
        <4> QED BY <1>4, <3>2, <4>1 DEF PollDueEffect, RescheduleEffect, WorldEffect,
              DeleteReadsEffect, Unmet, DuePosts
      <3> QED BY <3>1, <3>2
    <2> QED BY <1>2, <1>4, <2>1, <2>2 DEF PollDueEffect, RescheduleEffect, WorldEffect,
          AcceptEffect, LoseEffect, DeleteReadsEffect
  <1>5. CASE DeleteShareEffect
    <2>1. PICK p \in Posts : rows[p].lid # 0 /\ live' = live \ {rows[p].lid} /\ deleting' = p
      BY <1>5 DEF DeleteShareEffect
    <2>2. UNCHANGED <<rows, approval, ckpt, run, faults>>
      BY <1>5 DEF DeleteShareEffect
    <2>3. p = thePost /\ ckpt.next \in {"publish", "finalize", "end"}
      BY <2>1 DEF OnceInv, ShareInv
    <2>4. RunInv' /\ StartInv'
      BY <1>5, <2>1, <2>2 DEF OnceInv, RunInv, StartInv, Covered, DeleteShareEffect, Unmet, Waiting
    <2>5. DecidedInv'
      BY <2>2 DEF OnceInv, DecidedInv, Early, thePost
    <2>6. ckpt.next = "publish" => live' = {}
      BY <2>1, <2>3 DEF OnceInv, LiveInv, Accounted
    <2>7. ShareInv'
      BY <2>1, <2>2, <2>3, <2>6 DEF OnceInv, ShareInv, thePost
    <2>8. LiveInv'
      BY <2>1, <2>2, <2>6 DEF OnceInv, LiveInv, AtMostOnce
    <2> QED BY <2>2, <2>4, <2>5, <2>7, <2>8 DEF OnceInv
  <1>6. CASE DeleteCommitsEffect
    <2>1. /\ deleting \in Posts /\ deleting # 0 /\ deleting' = 0
          /\ rows'[deleting].lid \in {rows[deleting].lid, 0} /\ \A q \in Posts \ {deleting} : rows'[q] = rows[q]
          /\ UNCHANGED <<approval, live, ckpt, run, faults>>
      BY <1>6, NoPostZero DEF DeleteCommitsEffect
    <2>2. ckpt.next = "publish" => rows[deleting].lid # 0 /\ live = {} /\ deleting = thePost
      BY <2>1 DEF OnceInv, ShareInv
    <2>3. \A r \in Runs : Covered(run[r], rows'[run[r].st.post], live)
      <3> SUFFICES ASSUME NEW r \in Runs PROVE Covered(run[r], rows'[run[r].st.post], live)
        OBVIOUS
      <3>1. Covered(run[r], rows[run[r].st.post], live)
        BY DEF OnceInv, RunInv
      <3>2. CASE run[r].pc \in {"mark", "call", "record"}
        <4>1. ~run[r].st.dry => rows[thePost].lid = 0
          BY <1>1, <3>1, <3>2 DEF Covered
        <4>2. run[r].st.dry
          BY <1>1, <2>2, <3>2, <4>1
        <4> QED BY <3>1, <4>2 DEF Covered
      <3>3. CASE run[r].pc \notin {"mark", "call", "record"}
        BY <3>1, <3>3 DEF Covered
      <3> QED BY <3>2, <3>3
    <2>4. RunInv' /\ StartInv'
      <3>1. Unmet => Unmet'
        BY <1>6, <2>1 DEF DeleteCommitsEffect, Unmet, Waiting
      <3> QED BY <2>1, <2>3, <3>1 DEF OnceInv, RunInv, StartInv
    <2>5. DecidedInv'
      BY <2>1 DEF OnceInv, DecidedInv, Early, thePost
    <2>6. ShareInv'
      BY <2>1 DEF OnceInv, ShareInv, thePost
    <2>7. LiveInv'
      BY <2>1, <2>2 DEF OnceInv, LiveInv, AtMostOnce
    <2> QED BY <2>1, <2>4, <2>5, <2>6, <2>7 DEF OnceInv
  <1>7. CASE CrashEffect
    <2>1. CASE Runs = {}
      <3>1. live = {} \/ ~(ckpt.next = "publish") \/ rows[thePost].lid # 0 \/ Unmet
        BY <1>7, <2>1, CountsAssumption DEF CrashEffect, OnceInv, LiveInv, Accounted, PublicationInv, TypeOK
      <3>2. /\ UNCHANGED <<ckpt, approval, live, rows>> /\ deleting' = 0
        BY <1>7 DEF CrashEffect
      <3>3. RunInv' /\ StartInv' /\ DecidedInv' /\ ShareInv'
        BY <2>1, <3>2 DEF OnceInv, RunInv, StartInv, DecidedInv, ShareInv, Early, thePost
      <3>4. Unmet => Unmet'
        BY <1>7, <3>2 DEF CrashEffect, Unmet
      <3>5. LiveInv'
        BY <2>1, <3>1, <3>2, <3>4 DEF OnceInv, LiveInv, Accounted, AtMostOnce, thePost
      <3> QED BY <3>2, <3>3, <3>5 DEF OnceInv
    <2>2. CASE Runs # {}
      BY <1>7, <2>2, OnceDies
    <2> QED BY <2>1, <2>2
  <1> QED BY <1>3, <1>4, <1>5, <1>6, <1>7 DEF OutsideEffect

LEMMA OnceStep ==
    ASSUME OnceKept, PublicationInv, StageInv, StageInv', OnceInv, [Next]_vars
    PROVE  OnceInv'
  BY StepEffects, OnceOpening, OnceWaiting, OncePublishing, OnceClosing, OnceSaves, OnceDies,
     OnceHandlerSteps, OnceOutsideSteps DEF RunEffect

\* publish.py, "so we never post the same content twice": under OnceKept
\* LinkedIn shows at most one share at any time, whatever the exception, crash,
\* lost reply or deletion hits.
THEOREM OnceSound ==
    ASSUME OnceKept
    PROVE  Spec => []AtMostOnce
  <1>0. Init => OnceInv
    BY DEF Init, OnceInv, OnceKept, RunInv, StartInv, InStep, Starts, Unguarded, Passing, Covered,
           DecidedInv, Early, ShareInv, LiveInv, IdleRun, NoState, NoRow
  <1>1. Init => PublicationInv /\ StageInv /\ OnceInv
    BY <1>0, InitInv, StageInit
  <1>2. PublicationInv /\ StageInv /\ OnceInv /\ [Next]_vars
          => (PublicationInv /\ StageInv /\ OnceInv)'
    BY StepInv, StageStep, OnceStep DEF OnceKept
  <1>3. OnceInv => AtMostOnce
    BY DEF OnceInv, LiveInv, AtMostOnce
  <1> QED BY <1>1, <1>2, <1>3, PTL DEF Spec

-----------------------------------------------------------------------------
(* Rejections *)

\* One run at a time, and approval required; the upload may be restarted, its
\* posts retried, and any route or the Sheet may decide, in time or late.
RejectionKept == NeedApproval /\ "toggle" \notin Ops /\ \A q, r \in Runs : q = r

\* What humans said about a post, or a stray resume, lets it go out.
Heard(s) == "rejected" \notin s \/ "stray" \in s

\* A run of a retry's thread goes no further than the gate.
FreshStops(x) ==
    x.thread = "fresh" =>
        /\ x.resume = "none"
        /\ ~x.st.skip /\ ~x.st.dry => x.pc \notin Passing

\* A run of the upload's thread passes the gate when the words s allow it.
Gate == {"approve", "notify", "decide"}
Heeds(x, s) ==
    x.thread = "upload" =>
        /\ ~x.st.skip
        /\ ~x.st.dry /\ x.pc \in Passing => Heard(s)
        /\ ~x.unsaved /\ x.pc \in Gate /\ x.resume \in {"approved", "true"} => Heard(s)

RejectionInv ==
    /\ requireApproval /\ ~ckpt.st.skip
    /\ ckpt.next \in Passing /\ ~ckpt.st.dry => Heard(said[thePost])
    /\ \A r \in Runs : FreshStops(run[r]) /\ Heeds(run[r], said[run[r].st.post])

\* A step that leaves the saved checkpoint alone, and takes nobody's word back.
LEMMA RejectionMoves ==
    ASSUME PublicationInv, RejectionInv, UNCHANGED <<ckpt, requireApproval>>,
           \A p \in Posts : Heard(said[p]) => Heard(said'[p]),
           \A r \in Runs : FreshStops(run'[r]) /\ Heeds(run'[r], said'[run'[r].st.post])
    PROVE  RejectionInv'
  <1>1. ckpt.next \in Passing => thePost \in Posts
    BY DEF PublicationInv, CkptSound, Sound, thePost, Passing
  <1>2. thePost' = thePost
    BY DEF thePost
  <1> QED BY <1>1, <1>2 DEF RejectionInv

LEMMA IdleHeeds ==
    ASSUME NEW s
    PROVE  FreshStops(IdleRun) /\ Heeds(IdleRun, s)
  BY DEF IdleRun, NoState, FreshStops, Heeds, Passing, Gate

\* The posts of running nodes.
LEMMA HasPost ==
    ASSUME PublicationInv, NEW r \in Runs, run[r].pc \in Passing \cup Gate
    PROVE  run[r].st.post \in Posts
  BY DEF PublicationInv, RunsSound, Sound, Passing, Gate

\* A run that stays heeds what it heeded.
LEMMA StillHeeds ==
    ASSUME PublicationInv, RejectionInv, NEW r \in Runs,
           \A p \in Posts : Heard(said[p]) => Heard(said'[p])
    PROVE  FreshStops(run[r]) /\ Heeds(run[r], said'[run[r].st.post])
  BY HasPost DEF RejectionInv, Heeds

\* The only run, in front of the gate or behind it, goes on or ends.
LEMMA RejectionGoes ==
    ASSUME RejectionKept, PublicationInv, RejectionInv, NEW r \in Runs, NEW n,
           Moves(r, n) \/ Ends(r), UNCHANGED <<ckpt, requireApproval, said>>,
           n \in Passing =>
              \/ run[r].pc \in Passing
              \/ run[r].st.dry \/ run[r].st.skip
              \/ run[r].thread = "upload" /\ Heard(said[run[r].st.post]),
           n \in Gate => run'[r].unsaved \/ (~run[r].unsaved /\ run[r].pc \in Gate)
    PROVE  RejectionInv'
  <1> DEFINE x == run[r]
             y == run'[r]
  <1>1. FreshStops(x) /\ Heeds(x, said[x.st.post]) /\ x.thread \in {"upload", "fresh"}
    BY DEF RejectionInv, PublicationInv, TypeOK, RunRec
  <1>2. FreshStops(y) /\ Heeds(y, said[y.st.post])
    <2>1. CASE Ends(r)
      BY <2>1, IdleHeeds DEF Ends
    <2>2. CASE Moves(r, n)
      <3>1. /\ y.pc = n /\ y.thread = x.thread /\ y.resume = x.resume
            /\ y.st.post = x.st.post /\ y.st.dry = x.st.dry /\ y.st.skip = x.st.skip
        BY <2>2 DEF Moves
      <3> QED BY <1>1, <3>1 DEF FreshStops, Heeds
    <2> QED BY <2>1, <2>2
  <1>3. \A q \in Runs : q = r
    BY DEF RejectionKept
  <1> HIDE DEF x, y
  <1> QED BY <1>2, <1>3, RejectionMoves DEF y

LEMMA RejectionRunSteps ==
    ASSUME RejectionKept, PublicationInv, RejectionInv, NEW r \in Runs, RunEffect(r)
    PROVE  RejectionInv'
  <1> DEFINE x == run[r]
             p == x.st.post
  <1>1. \A q \in Runs : q = r
    BY DEF RejectionKept
  <1>2. /\ FreshStops(x) /\ Heeds(x, said[p]) /\ requireApproval
        /\ x.thread \in {"upload", "fresh"}
    BY DEF RejectionInv, PublicationInv, TypeOK, RunRec
  <1>3. CASE ExtractEffect(r)
    <2> DEFINE y == run'[r]
    <2>1. /\ y.pc = "dedup" /\ y.thread = x.thread /\ y.resume = x.resume
          /\ y.st.skip = x.st.skip /\ said'[y.st.post] = {}
          /\ UNCHANGED <<ckpt, requireApproval>>
          /\ \A q \in Posts \ {y.st.post} : said'[q] = said[q]
      BY <1>3 DEF ExtractEffect
    <2>2. \A q \in Posts : Heard(said[q]) => Heard(said'[q])
      BY <2>1 DEF Heard
    <2>3. FreshStops(y) /\ Heeds(y, said'[y.st.post])
      BY <1>2, <2>1 DEF FreshStops, Heeds, Passing, Gate
    <2> HIDE DEF y
    <2> QED BY <1>1, <2>1, <2>2, <2>3, RejectionMoves DEF y
  <1>4. CASE OpeningEffect(r)
    <2>1. UNCHANGED <<ckpt, requireApproval, said>>
      BY <1>4 DEF OpeningEffect, Steady
    <2>2. CASE Goes(r, "reset")
      BY <2>1, <2>2, RejectionGoes DEF Goes, Passing, Gate
    <2>3. ASSUME NEW n \in Screened \cup {"finalize", "approve", "wait_for_slot"},
                 Returns(r, n), n = "wait_for_slot" => x.st.dry \/ x.st.skip \/ ~requireApproval
          PROVE  RejectionInv'
      <3>1. Moves(r, n) /\ run'[r].unsaved /\ (n \in Passing => x.st.dry \/ x.st.skip)
        BY <1>2, <2>3 DEF Returns, Passing, Screened
      <3> QED BY <2>1, <3>1, RejectionGoes
    <2> QED BY <1>4, <2>2, <2>3 DEF OpeningEffect
  <1>5. CASE GateEffect(r)
    <2>1. UNCHANGED <<ckpt, requireApproval, said>> /\ ~x.unsaved
      BY <1>5 DEF GateEffect, Steady
    <2>2. \/ Ends(r)
          \/ \E n \in {"notify", "decide", "finalize"} : Moves(r, n) /\ x.pc \in Gate
          \/ /\ Moves(r, "wait_for_slot") /\ x.pc = "decide"
             /\ x.resume \in {"approved", "true"}
      BY <1>5 DEF GateEffect, Goes, Returns, Gate
    <2>3. CASE Ends(r)
      BY <2>1, <2>3, RejectionGoes DEF Passing, Gate
    <2>4. CASE \E n \in {"notify", "decide", "finalize"} : Moves(r, n) /\ x.pc \in Gate
      BY <2>1, <2>4, RejectionGoes DEF Passing
    <2>5. CASE Moves(r, "wait_for_slot") /\ x.pc = "decide" /\ x.resume \in {"approved", "true"}
      <3>1. x.thread = "upload" /\ Heard(said[p])
        BY <1>2, <2>1, <2>5 DEF FreshStops, Heeds, Gate
      <3> QED BY <2>1, <2>5, <3>1, RejectionGoes DEF Gate
    <2> QED BY <2>2, <2>3, <2>4, <2>5
  <1>6. CASE SlotEffect(r) \/ PublishEffect(r) \/ ClosingEffect(r)
    <2>1. UNCHANGED <<ckpt, requireApproval, said>>
      BY <1>6 DEF SlotEffect, PublishEffect, ClosingEffect, Steady
    <2>2. \/ Ends(r)
          \/ \E n \in {"finalize", "record", "commit", "end"} : Moves(r, n)
          \/ \E n \in Passing : Moves(r, n) /\ x.pc \in Passing
      BY <1>6 DEF SlotEffect, PublishEffect, ClosingEffect, Goes, Returns, Passing
    <2>3. ASSUME NEW n \in {"finalize", "record", "commit", "end"} \cup Passing,
                 Ends(r) \/ Moves(r, n), n \in Passing => x.pc \in Passing
          PROVE  RejectionInv'
      BY <2>1, <2>3, RejectionGoes DEF Passing, Gate
    <2>4. CASE Ends(r)
      BY <2>3, <2>4 DEF Passing
    <2>5. CASE \E n \in {"finalize", "record", "commit", "end"} : Moves(r, n)
      BY <2>3, <2>5 DEF Passing
    <2> QED BY <2>2, <2>3, <2>4, <2>5
  <1>7. CASE SaveEffect(r)
    <2> DEFINE y == run'[r]
    <2>1. /\ x.pc # "idle" /\ UNCHANGED <<requireApproval, said>>
          /\ y = IdleRun \/ /\ y.pc = x.pc /\ y.thread = x.thread /\ y.st = x.st
                            /\ y.resume = "none"
      BY <1>7 DEF SaveEffect, Ends, Nodes
    <2>2. FreshStops(y) /\ Heeds(y, said[y.st.post])
      <3>1. CASE y = IdleRun
        BY <3>1, IdleHeeds
      <3>2. CASE /\ y.pc = x.pc /\ y.thread = x.thread /\ y.st = x.st /\ y.resume = "none"
        BY <1>2, <3>2 DEF FreshStops, Heeds
      <3> QED BY <2>1, <3>1, <3>2
    <2>3. CASE x.thread = "upload"
      <3>1. ckpt'.next = x.pc /\ ckpt'.st = x.st /\ ~x.st.skip
        BY <1>2, <1>7, <2>3 DEF SaveEffect, Heeds
      <3>2. x.pc \in Passing /\ ~x.st.dry => Heard(said[p])
        BY <1>2, <2>3 DEF Heeds
      <3>3. requireApproval' /\ thePost' = p
        BY <2>1, <3>1 DEF RejectionInv, thePost
      <3> HIDE DEF y
      <3>4. \A q \in Runs : FreshStops(run'[q]) /\ Heeds(run'[q], said[run'[q].st.post])
        BY <1>1, <2>2 DEF y
      <3> QED BY <2>1, <3>1, <3>2, <3>3, <3>4 DEF RejectionInv
    <2>4. CASE x.thread = "fresh"
      <3>1. UNCHANGED ckpt
        BY <1>7, <2>4 DEF SaveEffect
      <3> HIDE DEF y
      <3> QED BY <1>1, <2>1, <2>2, <3>1, RejectionMoves DEF y
    <2> QED BY <1>2, <2>3, <2>4
  <1>8. CASE RaiseEffect(r)
    <2>1. run'[r] = IdleRun /\ UNCHANGED <<ckpt, requireApproval, said>>
      BY <1>8 DEF RaiseEffect, Steady, Ends
    <2> QED BY <1>1, <2>1, IdleHeeds, RejectionMoves
  <1> QED BY <1>3, <1>4, <1>5, <1>6, <1>7, <1>8 DEF RunEffect

\* Only a graph that waits for the very decision hears it; any other delivery
\* leaves a mark of its own.
LEMMA SayHeard ==
    ASSUME NEW p \in Posts, NEW d, Say(p, d)
    PROVE  /\ ckpt.next # "approve" =>
                \A q \in Posts : Heard(said[q]) => Heard(said'[q])
           /\ thePost \in Posts /\ CanResume /\ ~InTime(p) => Heard(said'[thePost])
           /\ d = "approved" /\ InTime(p) => Heard(said'[p])
  <1>1. CASE ~InTime(p)
    <2>1. \A q \in Posts : \/ "stray" \in said'[q]
                           \/ said'[q] = said[q] /\ q # p /\ (q = thePost => ~CanResume)
      BY <1>1 DEF Say, thePost
    <2> QED BY <1>1, <2>1 DEF Heard
  <1>2. CASE InTime(p)
    <2>1. ckpt.next = "approve" /\ said'[p] = AfterWord(said[p] \ {"stray"}, d)
      BY <1>2 DEF InTime, Say
    <2> QED BY <1>2, <2>1 DEF Heard, AfterWord
  <1> QED BY <1>1, <1>2

LEMMA RejectionHandlerSteps ==
    ASSUME RejectionKept, PublicationInv, RejectionInv, NEW r \in Runs, HandlerEffect(r)
    PROVE  RejectionInv'
  <1> DEFINE y == run'[r]
  <1>1. \A q \in Runs : q = r
    BY DEF RejectionKept
  <1>2. CASE StartEffect(r)
    <2>1. /\ y.pc = "extract" /\ y.thread = "upload" /\ y.resume = "none" /\ ~y.st.skip
          /\ ckpt'.next = "extract" /\ ckpt'.st = y.st /\ UNCHANGED <<requireApproval, said>>
      BY <1>2 DEF StartEffect, RejectionInv
    <2>2. FreshStops(y) /\ Heeds(y, said[y.st.post])
      BY <2>1 DEF FreshStops, Heeds, Passing, Gate
    <2> HIDE DEF y
    <2>3. \A q \in Runs : FreshStops(run'[q]) /\ Heeds(run'[q], said[run'[q].st.post])
      BY <1>1, <2>2 DEF y
    <2> QED BY <2>1, <2>3 DEF RejectionInv, Passing
  <1>3. CASE FreshEffect(r)
    <2>1. /\ y.pc = "extract" /\ y.thread = "fresh" /\ y.resume = "none"
          /\ UNCHANGED <<ckpt, requireApproval, said>>
      BY <1>3 DEF FreshEffect
    <2>2. FreshStops(y) /\ Heeds(y, said[y.st.post])
      BY <2>1 DEF FreshStops, Heeds, Passing
    <2> HIDE DEF y
    <2> QED BY <1>1, <2>1, <2>2, RejectionMoves DEF y
  \* A resume: the checkpoint's own state goes on, with value v.
  <1>4. ASSUME NEW origin, NEW v, Wakes(r, origin, v), UNCHANGED <<ckpt, requireApproval>>,
               ckpt.next # "approve" => \A q \in Posts : Heard(said[q]) => Heard(said'[q]),
               ckpt.next = "approve" /\ v \in {"approved", "true"} => Heard(said'[thePost])
        PROVE  RejectionInv'
    <2>1. ckpt.next \in Passing \cup Gate => thePost \in Posts
      BY DEF PublicationInv, CkptSound, Sound, thePost, Passing, Gate
    <2>2. ckpt.next \in Passing /\ ~ckpt.st.dry => Heard(said'[thePost])
      BY <1>4, <2>1 DEF RejectionInv, Passing
    <2>3. \A q \in Runs : FreshStops(run'[q]) /\ Heeds(run'[q], said'[run'[q].st.post])
      <3>1. CASE Resumes(r, origin, v)
        <4>1. /\ y.pc = ckpt.next /\ y.st = ckpt.st /\ y.thread = "upload" /\ y.resume = v
              /\ ckpt.next \in Nodes /\ ~ckpt.st.skip
          BY <3>1 DEF Resumes, RejectionInv
        <4>2. FreshStops(y) /\ Heeds(y, said'[y.st.post])
          BY <1>4, <2>2, <4>1 DEF FreshStops, Heeds, thePost, Gate, Nodes
        <4> HIDE DEF y
        <4> QED BY <1>1, <4>2 DEF y
      <3>2. CASE UNCHANGED run /\ ckpt.next \notin Nodes
        <4>1. \A q \in Posts : Heard(said[q]) => Heard(said'[q])
          BY <1>4, <3>2 DEF Nodes
        <4> QED BY <3>2, <4>1, StillHeeds
      <3> QED BY <1>4, <3>1, <3>2 DEF Wakes
    <2>4. thePost' = thePost
      BY <1>4 DEF thePost
    <2> QED BY <1>4, <2>2, <2>3, <2>4 DEF RejectionInv
  <1>5. ASSUME NEW origin \in Tellers, NEW p \in Posts, NEW d \in Decisions,
               TellEffect(r, origin, p, d)
        PROVE  RejectionInv'
    <2>1. Say(p, d) /\ Wakes(r, origin, d) /\ UNCHANGED <<ckpt, requireApproval>>
      BY <1>5 DEF TellEffect
    <2>2. ckpt.next = "approve" /\ d \in {"approved", "true"} => Heard(said'[thePost])
      <3>1. ckpt.next = "approve" => thePost \in Posts /\ CanResume
        BY DEF PublicationInv, CkptSound, Sound, thePost, CanResume, Nodes
      <3>2. InTime(p) => p = thePost
        BY DEF InTime, thePost
      <3>3. d \in {"approved", "true"} => d = "approved"
        BY DEF Decisions
      <3> QED BY <2>1, <3>1, <3>2, <3>3, SayHeard
    <2> QED BY <1>4, <2>1, <2>2, SayHeard
  <1>6. ASSUME NEW p \in due, DueEffect(r, p)
        PROVE  RejectionInv'
    <2>1. \A q \in Posts : Heard(said[q]) => Heard(said'[q])
      BY <1>6 DEF DueEffect, Heard
    <2>2. ckpt.next = "approve" => Heard(said'[thePost])
      <3>1. ckpt.next = "approve" => thePost \in Posts /\ Misled(p, thePost)
        BY DEF PublicationInv, CkptSound, Sound, thePost, Misled
      <3> QED BY <1>6, <3>1 DEF DueEffect, Heard
    <2> QED BY <1>4, <1>6, <2>1, <2>2 DEF DueEffect
  <1> QED BY <1>2, <1>3, <1>5, <1>6 DEF HandlerEffect

LEMMA RejectionOutsideSteps ==
    ASSUME RejectionKept, PublicationInv, RejectionInv, OutsideEffect
    PROVE  RejectionInv'
  <1>1. UNCHANGED <<ckpt, requireApproval, said>>
    BY DEF OutsideEffect, PollEffect, AcceptEffect, LoseEffect, PollDueEffect, RescheduleEffect,
           DeleteShareEffect, DeleteReadsEffect, DeleteCommitsEffect, CrashEffect, WorldEffect,
           RejectionKept
  <1>2. \A r \in Runs : run'[r] = run[r] \/ run'[r] = IdleRun
    BY DEF OutsideEffect, PollEffect, AcceptEffect, LoseEffect, PollDueEffect, RescheduleEffect,
           DeleteShareEffect, DeleteReadsEffect, DeleteCommitsEffect, CrashEffect, WorldEffect
  <1>3. ASSUME NEW r \in Runs
        PROVE  FreshStops(run'[r]) /\ Heeds(run'[r], said'[run'[r].st.post])
    BY <1>1, <1>2, IdleHeeds, StillHeeds
  <1> QED BY <1>1, <1>3, RejectionMoves

LEMMA RejectionStep ==
    ASSUME RejectionKept, PublicationInv, RejectionInv, [Next]_vars
    PROVE  RejectionInv'
  BY StepEffects, RejectionRunSteps, RejectionHandlerSteps, RejectionOutsideSteps

LEMMA RejectionInit ==
    ASSUME RejectionKept, Init
    PROVE  RejectionInv
  BY IdleHeeds DEF Init, RejectionInv, RejectionKept, NoState, Passing

\* The runbook's promise, for one run at a time: what a human rejected does not go
\* out before a later approval, or a stray resume, woke its thread, however often
\* the upload is restarted, its posts retried, the process crashed or a node failed,
\* and however late a decision is delivered.
THEOREM RejectionSound ==
    ASSUME RejectionKept
    PROVE  Spec => RejectionHonoured
  <1>1. Init => PublicationInv /\ RejectionInv
    BY InitInv, RejectionInit
  <1>2. PublicationInv /\ RejectionInv /\ [Next]_vars => (PublicationInv /\ RejectionInv)'
    BY StepInv, RejectionStep
  <1>3. ASSUME PublicationInv, RejectionInv, NEW r \in Runs, Publishes(r), ~run[r].st.skip
        PROVE  "rejected" \notin said[run[r].st.post] \/ "stray" \in said[run[r].st.post]
    <2>1. /\ run[r].pc \in Passing /\ ~run[r].st.dry
          /\ FreshStops(run[r]) /\ Heeds(run[r], said[run[r].st.post])
          /\ run[r].thread \in {"upload", "fresh"}
      BY <1>3 DEF Publishes, At, Passing, RejectionInv, PublicationInv, TypeOK, RunRec
    <2> QED BY <1>3, <2>1 DEF FreshStops, Heeds, Heard
  <1>4. PublicationInv /\ RejectionInv
          => [\A r \in Runs : Publishes(r) /\ ~run[r].st.skip
                => \/ "rejected" \notin said[run[r].st.post]
                   \/ "stray" \in said[run[r].st.post]]_vars
    BY <1>3
  <1> QED BY <1>1, <1>2, <1>4, PTL DEF Spec, RejectionHonoured
=============================================================================
