--------------------------- MODULE ApprovalSyncProofs ---------------------------
(***************************************************************************)
(* The approvals job, for any number of approvals, Sheet rows, answers and *)
(* faults: it implements ApprovalDelivery, what is marked is recorded, and *)
(* a graph is resumed twice for one of four reasons only.                  *)
(***************************************************************************)
EXTENDS ApprovalSync, SelectionProofs

-----------------------------------------------------------------------------
(* Types, and what the parts of a poll have to do with its progress *)

\* Entries read from the Sheet name approvals of the Sheet.
InSheet(a) == \E r \in SheetRows : RowOf[r] = a

PollInv ==
    /\ poll.pc # "resume" => poll.wake = <<>>
    /\ poll.pc \in {"idle", "resume"} => poll.expired = {} /\ poll.act = <<>> /\ poll.marked = {}
    /\ poll.pc \in {"idle", "expire", "resume"} => \A a \in Approvals : poll.writes[a] = None
    /\ poll.pc = "expire" => poll.act = <<>>
    /\ poll.pc \notin {"record", "mark"} => poll.todo = <<>>
    /\ poll.pc \in {"expire", "notify", "read"} => poll.marked = {}
    /\ poll.pc = "mark" => poll.todo # <<>> /\ poll.writes[Head(poll.todo)[1]] # None
    /\ \A i \in DOMAIN poll.todo : poll.todo[i][2] \in Answers /\ InSheet(poll.todo[i][1])
    /\ \A i \in DOMAIN poll.act : poll.writes[poll.act[i]] # None
    /\ \A a \in poll.marked : poll.writes[a] # None

TypeInv == TypeOK /\ PollInv

LEMMA NoPollType == NoPoll \in Poll
  BY DEF NoPoll, Poll, Entry, None

\* A poll that has nothing in it satisfies PollInv.
LEMMA NoPollInv == ASSUME poll' = NoPoll PROVE PollInv'
  BY DEF NoPoll, PollInv, InSheet

\* The first row of an approval of the Sheet.
LEMMA FirstRowType ==
  ASSUME NEW a, InSheet(a)
  PROVE  FirstRow(a) \in SheetRows /\ RowOf[FirstRow(a)] = a
<1> DEFINE S == {r \in SheetRows : RowOf[r] = a}
<1>1. S \in SUBSET Nat /\ S # {} /\ SheetRows \subseteq Nat
  BY SheetAssumption DEF SheetRows, InSheet
<1>2. PICK m \in S : \A n \in S : m <= n
  BY <1>1, Least
<1>3. \A q \in 1 .. m - 1 : q \in SheetRows /\ ~(m <= q)
  BY <1>1, <1>2, SheetAssumption DEF SheetRows
<1>4. \A q \in 1 .. m - 1 : RowOf[q] # a
  BY <1>2, <1>3
<1> QED BY <1>2, <1>4 DEF FirstRow

\* SetToSeq enumerates a finite set without repetition.
LEMMA SetToSeqProps ==
  ASSUME NEW S, IsFiniteSet(S)
  PROVE  /\ SetToSeq(S) \in Seq(S) /\ DOMAIN SetToSeq(S) \subseteq Nat
         /\ \A i, j \in DOMAIN SetToSeq(S) : SetToSeq(S)[i] = SetToSeq(S)[j] => i = j
<1>1. Cardinality(S) \in Nat /\ ExistsBijection(1 .. Cardinality(S), S)
  BY FS_CardinalityType
<1>2. \E f \in [1 .. Cardinality(S) -> S] : IsInjective(f)
  BY <1>1 DEF ExistsBijection, Bijection, Injection
<1>3. SetToSeq(S) \in [1 .. Cardinality(S) -> S] /\ IsInjective(SetToSeq(S))
  BY <1>2 DEF SetToSeq
<1>4. \A i, j \in DOMAIN SetToSeq(S) : SetToSeq(S)[i] = SetToSeq(S)[j] => i = j
  BY <1>3 DEF IsInjective
<1> QED BY <1>1, <1>3, <1>4

\* What read_decisions returns: one entry for each open row, in their order.
ToDo(open) == [i \in DOMAIN open |-> <<RowOf[open[i]], sheet[open[i]].answer>>]
OpenRows   == {r \in SheetRows : r \in Open(RowOf[r])}

LEMMA OpenRowsInOrder ==
  /\ Cardinality(OpenRows) \in Nat
  /\ InOrder(OpenRows) \in [1 .. Cardinality(OpenRows) -> OpenRows]
  /\ \A k, l \in 1 .. Cardinality(OpenRows) : k < l => InOrder(OpenRows)[k] < InOrder(OpenRows)[l]
  /\ \A r \in OpenRows : \E k \in 1 .. Cardinality(OpenRows) : InOrder(OpenRows)[k] = r
<1>1. SheetRows \subseteq Nat /\ IsFiniteSet(SheetRows)
  BY SheetAssumption, FS_Interval DEF SheetRows
<1>2. OpenRows \in SUBSET Nat /\ IsFiniteSet(OpenRows)
  BY <1>1, FS_Subset DEF OpenRows
<1> QED BY <1>2, InOrderEnumerates

LEMMA ToDoType ==
  ASSUME TypeOK
  PROVE  LET todo == ToDo(InOrder(OpenRows)) IN
         /\ todo \in Seq(Entry)
         /\ \A i \in DOMAIN todo : /\ InOrder(OpenRows)[i] \in OpenRows
                                   /\ todo[i][1] = RowOf[InOrder(OpenRows)[i]]
                                   /\ todo[i][2] = sheet[InOrder(OpenRows)[i]].answer
                                   /\ todo[i][2] \in Answers /\ InSheet(todo[i][1])
<1> DEFINE n == Cardinality(OpenRows)
           open == InOrder(OpenRows)
           todo == ToDo(open)
<1>1. n \in Nat /\ open \in [1 .. n -> OpenRows]
  BY OpenRowsInOrder
<1> HIDE DEF n, open
<1>2. \A r \in OpenRows : r \in SheetRows /\ sheet[r].answer \in Answers /\ RowOf[r] \in Approvals
  BY SheetAssumption DEF OpenRows, Open
<1>3. todo = [i \in 1 .. n |-> <<RowOf[open[i]], sheet[open[i]].answer>>]
  BY <1>1 DEF ToDo
<1>4. \A i \in 1 .. n : /\ open[i] \in OpenRows /\ todo[i] \in Entry
                        /\ todo[i][1] = RowOf[open[i]] /\ todo[i][2] = sheet[open[i]].answer
                        /\ todo[i][2] \in Answers /\ InSheet(todo[i][1])
  BY <1>1, <1>2, <1>3 DEF Entry, Verdicts, InSheet
<1>5. todo \in Seq(Entry) /\ DOMAIN todo = 1 .. n
  BY <1>1, <1>3, <1>4
<1> QED BY <1>4, <1>5 DEF open

LEMMA AnswerCounts ==
  ASSUME TypeOK, NEW a \in Approvals, NEW d, Answered(a, d)
  PROVE  /\ answers' \in [Approvals -> Nat]
         /\ \A b \in Approvals : answers'[b] <= MaxAnswers[b]
         /\ answers'[a] = answers[a] + 1 /\ \A b \in Approvals \ {a} : answers'[b] = answers[b]
<1>1. /\ answers \in [Approvals -> Nat] /\ answers[a] \in Nat /\ MaxAnswers[a] \in Nat
      /\ \A b \in Approvals : answers[b] <= MaxAnswers[b]
  BY BoundsAssumption DEF TypeOK
<1>2. answers[a] < MaxAnswers[a] /\ answers' = [answers EXCEPT ![a] = answers[a] + 1]
  BY DEF Answered
<1>3. answers[a] + 1 <= MaxAnswers[a] /\ answers[a] + 1 \in Nat
  BY <1>1, <1>2
<1> QED BY <1>1, <1>2, <1>3

LEMMA TypeInit == Init => TypeInv
<1> SUFFICES ASSUME Init PROVE TypeInv
  OBVIOUS
<1>1. TypeOK
  BY NoPollType, BoundsAssumption DEF Init, TypeOK, Cell, None
<1>2. PollInv
  BY DEF Init, NoPoll, PollInv, InSheet
<1> QED BY <1>1, <1>2 DEF TypeInv

\* Humans, time and what comes after the poll.
LEMMA OutsideTypes ==
  ASSUME TypeInv,
         \/ \E r \in SheetRows, d \in Answers : EditSheet(r, d)
         \/ \E a \in Approvals, d \in Answers :
              Approve(a, d) \/ ResumeDirect(a, d) \/ ResumeDirectFails(a, d)
         \/ \E a \in Approvals : Deadline(a)
  PROVE  TypeInv'
<1> USE DEF TypeInv, TypeOK, history, graphs, rest
<1>1. UNCHANGED poll
  BY DEF EditSheet, Approve, Deadline, ResumeDirect, ResumeDirectFails
<1>2. PollInv'
  BY <1>1 DEF PollInv, InSheet, Locked
<1>3. ASSUME NEW r \in SheetRows, NEW d \in Answers, EditSheet(r, d) PROVE TypeOK'
  <2>1. RowOf[r] \in Approvals /\ <<RowOf[r], d>> \in Entry
    BY SheetAssumption DEF Entry, Verdicts
  <2>2. [answer |-> d, synced |-> FALSE] \in Cell
    BY DEF Cell
  <2>3. answers' \in [Approvals -> Nat] /\ \A a \in Approvals : answers'[a] <= MaxAnswers[a]
    BY <1>3, <2>1, AnswerCounts DEF EditSheet
  <2>4. asked' \subseteq Entry /\ sheet' \in [SheetRows -> Cell]
    BY <1>3, <2>1, <2>2 DEF EditSheet, Answered
  <2> QED BY <1>3, <2>3, <2>4 DEF EditSheet
<1>4. ASSUME NEW a \in Approvals, NEW d \in Answers, Approve(a, d) PROVE TypeOK'
  <2>1. <<a, d>> \in Entry
    BY DEF Entry, Verdicts
  <2>2. answers' \in [Approvals -> Nat] /\ \A b \in Approvals : answers'[b] <= MaxAnswers[b]
    BY <1>4, AnswerCounts DEF Approve
  <2> QED BY <1>4, <2>1, <2>2 DEF Approve, Answered
<1>5. ASSUME NEW a \in Approvals, NEW d \in Answers, ResumeDirect(a, d) PROVE TypeOK'
  BY <1>5 DEF ResumeDirect, Resume, Verdicts
<1>6. ASSUME NEW a \in Approvals, Deadline(a) PROVE TypeOK'
  BY <1>6 DEF Deadline
<1>7. ASSUME NEW a \in Approvals, NEW d \in Answers, ResumeDirectFails(a, d) PROVE TypeOK'
  BY <1>7, BoundsAssumption DEF ResumeDirectFails, Unresumed, Fault, Verdicts
<1> QED BY <1>2, <1>3, <1>4, <1>5, <1>6, <1>7

\* Whatever ends the poll.
LEMMA EndTypes ==
  ASSUME TypeInv,
         \/ NotifyExpiredFails \/ ReadDecisionsFails \/ CommitFails
         \/ PollDone \/ LookUpFails \/ Crash
  PROVE  TypeInv'
<1>1. poll' = NoPoll
  BY DEF NotifyExpiredFails, ReadDecisionsFails, CommitFails, Abort, PollDone, LookUpFails, Crash,
         SetPoll
<1>2. /\ UNCHANGED <<decision, overdue, parked, outcome, stray, sheet, answers, asked, unmarked>>
      /\ direct' \subseteq direct
  BY DEF NotifyExpiredFails, ReadDecisionsFails, CommitFails, Abort, PollDone, LookUpFails, Crash,
         rest, graphs, history
<1>3. faults' \in 0 .. MaxFaults
  BY BoundsAssumption DEF NotifyExpiredFails, ReadDecisionsFails, CommitFails, Abort, PollDone,
                          LookUpFails, Crash, Fault, TypeInv, TypeOK
<1>4. lost' \subseteq Approvals /\ unwoken' \subseteq Approvals
  <2>1. /\ Dropped(poll.marked) \subseteq Approvals /\ lost \subseteq Approvals
        /\ parked \subseteq Approvals /\ unwoken \subseteq Approvals
    BY DEF TypeInv, TypeOK, Dropped, Poll
  <2> QED BY <2>1 DEF NotifyExpiredFails, ReadDecisionsFails, CommitFails, Abort, PollDone, LookUpFails,
                      Crash, history
<1>5. TypeOK'
  BY <1>1, <1>2, <1>3, <1>4, NoPollType DEF TypeInv, TypeOK
<1> QED BY <1>1, <1>5, NoPollInv DEF TypeInv

\* The steps of poll_once, up to its commit.
LEMMA LookTypes ==
  ASSUME TypeInv, SelectExpired \/ Expire \/ NotifyExpired \/ ReadDecisions
  PROVE  TypeInv'
<1> USE DEF SetPoll, At
<1>1. UNCHANGED <<decision, overdue, parked, outcome, stray, sheet, direct, answers, asked,
                  faults, lost, unwoken, unmarked>>
  BY DEF SelectExpired, Expire, NotifyExpired, ReadDecisions, graphs, rest, history
<1>2. poll \in Poll /\ PollInv
  BY DEF TypeInv, TypeOK
<1>3. CASE SelectExpired
  <2>1. poll' = [NoPoll EXCEPT !.pc = "expire", !.expired = {a \in overdue : decision[a] = "pending"}]
    BY <1>3 DEF SelectExpired
  <2>2. poll' \in Poll
    BY <2>1, NoPollType DEF Poll, TypeInv, TypeOK
  <2>3. PollInv'
    BY <2>1 DEF PollInv, NoPoll
  <2> QED BY <1>1, <2>2, <2>3 DEF TypeInv, TypeOK
<1>4. CASE Expire
  <2> DEFINE w == [a \in Approvals |-> IF a \in poll.expired THEN "timeout" ELSE None]
             s == SetToSeq(poll.expired)
  <2>1. poll' = [poll EXCEPT !.pc = "notify", !.writes = w, !.act = s] /\ poll.pc = "expire"
    BY <1>4 DEF Expire
  <2>2. s \in Seq(poll.expired) /\ s \in Seq(Approvals)
    BY <1>2, ApprovalsAssumption, SetToSeqProps, FS_Subset DEF Poll
  <2>3. w \in [Approvals -> Verdicts \cup {None}] /\ \A a \in poll.expired : w[a] # None
    BY <1>2 DEF Verdicts, None, Poll
  <2>4. \A i \in DOMAIN s : w[s[i]] # None
    BY <2>2, <2>3
  <2> HIDE DEF w, s
  <2>5. poll' \in Poll
    BY <1>2, <2>1, <2>2, <2>3 DEF Poll
  <2>6. PollInv'
    BY <1>2, <2>1, <2>4, <2>5 DEF PollInv, Poll
  <2> QED BY <1>1, <2>5, <2>6 DEF TypeInv, TypeOK
<1>5. CASE NotifyExpired
  <2>1. poll' = [poll EXCEPT !.pc = "read"] /\ poll.pc = "notify"
    BY <1>5 DEF NotifyExpired
  <2>2. poll' \in Poll
    BY <1>2, <2>1 DEF Poll
  <2>3. PollInv'
    BY <1>2, <2>1 DEF PollInv, Poll
  <2> QED BY <1>1, <2>2, <2>3 DEF TypeInv, TypeOK
<1>6. CASE ReadDecisions
  <2> DEFINE t == ToDo(InOrder(OpenRows))
  <2>1. poll' = [poll EXCEPT !.pc = "record", !.todo = t] /\ poll.pc = "read"
    BY <1>6 DEF ReadDecisions, OpenRows, ToDo
  <2>2. t \in Seq(Entry) /\ \A i \in DOMAIN t : t[i][2] \in Answers /\ InSheet(t[i][1])
    BY ToDoType DEF TypeInv
  <2> HIDE DEF t
  <2>3. poll' \in Poll
    BY <1>2, <2>1, <2>2 DEF Poll
  <2>4. PollInv'
    BY <1>2, <2>1, <2>2 DEF PollInv, Poll, InSheet
  <2> QED BY <1>1, <2>3, <2>4 DEF TypeInv, TypeOK
<1> QED BY <1>3, <1>4, <1>5, <1>6

\* The entry at the head of the list, and what follows it.
LEMMA HeadOfTodo ==
  ASSUME TypeInv, poll.todo # <<>>
  PROVE  /\ Head(poll.todo) \in Entry /\ Tail(poll.todo) \in Seq(Entry)
         /\ Head(poll.todo) = <<Head(poll.todo)[1], Head(poll.todo)[2]>>
         /\ Head(poll.todo)[1] \in Approvals /\ Head(poll.todo)[2] \in Answers
         /\ InSheet(Head(poll.todo)[1])
         /\ 1 \in DOMAIN poll.todo /\ Head(poll.todo) = poll.todo[1]
         /\ \A i \in DOMAIN Tail(poll.todo) : /\ i \in Nat /\ i # 0 /\ i + 1 \in DOMAIN poll.todo
                                              /\ Tail(poll.todo)[i] = poll.todo[i + 1]
<1>1. poll.todo \in Seq(Entry)
  BY DEF TypeInv, TypeOK, Poll
<1>2. /\ Head(poll.todo) \in Entry /\ Tail(poll.todo) \in Seq(Entry)
      /\ 1 \in DOMAIN poll.todo /\ Head(poll.todo) = poll.todo[1]
      /\ \A i \in DOMAIN Tail(poll.todo) : /\ i \in Nat /\ i # 0 /\ i + 1 \in DOMAIN poll.todo
                                           /\ Tail(poll.todo)[i] = poll.todo[i + 1]
  BY <1>1
<1>3. Head(poll.todo)[2] \in Answers /\ InSheet(Head(poll.todo)[1])
  BY <1>2 DEF TypeInv, PollInv
<1> QED BY <1>2, <1>3 DEF Entry

LEMMA EntryTypes ==
  ASSUME TypeInv, Record \/ RecordSkipped \/ Mark \/ MarkFails
  PROVE  TypeInv'
<1> USE DEF SetPoll, At
<1> DEFINE a == Head(poll.todo)[1]
           d == Head(poll.todo)[2]
           t == Tail(poll.todo)
<1>1. UNCHANGED <<decision, overdue, parked, outcome, stray, direct, answers, asked, lost, unwoken>>
  BY DEF Record, RecordSkipped, Mark, MarkFails, graphs, rest, history
<1>2. poll \in Poll /\ PollInv
  BY DEF TypeInv, TypeOK
<1>3. poll.todo # <<>>
  BY <1>2 DEF Record, RecordSkipped, Mark, MarkFails, PollInv
<1>4. a \in Approvals /\ d \in Answers /\ t \in Seq(Entry) /\ InSheet(a)
      /\ \A i \in DOMAIN t : t[i][2] \in Answers /\ InSheet(t[i][1])
  BY <1>2, <1>3, HeadOfTodo DEF PollInv
<1>5. poll.act \in Seq(Approvals) /\ poll.writes \in [Approvals -> Verdicts \cup {None}]
  BY <1>2 DEF Poll
<1> HIDE DEF a, d, t
<1>6. CASE Record
  <2>1. /\ poll' = [poll EXCEPT !.pc = "mark", !.writes = [poll.writes EXCEPT ![a] = d],
                                !.act = Append(poll.act, a)]
        /\ poll.pc = "record" /\ UNCHANGED <<sheet, faults, unmarked>>
    BY <1>2, <1>6 DEF Record, a, d, history, Poll
  <2>2. poll' \in Poll
    <3>1. [poll.writes EXCEPT ![a] = d] \in [Approvals -> Verdicts \cup {None}]
      BY <1>4, <1>5 DEF Verdicts
    <3>2. Append(poll.act, a) \in Seq(Approvals)
      BY <1>4, <1>5
    <3> QED BY <1>2, <2>1, <3>1, <3>2 DEF Poll
  <2>3. PollInv'
    <3>1. poll'.todo = poll.todo /\ Head(poll'.todo)[1] = a /\ poll'.pc = "mark"
      BY <1>2, <2>1 DEF Poll, a
    <3>2. poll'.writes = [poll.writes EXCEPT ![a] = d] /\ poll'.writes[a] # None
      BY <1>2, <1>4, <1>5, <2>1 DEF Poll, None, Answers
    <3>3. \A i \in DOMAIN poll'.act : poll'.writes[poll'.act[i]] # None
      BY <1>2, <1>4, <1>5, <2>1, <3>2 DEF PollInv, Poll, None, Answers
    <3>4. \A b \in poll'.marked : poll'.writes[b] # None
      BY <1>2, <1>4, <1>5, <2>1, <3>2 DEF PollInv, Poll, None, Answers
    <3> QED BY <1>2, <1>3, <1>4, <1>5, <2>1, <3>1, <3>2, <3>3, <3>4 DEF PollInv, Poll, InSheet
  <2> QED BY <1>1, <2>1, <2>2, <2>3 DEF TypeInv, TypeOK
<1>7. CASE RecordSkipped
  <2>1. /\ poll' = [poll EXCEPT !.writes = [poll.writes EXCEPT ![a] = d], !.todo = t]
        /\ poll.pc = "record" /\ UNCHANGED sheet /\ unmarked' = unmarked \cup {a} /\ Fault
    BY <1>2, <1>7 DEF RecordSkipped, a, d, t, Poll
  <2>2. poll' \in Poll
    <3>1. [poll.writes EXCEPT ![a] = d] \in [Approvals -> Verdicts \cup {None}]
      BY <1>4, <1>5 DEF Verdicts
    <3> QED BY <1>2, <1>4, <2>1, <3>1 DEF Poll
  <2>3. PollInv'
    BY <1>2, <1>4, <1>5, <2>1 DEF PollInv, Poll, InSheet, None, Answers
  <2> QED BY <1>1, <1>4, <2>1, <2>2, <2>3, BoundsAssumption DEF TypeInv, TypeOK, Fault
<1>8. CASE Mark
  <2>1. /\ poll' = [poll EXCEPT !.pc = "record", !.todo = t, !.marked = poll.marked \cup {a}]
        /\ sheet' = [sheet EXCEPT ![FirstRow(a)] = [answer |-> d, synced |-> TRUE]]
        /\ poll.pc = "mark" /\ UNCHANGED <<faults, unmarked>>
    BY <1>2, <1>8 DEF Mark, a, d, t, history, Poll
  <2>2. poll' \in Poll
    BY <1>2, <1>4, <2>1 DEF Poll
  <2>3. poll.writes[a] # None
    BY <1>2, <2>1 DEF PollInv, a
  <2>4. PollInv'
    BY <1>2, <1>4, <2>1, <2>3 DEF PollInv, Poll, InSheet
  <2>5. sheet' \in [SheetRows -> Cell]
    BY <1>4, <2>1, FirstRowType DEF TypeInv, TypeOK, Cell
  <2> QED BY <1>1, <2>1, <2>2, <2>4, <2>5 DEF TypeInv, TypeOK
<1>9. CASE MarkFails
  <2>1. /\ poll' = [poll EXCEPT !.pc = "record", !.todo = t]
        /\ poll.pc = "mark" /\ UNCHANGED sheet /\ unmarked' = unmarked \cup {a} /\ Fault
    BY <1>2, <1>9 DEF MarkFails, a, t, Poll
  <2>2. poll' \in Poll
    BY <1>2, <1>4, <2>1 DEF Poll
  <2>3. PollInv'
    BY <1>2, <1>4, <2>1 DEF PollInv, Poll, InSheet
  <2> QED BY <1>1, <1>4, <2>1, <2>2, <2>3, BoundsAssumption DEF TypeInv, TypeOK, Fault
<1> QED BY <1>6, <1>7, <1>8, <1>9

\* What the commit hands over to the resumes.
Wakes == [i \in DOMAIN poll.act |-> <<poll.act[i], poll.writes[poll.act[i]]>>]

LEMMA WakesType == ASSUME TypeInv PROVE Wakes \in Seq(Entry) /\ DOMAIN Wakes = DOMAIN poll.act
<1>1. /\ poll.act \in Seq(Approvals) /\ poll.writes \in [Approvals -> Verdicts \cup {None}]
      /\ \A i \in DOMAIN poll.act : poll.writes[poll.act[i]] # None
  BY DEF TypeInv, TypeOK, Poll, PollInv
<1>2. \A i \in DOMAIN poll.act : poll.act[i] \in Approvals /\ poll.writes[poll.act[i]] \in Verdicts
  BY <1>1
<1>3. \A i \in DOMAIN poll.act : Wakes[i] \in Entry
  BY <1>2 DEF Wakes, Entry
<1>4. Len(poll.act) \in Nat /\ DOMAIN poll.act = 1 .. Len(poll.act)
  BY <1>1
<1>5. Wakes = [i \in 1 .. Len(poll.act) |-> Wakes[i]] /\ DOMAIN Wakes = 1 .. Len(poll.act)
  BY <1>4 DEF Wakes
<1> HIDE DEF Wakes
<1> QED BY <1>3, <1>4, <1>5

LEMMA CommitTypes == ASSUME TypeInv, Commit PROVE TypeInv'
<1>1. /\ poll' = [NoPoll EXCEPT !.pc = "resume", !.wake = Wakes]
      /\ UNCHANGED <<overdue, parked, outcome, stray, sheet, direct, answers, asked, faults, lost,
                     unwoken, unmarked>>
  BY DEF Commit, SetPoll, Wakes, graphs, rest, history
<1>2. decision' \in [Approvals -> {"pending"} \cup Verdicts]
  BY DEF Commit, Locked, TypeInv, TypeOK, Poll
<1>3. poll' \in Poll
  BY <1>1, WakesType, NoPollType DEF Poll
<1>4. PollInv'
  BY <1>1 DEF PollInv, NoPoll
<1> QED BY <1>1, <1>2, <1>3, <1>4 DEF TypeInv, TypeOK

LEMMA HeadOfWake ==
  ASSUME TypeInv, poll.wake # <<>>
  PROVE  /\ Tail(poll.wake) \in Seq(Entry)
         /\ Head(poll.wake)[1] \in Approvals /\ Head(poll.wake)[2] \in Verdicts
         /\ 1 \in DOMAIN poll.wake /\ Head(poll.wake) = poll.wake[1]
         /\ \A i \in DOMAIN Tail(poll.wake) : /\ i \in Nat /\ i # 0 /\ i + 1 \in DOMAIN poll.wake
                                              /\ Tail(poll.wake)[i] = poll.wake[i + 1]
<1>1. poll.wake \in Seq(Entry)
  BY DEF TypeInv, TypeOK, Poll
<1>2. /\ Head(poll.wake) \in Entry /\ Tail(poll.wake) \in Seq(Entry)
      /\ 1 \in DOMAIN poll.wake /\ Head(poll.wake) = poll.wake[1]
      /\ \A i \in DOMAIN Tail(poll.wake) : /\ i \in Nat /\ i # 0 /\ i + 1 \in DOMAIN poll.wake
                                           /\ Tail(poll.wake)[i] = poll.wake[i + 1]
  BY <1>1
<1> QED BY <1>2 DEF Entry

LEMMA ResumeTypes == ASSUME TypeInv, ResumeActioned PROVE TypeInv'
<1> DEFINE a == Head(poll.wake)[1]
           d == Head(poll.wake)[2]
<1>1. /\ poll' = [poll EXCEPT !.wake = Tail(poll.wake)] /\ poll.pc = "resume" /\ poll.wake # <<>>
      /\ Resume(a, d)
      /\ UNCHANGED <<overdue, sheet, direct, answers, asked, faults, lost, unwoken, unmarked>>
  BY DEF ResumeActioned, SetPoll, At, rest, history
<1>2. a \in Approvals /\ d \in Verdicts /\ Tail(poll.wake) \in Seq(Entry)
  BY <1>1, HeadOfWake
<1>3. poll \in Poll /\ PollInv
  BY DEF TypeInv, TypeOK
<1>4. poll' \in Poll
  BY <1>1, <1>2, <1>3 DEF Poll
<1>5. PollInv'
  BY <1>1, <1>3 DEF PollInv, Poll
<1> HIDE DEF a, d
<1>6. /\ parked' \subseteq Approvals /\ stray' \subseteq Approvals
      /\ outcome' \in [Approvals -> {None} \cup Verdicts]
      /\ decision' \in [Approvals -> {"pending"} \cup Verdicts]
  BY <1>1, <1>2 DEF Resume, TypeInv, TypeOK
<1> QED BY <1>1, <1>4, <1>5, <1>6 DEF TypeInv, TypeOK

LEMMA ResumeFailsTypes == ASSUME TypeInv, ResumeFails PROVE TypeInv'
<1> DEFINE a == Head(poll.wake)[1]
           d == Head(poll.wake)[2]
<1>1. /\ poll' = [poll EXCEPT !.wake = Tail(poll.wake)] /\ poll.pc = "resume" /\ poll.wake # <<>>
      /\ Unresumed(a, d) /\ Fault
      /\ UNCHANGED <<overdue, sheet, direct, answers, asked>>
  BY DEF ResumeFails, SetPoll, At, rest
<1>2. a \in Approvals /\ d \in Verdicts /\ Tail(poll.wake) \in Seq(Entry)
  BY <1>1, HeadOfWake
<1>3. poll \in Poll /\ PollInv
  BY DEF TypeInv, TypeOK
<1>4. poll' \in Poll
  BY <1>1, <1>2, <1>3 DEF Poll
<1>5. PollInv'
  BY <1>1, <1>3 DEF PollInv, Poll
<1> HIDE DEF a, d
<1>6. UNCHANGED <<parked, outcome, stray, lost, unmarked>> /\ unwoken' \subseteq Approvals
  BY <1>1, <1>2 DEF Unresumed, TypeInv, TypeOK, graphs
<1>7. faults' \in 0 .. MaxFaults
  BY <1>1, BoundsAssumption DEF Fault, TypeInv, TypeOK
<1>8. decision' \in [Approvals -> {"pending"} \cup Verdicts]
  BY <1>1, <1>2 DEF Unresumed, TypeInv, TypeOK
<1> QED BY <1>1, <1>4, <1>5, <1>6, <1>7, <1>8 DEF TypeInv, TypeOK

LEMMA TypeStep == TypeInv /\ [Next]_vars => TypeInv'
<1> SUFFICES ASSUME TypeInv, [Next]_vars PROVE TypeInv'
  OBVIOUS
<1>1. CASE UNCHANGED vars
  BY <1>1 DEF vars, TypeInv, TypeOK, PollInv, InSheet
<1> QED BY <1>1, OutsideTypes, EndTypes, LookTypes, EntryTypes, CommitTypes, ResumeTypes,
           ResumeFailsTypes
        DEF Next, PollNext

\* Every variable keeps its type and every field of a poll fits its progress.
THEOREM SyncTypesSound == Spec => []TypeOK
<1>1. Spec => []TypeInv
  BY TypeInit, TypeStep, PTL DEF Spec
<1> QED BY <1>1, PTL DEF TypeInv

-----------------------------------------------------------------------------
(* Every decision has a reason *)

Justified(a, d) == \/ <<a, d>> \in asked
                   \/ d = "timeout" /\ a \in overdue

ReasonInv ==
    /\ poll.expired \subseteq overdue
    /\ \A r \in SheetRows : sheet[r].answer \in Answers => <<RowOf[r], sheet[r].answer>> \in asked
    /\ \A i \in DOMAIN poll.todo : poll.todo[i] \in asked
    /\ \A a \in Approvals : poll.writes[a] # None => Justified(a, poll.writes[a])
    /\ \A i \in DOMAIN poll.wake : Justified(poll.wake[i][1], poll.wake[i][2])
    /\ direct \subseteq asked
    /\ \A a \in parked : outcome[a] = None

LEMMA ReasonInit == Init => ReasonInv
  BY DEF Init, NoPoll, ReasonInv, Answers, None

\* Resuming a graph keeps ReasonInv's last part.
LEMMA OutcomeStays ==
  ASSUME TypeOK, NEW a \in Approvals, NEW d, Resume(a, d), \A b \in parked : outcome[b] = None
  PROVE  (\A b \in parked : outcome[b] = None)'
  BY DEF TypeOK, Resume

LEMMA OutsideReasons ==
  ASSUME TypeInv, ReasonInv,
         \/ \E r \in SheetRows, d \in Answers : EditSheet(r, d)
         \/ \E a \in Approvals, d \in Answers :
              Approve(a, d) \/ ResumeDirect(a, d) \/ ResumeDirectFails(a, d)
         \/ \E a \in Approvals : Deadline(a)
  PROVE  ReasonInv'
<1>1. UNCHANGED poll /\ asked \subseteq asked' /\ overdue \subseteq overdue'
  BY DEF EditSheet, Approve, Deadline, ResumeDirect, ResumeDirectFails, rest, Answered
<1>3. /\ poll.expired \subseteq overdue'
      /\ \A i \in DOMAIN poll.todo : poll.todo[i] \in asked'
  BY <1>1 DEF ReasonInv
<1>4. (\A a \in Approvals : poll.writes[a] # None => Justified(a, poll.writes[a]))'
  <2>1. SUFFICES ASSUME NEW a \in Approvals, poll.writes[a] # None
                 PROVE  Justified(a, poll.writes[a])'
    BY <1>1
  <2>2. Justified(a, poll.writes[a])
    BY <2>1 DEF ReasonInv
  <2> QED BY <1>1, <2>2 DEF Justified
<1>5. (\A i \in DOMAIN poll.wake : Justified(poll.wake[i][1], poll.wake[i][2]))'
  <2>1. SUFFICES ASSUME NEW i \in DOMAIN poll.wake
                 PROVE  Justified(poll.wake[i][1], poll.wake[i][2])'
    BY <1>1
  <2>2. Justified(poll.wake[i][1], poll.wake[i][2])
    BY <2>1 DEF ReasonInv
  <2> QED BY <1>1, <2>2 DEF Justified
<1>6. /\ \A r \in SheetRows : sheet'[r].answer \in Answers => <<RowOf[r], sheet'[r].answer>> \in asked'
      /\ direct' \subseteq asked'
  <2>1. CASE \E r \in SheetRows, d \in Answers : EditSheet(r, d)
    BY <2>1 DEF EditSheet, Answered, ReasonInv, TypeInv, TypeOK
  <2>2. CASE \E a \in Approvals, d \in Answers :
                Approve(a, d) \/ ResumeDirect(a, d) \/ ResumeDirectFails(a, d)
    BY <2>2 DEF Approve, ResumeDirect, ResumeDirectFails, Answered, ReasonInv, rest
  <2>3. CASE \E a \in Approvals : Deadline(a)
    BY <2>3 DEF Deadline, ReasonInv
  <2> QED BY <2>1, <2>2, <2>3
<1>7. \A a \in parked' : outcome'[a] = None
  <2>1. ASSUME NEW a \in Approvals, NEW d \in Answers, ResumeDirect(a, d)
        PROVE  \A b \in parked' : outcome'[b] = None
    BY <2>1, OutcomeStays DEF ResumeDirect, TypeInv, ReasonInv
  <2> QED BY <2>1 DEF EditSheet, Approve, Deadline, ResumeDirectFails, Unresumed, graphs, ReasonInv
<1> QED BY <1>1, <1>3, <1>4, <1>5, <1>6, <1>7 DEF ReasonInv

\* What ends the poll and what only looks.
LEMMA EndReasons ==
  ASSUME TypeInv, ReasonInv,
         \/ NotifyExpiredFails \/ ReadDecisionsFails \/ CommitFails
         \/ PollDone \/ LookUpFails \/ Crash
  PROVE  ReasonInv'
<1>1. poll' = NoPoll /\ UNCHANGED <<overdue, parked, outcome, sheet, asked>> /\ direct' \subseteq direct
  BY DEF NotifyExpiredFails, ReadDecisionsFails, CommitFails, Abort, PollDone, LookUpFails, Crash,
         SetPoll, rest, graphs
<1> QED BY <1>1 DEF ReasonInv, NoPoll, Justified

LEMMA LookReasons ==
  ASSUME TypeInv, ReasonInv, SelectExpired \/ Expire \/ NotifyExpired \/ ReadDecisions
  PROVE  ReasonInv'
<1> USE DEF SetPoll, At
<1>1. UNCHANGED <<overdue, parked, outcome, sheet, asked, direct>>
  BY DEF SelectExpired, Expire, NotifyExpired, ReadDecisions, graphs, rest
<1>2. poll \in Poll /\ PollInv
  BY DEF TypeInv, TypeOK
<1>3. CASE SelectExpired
  <2>1. poll' = [NoPoll EXCEPT !.pc = "expire", !.expired = {a \in overdue : decision[a] = "pending"}]
    BY <1>3 DEF SelectExpired
  <2> QED BY <1>1, <2>1 DEF ReasonInv, NoPoll, Justified
<1>4. CASE Expire
  <2>1. /\ poll' = [poll EXCEPT !.pc = "notify", !.act = SetToSeq(poll.expired),
                     !.writes = [a \in Approvals |-> IF a \in poll.expired THEN "timeout" ELSE None]]
        /\ poll.expired \subseteq overdue
    BY <1>4 DEF Expire, ReasonInv
  <2> QED BY <1>1, <1>2, <2>1 DEF ReasonInv, Poll, Justified
<1>5. CASE NotifyExpired
  <2>1. poll' = [poll EXCEPT !.pc = "read"]
    BY <1>5 DEF NotifyExpired
  <2> QED BY <1>1, <1>2, <2>1 DEF ReasonInv, Poll, Justified
<1>6. CASE ReadDecisions
  <2> DEFINE t == ToDo(InOrder(OpenRows))
  <2>1. poll' = [poll EXCEPT !.pc = "record", !.todo = t]
    BY <1>6 DEF ReadDecisions, OpenRows, ToDo
  <2>2. t \in Seq(Entry) /\ \A i \in DOMAIN t : t[i] \in asked
    <3>1. \A i \in DOMAIN t : /\ InOrder(OpenRows)[i] \in SheetRows /\ t[i][2] \in Answers
                              /\ t[i][1] = RowOf[InOrder(OpenRows)[i]]
                              /\ t[i][2] = sheet[InOrder(OpenRows)[i]].answer
                              /\ t[i] = <<t[i][1], t[i][2]>>
      BY ToDoType DEF TypeInv, OpenRows, Entry
    <3>2. t \in Seq(Entry)
      BY ToDoType DEF TypeInv
    <3>3. ASSUME NEW i \in DOMAIN t PROVE t[i] \in asked
      <4> DEFINE r == InOrder(OpenRows)[i]
      <4>1. r \in SheetRows /\ t[i] = <<t[i][1], t[i][2]>> /\ t[i][1] = RowOf[r] /\ t[i][2] = sheet[r].answer
            /\ t[i][2] \in Answers
        BY <3>1
      <4> HIDE DEF t, r
      <4> QED BY <4>1 DEF ReasonInv
    <3> QED BY <3>2, <3>3
  <2> HIDE DEF t
  <2> QED BY <1>1, <1>2, <2>1, <2>2 DEF ReasonInv, Poll, Justified
<1> QED BY <1>3, <1>4, <1>5, <1>6

LEMMA EntryReasons ==
  ASSUME TypeInv, ReasonInv, Record \/ RecordSkipped \/ Mark \/ MarkFails
  PROVE  ReasonInv'
<1> USE DEF SetPoll, At
<1> DEFINE a == Head(poll.todo)[1]
           d == Head(poll.todo)[2]
           t == Tail(poll.todo)
<1>1. UNCHANGED <<overdue, parked, outcome, direct, asked>>
  BY DEF Record, RecordSkipped, Mark, MarkFails, graphs, rest
<1>2. poll \in Poll /\ PollInv /\ poll.todo # <<>>
  BY DEF TypeInv, TypeOK, PollInv, Record, RecordSkipped, Mark, MarkFails
<1>3. a \in Approvals /\ d \in Answers /\ <<a, d>> \in asked /\ InSheet(a)
      /\ \A i \in DOMAIN t : t[i] \in asked
  BY <1>2, HeadOfTodo DEF ReasonInv
<1>4. \/ poll'.writes = [poll.writes EXCEPT ![a] = d]
      \/ poll'.writes = poll.writes
  BY <1>2 DEF Record, RecordSkipped, Mark, MarkFails, Poll
<1>5. /\ poll'.todo = t \/ poll'.todo = poll.todo
      /\ poll'.expired = poll.expired /\ poll'.wake = poll.wake
  BY <1>2 DEF Record, RecordSkipped, Mark, MarkFails, Poll
<1>6. \/ UNCHANGED sheet
      \/ sheet' = [sheet EXCEPT ![FirstRow(a)] = [answer |-> d, synced |-> TRUE]]
  BY DEF Record, RecordSkipped, Mark, MarkFails
<1> HIDE DEF a, d, t
<1>7. \A r \in SheetRows : sheet'[r].answer \in Answers => <<RowOf[r], sheet'[r].answer>> \in asked
  BY <1>3, <1>6, FirstRowType DEF ReasonInv, TypeInv, TypeOK
<1>8. \A b \in Approvals : poll'.writes[b] # None => Justified(b, poll'.writes[b])
  BY <1>2, <1>3, <1>4 DEF ReasonInv, Poll, Justified
<1>9. /\ \A i \in DOMAIN poll'.todo : poll'.todo[i] \in asked
      /\ \A i \in DOMAIN poll'.wake : Justified(poll'.wake[i][1], poll'.wake[i][2])
      /\ poll'.expired \subseteq overdue /\ \A b \in parked : outcome[b] = None
      /\ direct \subseteq asked
  BY <1>3, <1>5 DEF ReasonInv
<1> QED BY <1>1, <1>7, <1>8, <1>9 DEF ReasonInv, Justified

LEMMA CommitReasons == ASSUME TypeInv, ReasonInv, Commit PROVE ReasonInv'
<1>1. /\ poll' = [NoPoll EXCEPT !.pc = "resume", !.wake = Wakes]
      /\ UNCHANGED <<overdue, parked, outcome, sheet, direct, asked>>
  BY DEF Commit, SetPoll, Wakes, graphs, rest
<1>2. \A i \in DOMAIN poll.act : poll.act[i] \in Approvals /\ poll.writes[poll.act[i]] # None
  BY DEF TypeInv, TypeOK, Poll, PollInv
<1>3. \A i \in DOMAIN Wakes : Justified(Wakes[i][1], Wakes[i][2])
  BY <1>2 DEF Wakes, ReasonInv
<1> QED BY <1>1, <1>3 DEF ReasonInv, NoPoll, Justified

LEMMA ResumeReasons == ASSUME TypeInv, ReasonInv, ResumeActioned PROVE ReasonInv'
<1> DEFINE a == Head(poll.wake)[1]
           d == Head(poll.wake)[2]
<1>1. /\ poll' = [poll EXCEPT !.wake = Tail(poll.wake)] /\ poll.wake # <<>>
      /\ Resume(a, d)
      /\ UNCHANGED <<overdue, sheet, direct, asked>>
  BY DEF ResumeActioned, SetPoll, rest
<1>2. a \in Approvals /\ \A i \in DOMAIN Tail(poll.wake) :
                            Justified(Tail(poll.wake)[i][1], Tail(poll.wake)[i][2])
  BY <1>1, HeadOfWake DEF ReasonInv
<1>3. poll \in Poll
  BY DEF TypeInv, TypeOK
<1>4. \A b \in parked' : outcome'[b] = None
  BY <1>1, <1>2, OutcomeStays DEF ReasonInv, TypeInv
<1> HIDE DEF a, d
<1> QED BY <1>1, <1>2, <1>3, <1>4 DEF ReasonInv, Poll, Justified

LEMMA ResumeFailsReasons == ASSUME TypeInv, ReasonInv, ResumeFails PROVE ReasonInv'
<1>1. /\ poll' = [poll EXCEPT !.wake = Tail(poll.wake)] /\ poll.wake # <<>>
      /\ UNCHANGED <<overdue, parked, outcome, sheet, direct, asked>>
  BY DEF ResumeFails, Unresumed, SetPoll, rest, graphs
<1>2. \A i \in DOMAIN Tail(poll.wake) : Justified(Tail(poll.wake)[i][1], Tail(poll.wake)[i][2])
  BY <1>1, HeadOfWake DEF ReasonInv
<1>3. poll \in Poll
  BY DEF TypeInv, TypeOK
<1> QED BY <1>1, <1>2, <1>3 DEF ReasonInv, Poll, Justified

LEMMA ReasonStep == TypeInv /\ ReasonInv /\ [Next]_vars => ReasonInv'
<1> SUFFICES ASSUME TypeInv, ReasonInv, [Next]_vars PROVE ReasonInv'
  OBVIOUS
<1>1. CASE UNCHANGED vars
  BY <1>1 DEF vars, ReasonInv, Justified
<1> QED BY <1>1, OutsideReasons, EndReasons, LookReasons, EntryReasons, CommitReasons, ResumeReasons,
           ResumeFailsReasons
        DEF Next, PollNext

-----------------------------------------------------------------------------
(* The detailed job implements the atomic one *)

deliveryVars == <<asked, overdue, decision, outcome>>

LEMMA DeliveryInit == Init => Delivery!Init
  BY DEF Init, Delivery!Init, None

\* A graph that resumes takes its one outcome, or nothing of the queue changes.
LEMMA ResumeDelivers ==
  ASSUME TypeInv, ReasonInv, NEW a \in Approvals, NEW d \in Verdicts,
         Resume(a, d), Justified(a, d), UNCHANGED <<asked, overdue>>
  PROVE  [Delivery!Next]_deliveryVars
<1>1. CASE a \in parked
  <2>1. Delivery!Wake(a, d)
    BY <1>1 DEF Resume, Delivery!Wake, Delivery!Justified, Justified, ReasonInv, None
  <2> QED BY <2>1 DEF Delivery!Next, Verdicts, Answers, Delivery!Answers
<1>2. CASE a \notin parked
  BY <1>2 DEF Resume, deliveryVars
<1> QED BY <1>1, <1>2

\* A resume that comes to nothing may still have recorded its decision.
LEMMA UnresumedDelivers ==
  ASSUME TypeInv, NEW a \in Approvals, NEW d \in Verdicts,
         Unresumed(a, d), Justified(a, d), UNCHANGED <<asked, overdue>>
  PROVE  [Delivery!Next]_deliveryVars
<1>1. /\ UNCHANGED outcome /\ decision \in [Approvals -> {"pending"} \cup Verdicts]
      /\ UNCHANGED decision \/ decision' = [decision EXCEPT ![a] = d]
  BY DEF Unresumed, graphs, TypeInv, TypeOK
<1>2. CASE decision' = [decision EXCEPT ![a] = d]
  <2>1. decision' \in [Approvals -> {"pending", "timeout"} \cup Answers]
    BY <1>1, <1>2 DEF Verdicts
  <2>2. \A b \in Approvals : decision'[b] # decision[b] => Justified(b, decision'[b])
    BY <1>1, <1>2
  <2>3. Delivery!Record
    BY <1>1, <2>1, <2>2
       DEF Delivery!Record, Delivery!Justified, Justified, Answers, Delivery!Answers
  <2> QED BY <2>3 DEF Delivery!Next
<1> QED BY <1>1, <1>2 DEF deliveryVars

LEMMA DeliveryStep == TypeInv /\ ReasonInv /\ [Next]_vars => [Delivery!Next]_deliveryVars
<1> SUFFICES ASSUME TypeInv, ReasonInv, [Next]_vars PROVE [Delivery!Next]_deliveryVars
  OBVIOUS
<1>1. ASSUME NEW r \in SheetRows, NEW d \in Answers, EditSheet(r, d) PROVE Delivery!Next
  <2>1. RowOf[r] \in Approvals /\ Delivery!Ask(RowOf[r], d)
    BY <1>1, SheetAssumption DEF EditSheet, Answered, graphs, Delivery!Ask
  <2> QED BY <2>1 DEF Delivery!Next, Answers, Delivery!Answers
<1>2. ASSUME NEW a \in Approvals, NEW d \in Answers, Approve(a, d) PROVE Delivery!Next
  <2>1. Delivery!Ask(a, d)
    BY <1>2 DEF Approve, Answered, graphs, Delivery!Ask
  <2> QED BY <2>1 DEF Delivery!Next, Answers, Delivery!Answers
<1>3. ASSUME NEW a \in Approvals, Deadline(a) PROVE Delivery!Next
  <2>1. Delivery!Deadline(a)
    BY <1>3 DEF Deadline, graphs, Delivery!Deadline
  <2> QED BY <2>1 DEF Delivery!Next
<1>4. ASSUME NEW a \in Approvals, NEW d \in Answers, ResumeDirect(a, d)
      PROVE  [Delivery!Next]_deliveryVars
  <2>1. Resume(a, d) /\ Justified(a, d) /\ UNCHANGED <<asked, overdue>>
    BY <1>4 DEF ResumeDirect, rest, ReasonInv, Justified
  <2> QED BY <2>1, ResumeDelivers DEF Verdicts
<1>5. CASE Commit
  <2>1. decision' \in [Approvals -> {"pending", "timeout"} \cup Answers]
    BY <1>5 DEF Commit, Locked, TypeInv, TypeOK, Poll, Verdicts
  <2>2. \A a \in Approvals : decision'[a] # decision[a] => Justified(a, decision'[a])
    BY <1>5 DEF Commit, Locked, ReasonInv
  <2>3. UNCHANGED <<asked, overdue, outcome>>
    BY <1>5 DEF Commit, rest, graphs
  <2>4. Delivery!Record
    BY <2>1, <2>2, <2>3 DEF Delivery!Record, Delivery!Justified, Justified, Answers, Delivery!Answers
  <2> QED BY <2>4 DEF Delivery!Next
<1>6. CASE ResumeActioned
  <2>1. /\ Head(poll.wake)[1] \in Approvals /\ Head(poll.wake)[2] \in Verdicts
        /\ Justified(Head(poll.wake)[1], Head(poll.wake)[2])
    BY <1>6, HeadOfWake DEF ResumeActioned, ReasonInv
  <2>2. Resume(Head(poll.wake)[1], Head(poll.wake)[2]) /\ UNCHANGED <<asked, overdue>>
    BY <1>6 DEF ResumeActioned, rest
  <2> QED BY <2>1, <2>2, ResumeDelivers
<1>7. ASSUME NEW a \in Approvals, NEW d \in Answers, ResumeDirectFails(a, d)
      PROVE  [Delivery!Next]_deliveryVars
  <2>1. Unresumed(a, d) /\ Justified(a, d) /\ UNCHANGED <<asked, overdue>>
    BY <1>7 DEF ResumeDirectFails, rest, ReasonInv, Justified
  <2> QED BY <2>1, UnresumedDelivers DEF Verdicts
<1>8. CASE ResumeFails
  <2>1. /\ Head(poll.wake)[1] \in Approvals /\ Head(poll.wake)[2] \in Verdicts
        /\ Justified(Head(poll.wake)[1], Head(poll.wake)[2])
    BY <1>8, HeadOfWake DEF ResumeFails, ReasonInv
  <2>2. Unresumed(Head(poll.wake)[1], Head(poll.wake)[2]) /\ UNCHANGED <<asked, overdue>>
    BY <1>8 DEF ResumeFails, rest
  <2> QED BY <2>1, <2>2, UnresumedDelivers
<1>9. CASE \/ SelectExpired \/ Expire \/ NotifyExpired \/ ReadDecisions \/ Record \/ Mark \/ PollDone
           \/ NotifyExpiredFails \/ ReadDecisionsFails \/ RecordSkipped \/ MarkFails \/ CommitFails
           \/ LookUpFails \/ Crash \/ UNCHANGED vars
  BY <1>9 DEF LookUpFails, SelectExpired, Expire, NotifyExpired, ReadDecisions, Record, Mark, PollDone,
       NotifyExpiredFails, ReadDecisionsFails, RecordSkipped, MarkFails, CommitFails, Abort, Crash,
       vars, graphs, rest, deliveryVars
<1> QED BY <1>1, <1>2, <1>3, <1>4, <1>5, <1>6, <1>9, <1>7, <1>8 DEF Next, PollNext

\* The job of many steps, with its faults, implements the atomic delivery of
\* ApprovalDelivery: every step is one of its steps or changes nothing it sees.
THEOREM SyncImplements == Spec => ImplementsDelivery
<1>1. Spec => [](TypeInv /\ ReasonInv)
  BY TypeInit, TypeStep, ReasonInit, ReasonStep, PTL DEF Spec
<1> QED BY <1>1, DeliveryInit, DeliveryStep, PTL
        DEF Spec, Delivery!Spec, ImplementsDelivery, deliveryVars

-----------------------------------------------------------------------------
(* Marks and records *)

PendingParked == \A a \in Approvals : decision[a] = "pending" => a \in parked

SyncedInv == PendingParked /\ SyncedMeansRecorded

LEMMA SyncedInit == Init => SyncedInv
  BY DEF Init, SyncedInv, PendingParked, SyncedMeansRecorded

\* Steps that keep the Sheet and the marks and undecide nothing.
LEMMA SyncedStays ==
  ASSUME SyncedInv, UNCHANGED sheet, poll'.marked = poll.marked, lost \subseteq lost',
         \A a \in Approvals : decision'[a] = "pending" =>
           decision[a] = "pending" /\ (a \in parked => a \in parked')
  PROVE  SyncedInv'
  BY SheetAssumption DEF SyncedInv, PendingParked, SyncedMeansRecorded, Open

LEMMA ResumeSynced ==
  ASSUME TypeInv, SyncedInv, NEW a \in Approvals, NEW d \in Verdicts, Resume(a, d),
         UNCHANGED <<sheet, lost>>, poll'.marked = poll.marked
  PROVE  SyncedInv'
<1>1. \A b \in Approvals : decision'[b] = "pending" =>
           decision[b] = "pending" /\ (b \in parked => b \in parked')
  BY DEF Resume, TypeInv, TypeOK, Verdicts, Answers
<1> QED BY <1>1, SyncedStays

LEMMA SyncedStep == TypeInv /\ SyncedInv /\ [Next]_vars => SyncedInv'
<1> SUFFICES ASSUME TypeInv, SyncedInv, [Next]_vars PROVE SyncedInv'
  OBVIOUS
<1> USE DEF SetPoll, At
<1>1. poll \in Poll /\ PollInv
  BY DEF TypeInv, TypeOK
<1>2. ASSUME NEW r \in SheetRows, NEW d \in Answers, EditSheet(r, d) PROVE SyncedInv'
  <2>1. /\ sheet' = [sheet EXCEPT ![r] = [answer |-> d, synced |-> FALSE]] /\ sheet \in [SheetRows -> Cell]
        /\ lost' = lost \ {RowOf[r]} /\ UNCHANGED <<decision, parked, poll>>
    BY <1>2 DEF EditSheet, TypeInv, TypeOK, graphs
  <2>2. r \in Open(RowOf[r])'
    BY <2>1 DEF Open
  <2>3. \A b \in Approvals \ {RowOf[r]} : Open(b)' = Open(b)
    BY <2>1 DEF Open
  <2> QED BY <2>1, <2>2, <2>3, SheetAssumption DEF SyncedInv, PendingParked, SyncedMeansRecorded
<1>3. ASSUME NEW a \in Approvals, NEW d \in Answers, ResumeDirect(a, d) PROVE SyncedInv'
  BY <1>3, ResumeSynced DEF ResumeDirect, history, Verdicts
<1>4. ASSUME NEW a \in Approvals, NEW d \in Verdicts, Unresumed(a, d),
             UNCHANGED sheet, poll'.marked = poll.marked
      PROVE  SyncedInv'
  <2>1. \A b \in Approvals : decision'[b] = "pending" =>
             decision[b] = "pending" /\ (b \in parked => b \in parked')
    BY <1>4 DEF Unresumed, TypeInv, TypeOK, Verdicts, Answers, graphs
  <2> QED BY <1>4, <2>1, SyncedStays DEF Unresumed
<1>5. ASSUME NEW a \in Approvals, NEW d \in Answers, ResumeDirectFails(a, d) PROVE SyncedInv'
  BY <1>4, <1>5 DEF ResumeDirectFails, Verdicts
<1>6. CASE ResumeFails
  <2>1. poll' = [poll EXCEPT !.wake = Tail(poll.wake)] /\ poll.wake # <<>> /\ UNCHANGED sheet
        /\ Unresumed(Head(poll.wake)[1], Head(poll.wake)[2])
    BY <1>6 DEF ResumeFails
  <2>2. poll'.marked = poll.marked
    BY <1>1, <2>1 DEF Poll
  <2> QED BY <1>4, <2>1, <2>2, HeadOfWake
<1>7. CASE ResumeActioned
  <2>1. poll' = [poll EXCEPT !.wake = Tail(poll.wake)] /\ poll.wake # <<>> /\ UNCHANGED <<sheet, lost>>
        /\ Resume(Head(poll.wake)[1], Head(poll.wake)[2])
    BY <1>7 DEF ResumeActioned, history
  <2>2. poll'.marked = poll.marked
    BY <1>1, <2>1 DEF Poll
  <2> QED BY <2>1, <2>2, HeadOfWake, ResumeSynced
<1>8. CASE NotifyExpiredFails \/ ReadDecisionsFails \/ CommitFails \/ Crash
  <2>1. UNCHANGED <<decision, parked, sheet>> /\ lost \cup Dropped(poll.marked) \subseteq lost'
    BY <1>8 DEF NotifyExpiredFails, ReadDecisionsFails, CommitFails, Crash, Abort, graphs
  <2>2. ASSUME NEW r \in SheetRows, sheet[r].synced
        PROVE  decision[RowOf[r]] # "pending" \/ Open(RowOf[r]) # {} \/ RowOf[r] \in lost'
    <3>1. CASE RowOf[r] \in poll.marked
      BY <2>1, <3>1, SheetAssumption DEF Dropped, SyncedInv, PendingParked
    <3>2. CASE RowOf[r] \notin poll.marked
      BY <2>1, <2>2, <3>2 DEF SyncedInv, SyncedMeansRecorded
    <3> QED BY <3>1, <3>2
  <2> QED BY <2>1, <2>2 DEF SyncedInv, PendingParked, SyncedMeansRecorded, Open
<1>9. CASE Commit
  <2>1. /\ decision' = [a \in Approvals |-> IF Locked(a) THEN poll.writes[a] ELSE decision[a]]
        /\ UNCHANGED <<parked, sheet, lost>>
    BY <1>9 DEF Commit, graphs, history
  <2>2. \A a \in Approvals : decision'[a] = "pending" => a \notin poll.marked /\ decision[a] = "pending"
    BY <1>1, <2>1 DEF Locked, PollInv, Poll, Verdicts, Answers, None
  <2> QED BY <2>1, <2>2, SheetAssumption DEF SyncedInv, PendingParked, SyncedMeansRecorded, Open
<1>10. CASE Mark
  <2> DEFINE a == Head(poll.todo)[1]
             c == [answer |-> Head(poll.todo)[2], synced |-> TRUE]
  <2>1. /\ sheet' = [sheet EXCEPT ![FirstRow(a)] = c] /\ poll'.marked = poll.marked \cup {a}
        /\ UNCHANGED <<decision, parked, lost>>
    BY <1>1, <1>10 DEF Mark, graphs, history, Poll
  <2>2. FirstRow(a) \in SheetRows /\ RowOf[FirstRow(a)] = a
    BY <1>1, <1>10, HeadOfTodo, FirstRowType DEF Mark, PollInv
  <2> HIDE DEF a, c
  <2>3. \A b : b # a => Open(b)' = Open(b)
    BY <2>1, <2>2 DEF Open, TypeInv, TypeOK
  <2>4. \A r \in SheetRows : RowOf[r] # a => sheet'[r] = sheet[r]
    BY <2>1, <2>2 DEF TypeInv, TypeOK
  <2> QED BY <2>1, <2>3, <2>4 DEF SyncedInv, PendingParked, SyncedMeansRecorded
<1>11. CASE \/ SelectExpired \/ Expire \/ NotifyExpired \/ ReadDecisions \/ Record \/ PollDone
           \/ RecordSkipped \/ MarkFails \/ LookUpFails \/ UNCHANGED vars
           \/ \E a \in Approvals : Deadline(a) \/ \E d \in Answers : Approve(a, d)
  <2>1. UNCHANGED <<sheet, lost, decision, parked>>
    BY <1>11 DEF SelectExpired, Expire, NotifyExpired, ReadDecisions, Record, PollDone, RecordSkipped,
                MarkFails, LookUpFails, Deadline, Approve, vars, graphs, history
  <2>2. poll'.marked = poll.marked
    <3>1. CASE SelectExpired \/ PollDone \/ LookUpFails
      <4>1. poll.marked = {}
        BY <1>1, <3>1 DEF SelectExpired, PollDone, LookUpFails, PollInv
      <4>2. SelectExpired => poll'.marked = {}
        BY DEF SelectExpired, NoPoll
      <4>3. PollDone \/ LookUpFails => poll'.marked = {}
        BY DEF PollDone, LookUpFails, NoPoll
      <4> QED BY <3>1, <4>1, <4>2, <4>3
    <3>2. CASE Expire \/ NotifyExpired \/ ReadDecisions \/ MarkFails
      BY <1>1, <3>2 DEF Expire, NotifyExpired, ReadDecisions, MarkFails, Poll
    <3>3. CASE Record \/ RecordSkipped
      BY <1>1, <3>3 DEF Record, RecordSkipped, Poll
    <3>4. CASE UNCHANGED vars \/ \E a \in Approvals : Deadline(a) \/ \E d \in Answers : Approve(a, d)
      BY <3>4 DEF vars, Deadline, Approve
    <3> QED BY <1>11, <3>1, <3>2, <3>3, <3>4
  <2> QED BY <2>1, <2>2, SyncedStays
<1> QED BY <1>2, <1>3, <1>7, <1>8, <1>9, <1>10, <1>11, <1>5, <1>6 DEF Next, PollNext

\* A ":synced" row outside a running transaction stands for a recorded decision,
\* another row still to read, or a decision a fault dropped.
THEOREM SyncedSound == Spec => []SyncedMeansRecorded
<1>1. Spec => [](TypeInv /\ SyncedInv)
  BY TypeInit, TypeStep, SyncedInit, SyncedStep, PTL DEF Spec
<1> QED BY <1>1, PTL DEF SyncedInv

-----------------------------------------------------------------------------
(* One token per answer *)

\* None of the four reasons for a second resume.
Clean(a) ==
    /\ answers[a] <= 1 /\ a \notin unmarked
    /\ ~(a \in overdue /\ answers[a] > 0)
    /\ \A r \in SheetRows : RowOf[r] = a => r = FirstRow(a)

\* Where a resume of a may be waiting.
InDirect(a) == \E d \in Verdicts : <<a, d>> \in direct
InTodo(a)   == \E i \in DOMAIN poll.todo : poll.todo[i][1] = a
InAct(a)    == \E i \in DOMAIN poll.act : poll.act[i] = a
InWake(a)   == \E i \in DOMAIN poll.wake : poll.wake[i][1] = a
Waiting(a)  == \/ InDirect(a) \/ Open(a) # {} \/ InTodo(a) \/ InAct(a) \/ InWake(a)
               \/ a \in poll.expired

\* At most one resume of a is waiting, in one place, and then the graph is parked.
Single(a) ==
    /\ \A d, e \in Verdicts : <<a, d>> \in direct /\ <<a, e>> \in direct => d = e
    /\ \A i, j \in DOMAIN poll.todo : poll.todo[i][1] = a /\ poll.todo[j][1] = a => i = j
    /\ \A i, j \in DOMAIN poll.act : poll.act[i] = a /\ poll.act[j] = a => i = j
    /\ \A i, j \in DOMAIN poll.wake : poll.wake[i][1] = a /\ poll.wake[j][1] = a => i = j

Separate(a) ==
    /\ InDirect(a) => Open(a) = {} /\ ~InTodo(a) /\ ~InAct(a) /\ ~InWake(a) /\ a \notin poll.expired
    /\ InTodo(a) => Open(a) # {}
    /\ InAct(a) /\ Open(a) # {} => poll.pc = "mark" /\ Head(poll.todo)[1] = a
    /\ InWake(a) => Open(a) = {}

\* Nothing but a timeout is waiting before the first answer.
Unanswered(a) ==
    /\ answers[a] = 0 => ~InDirect(a) /\ Open(a) = {}
    /\ answers[a] = 0 /\ a \notin overdue => ~InAct(a) /\ ~InWake(a) /\ a \in parked

Token(a) == Single(a) /\ Separate(a) /\ Unanswered(a) /\ (Waiting(a) => a \in parked)

TokenInv == (\A a \in Approvals : Clean(a) => Token(a)) /\ ReplayExplained

LEMMA TokenInit == Init => TokenInv
<1> SUFFICES ASSUME Init PROVE TokenInv
  OBVIOUS
<1> USE DEF Init, NoPoll
<1>1. ASSUME NEW a \in Approvals PROVE Token(a)
  BY SheetAssumption DEF Token, Single, Separate, Unanswered, Waiting, InDirect, InTodo, InAct, InWake, Open,
     Answers
<1> QED BY <1>1 DEF TokenInv, ReplayExplained

\* The reasons for a second resume only accumulate.
LEMMA History ==
  ASSUME TypeInv, [Next]_vars
  PROVE  /\ overdue \subseteq overdue' /\ unmarked \subseteq unmarked'
         /\ \A a \in Approvals : answers[a] \in Nat /\ answers'[a] \in Nat /\ answers[a] <= answers'[a]
<1>1. TypeOK /\ \A a \in Approvals : answers[a] \in Nat
  BY DEF TypeInv, TypeOK
<1>2. ASSUME NEW b \in Approvals, NEW d, Answered(b, d)
      PROVE  \A a \in Approvals : answers'[a] \in Nat /\ answers[a] <= answers'[a]
  BY <1>1, <1>2, AnswerCounts
<1>3. ASSUME NEW r \in SheetRows, NEW d \in Answers, EditSheet(r, d)
      PROVE  UNCHANGED <<overdue, unmarked>> /\ Answered(RowOf[r], d) /\ RowOf[r] \in Approvals
  BY <1>3, SheetAssumption DEF EditSheet, history
<1>4. ASSUME NEW a \in Approvals, NEW d \in Answers, Approve(a, d)
      PROVE  UNCHANGED <<overdue, unmarked>> /\ Answered(a, d)
  BY <1>4 DEF Approve, history
<1>5. ASSUME NEW a \in Approvals, Deadline(a)
      PROVE  UNCHANGED <<unmarked, answers>> /\ overdue \subseteq overdue'
  BY <1>5 DEF Deadline, history
<1>6. ASSUME \/ PollNext \/ NotifyExpiredFails \/ ReadDecisionsFails \/ RecordSkipped \/ MarkFails
             \/ CommitFails \/ ResumeFails \/ LookUpFails \/ Crash \/ UNCHANGED vars
             \/ \E a \in Approvals, d \in Answers : ResumeDirect(a, d) \/ ResumeDirectFails(a, d)
      PROVE  UNCHANGED <<overdue, answers>> /\ unmarked \subseteq unmarked'
  BY <1>6 DEF PollNext, SelectExpired, Expire, NotifyExpired, ReadDecisions, Record, Mark, Commit,
       ResumeActioned, PollDone, NotifyExpiredFails, ReadDecisionsFails, RecordSkipped, MarkFails,
       CommitFails, Abort, ResumeFails, LookUpFails, Crash, ResumeDirect, ResumeDirectFails, Unresumed,
       vars, rest, history
<1> QED BY <1>1, <1>2, <1>3, <1>4, <1>5, <1>6 DEF Next

LEMMA CleanStays ==
  ASSUME TypeInv, [Next]_vars, NEW a \in Approvals, Clean(a)'
  PROVE  /\ Clean(a) /\ answers'[a] <= 1
         /\ answers[a] # 0 => answers'[a] = answers[a] /\ a \notin overdue'
<1>1. /\ overdue \subseteq overdue' /\ unmarked \subseteq unmarked'
      /\ answers[a] \in Nat /\ answers'[a] \in Nat /\ answers[a] <= answers'[a]
  BY History
<1>2. /\ answers'[a] <= 1 /\ a \notin unmarked' /\ ~(a \in overdue' /\ answers'[a] > 0)
      /\ \A r \in SheetRows : RowOf[r] = a => r = FirstRow(a)
  BY DEF Clean, FirstRow
<1> QED BY <1>1, <1>2 DEF Clean

\* Steps that leave what waits for a in its place.
LEMMA TokenStays ==
  ASSUME NEW a \in Approvals, TypeInv, Token(a),
         answers'[a] \in Nat, answers[a] # 0 => answers'[a] # 0, overdue \subseteq overdue',
         UNCHANGED poll, \A d \in Verdicts : <<a, d>> \in direct' <=> <<a, d>> \in direct,
         Open(a)' = Open(a), a \in parked => a \in parked'
  PROVE  Token(a)'
<1> USE DEF Token, InDirect, InTodo, InAct, InWake
<1>1. InDirect(a)' <=> InDirect(a)
  OBVIOUS
<1>2. Single(a)'
  BY DEF Single
<1>3. Separate(a)'
  BY <1>1 DEF Separate
<1>4. Unanswered(a)'
  BY <1>1 DEF Unanswered
<1>5. Waiting(a)' => Waiting(a)
  BY <1>1 DEF Waiting
<1> QED BY <1>2, <1>3, <1>4, <1>5

\* A first answer arrives where nothing is waiting.
LEMMA FirstAnswer ==
  ASSUME NEW a \in Approvals, TypeInv, ReasonInv, Token(a), answers[a] = 0, a \notin overdue
  PROVE  /\ ~InDirect(a) /\ Open(a) = {} /\ ~InTodo(a) /\ ~InAct(a) /\ ~InWake(a)
         /\ a \notin poll.expired /\ a \in parked
  BY DEF Token, Unanswered, Separate, ReasonInv

LEMMA AnswerKeeps ==
  ASSUME TypeInv, ReasonInv, NEW a \in Approvals, Clean(a), Clean(a)', Token(a), [Next]_vars,
         \/ \E r \in SheetRows, d \in Answers : EditSheet(r, d)
         \/ \E b \in Approvals, d \in Answers : Approve(b, d)
         \/ \E b \in Approvals : Deadline(b)
  PROVE  Token(a)'
<1> USE DEF graphs, history
<1>1. /\ answers[a] \in Nat /\ answers'[a] \in Nat /\ answers'[a] <= 1 /\ overdue \subseteq overdue'
      /\ answers[a] # 0 => answers'[a] = answers[a]
      /\ answers'[a] # 0 => a \notin overdue
  BY History, CleanStays DEF Clean
<1>2. ASSUME NEW r \in SheetRows, NEW d \in Answers, EditSheet(r, d) PROVE Token(a)'
  <2>1. /\ UNCHANGED <<poll, direct, parked, overdue>> /\ Answered(RowOf[r], d) /\ RowOf[r] \in Approvals
        /\ sheet' = [sheet EXCEPT ![r] = [answer |-> d, synced |-> FALSE]]
        /\ sheet \in [SheetRows -> Cell]
    BY <1>2, SheetAssumption DEF EditSheet, TypeInv, TypeOK
  <2>2. CASE RowOf[r] = a
    <3>1. answers'[a] = answers[a] + 1
      BY <2>1, <2>2, AnswerCounts DEF TypeInv
    <3>2. answers[a] = 0 /\ answers'[a] = 1 /\ a \notin overdue
      BY <1>1, <3>1
    <3>3. /\ ~InDirect(a) /\ ~InTodo(a) /\ ~InAct(a) /\ ~InWake(a) /\ a \notin poll.expired /\ a \in parked
      BY <3>2, FirstAnswer
    <3>4. /\ ~InDirect(a)' /\ ~InTodo(a)' /\ ~InAct(a)' /\ ~InWake(a)' /\ a \notin poll'.expired
          /\ a \in parked'
      BY <2>1, <3>3 DEF InDirect, InTodo, InAct, InWake
    <3>5. Single(a)'
      BY <2>1 DEF Token, Single
    <3> QED BY <3>2, <3>4, <3>5 DEF Token, Separate, Unanswered
  <2>3. CASE RowOf[r] # a
    <3>1. Open(a)' = Open(a)
      BY <2>1, <2>3 DEF Open
    <3> QED BY <1>1, <2>1, <3>1, TokenStays
  <2> QED BY <2>2, <2>3
<1>3. ASSUME NEW b \in Approvals, NEW d \in Answers, Approve(b, d) PROVE Token(a)'
  <2>1. UNCHANGED <<poll, sheet, parked, overdue>> /\ Answered(b, d) /\ direct' = direct \cup {<<b, d>>}
    BY <1>3 DEF Approve
  <2>2. Open(a)' = Open(a)
    BY <2>1 DEF Open
  <2>3. CASE b = a
    <3>1. answers'[a] = answers[a] + 1
      BY <2>1, <2>3, AnswerCounts DEF TypeInv
    <3>2. answers[a] = 0 /\ answers'[a] = 1 /\ a \notin overdue
      BY <1>1, <3>1
    <3>3. /\ ~InDirect(a) /\ Open(a) = {} /\ ~InTodo(a) /\ ~InAct(a) /\ ~InWake(a) /\ a \notin poll.expired
          /\ a \in parked
      BY <3>2, FirstAnswer
    <3>4. /\ Open(a)' = {} /\ ~InTodo(a)' /\ ~InAct(a)' /\ ~InWake(a)' /\ a \notin poll'.expired
          /\ a \in parked'
      BY <2>1, <2>2, <3>3 DEF InTodo, InAct, InWake
    <3>5. Single(a)'
      BY <2>1, <2>3, <3>3 DEF Token, Single, InDirect
    <3> QED BY <3>2, <3>4, <3>5 DEF Token, Separate, Unanswered
  <2>4. CASE b # a
    BY <1>1, <2>1, <2>2, <2>4, TokenStays
  <2> QED BY <2>3, <2>4
<1>4. ASSUME NEW b \in Approvals, Deadline(b) PROVE Token(a)'
  <2>1. UNCHANGED <<poll, sheet, parked, direct, answers>>
    BY <1>4 DEF Deadline
  <2>2. Open(a)' = Open(a)
    BY <2>1 DEF Open
  <2> QED BY <1>1, <2>1, <2>2, TokenStays
<1> QED BY <1>2, <1>3, <1>4

\* A direct resume uses up the one token of its approval.
LEMMA DirectKeeps ==
  ASSUME TypeInv, ReasonInv, NEW a \in Approvals, Clean(a), Token(a),
         NEW b \in Approvals, NEW d \in Answers, ResumeDirect(b, d) \/ ResumeDirectFails(b, d)
  PROVE  Token(a)'
<1>1. /\ UNCHANGED <<poll, sheet, answers, overdue>> /\ direct' = direct \ {<<b, d>>} /\ <<b, d>> \in direct
      /\ (Resume(b, d) \/ UNCHANGED parked) /\ answers[a] \in Nat
  BY DEF ResumeDirect, ResumeDirectFails, Unresumed, graphs, rest, TypeInv, TypeOK
<1>2. Open(a)' = Open(a)
  BY <1>1 DEF Open
<1>3. CASE b = a
  <2>1. InDirect(a) /\ d \in Verdicts
    BY <1>1, <1>3 DEF InDirect, Verdicts
  <2>2. Open(a) = {} /\ ~InTodo(a) /\ ~InAct(a) /\ ~InWake(a) /\ a \notin poll.expired /\ answers[a] # 0
    BY <2>1 DEF Token, Separate, Unanswered
  <2>3. /\ Open(a)' = {} /\ ~InTodo(a)' /\ ~InAct(a)' /\ ~InWake(a)' /\ a \notin poll'.expired
        /\ answers'[a] # 0
    BY <1>1, <1>2, <2>2 DEF InTodo, InAct, InWake
  <2>4. ~InDirect(a)'
    BY <1>1, <1>3, <2>1 DEF InDirect, Token, Single
  <2>5. Single(a)'
    BY <1>1 DEF Token, Single
  <2> QED BY <2>3, <2>4, <2>5 DEF Token, Separate, Unanswered, Waiting
<1>4. CASE b # a
  <2>1. a \in parked => a \in parked'
    BY <1>1, <1>4 DEF Resume
  <2> QED BY <1>1, <1>2, <1>4, <2>1, TokenStays
<1> QED BY <1>3, <1>4

LEMMA EndKeeps ==
  ASSUME TypeInv, NEW a \in Approvals, Token(a),
         \/ NotifyExpiredFails \/ ReadDecisionsFails \/ CommitFails
         \/ PollDone \/ LookUpFails \/ Crash
  PROVE  Token(a)'
<1>1. /\ poll' = NoPoll /\ UNCHANGED <<sheet, parked, answers, overdue>> /\ direct' \subseteq direct
  BY DEF NotifyExpiredFails, ReadDecisionsFails, CommitFails, Abort, PollDone, LookUpFails, Crash,
         SetPoll, rest, graphs
<1>2. Open(a)' = Open(a) /\ (InDirect(a)' => InDirect(a))
  BY <1>1 DEF Open, InDirect
<1>3. ~InTodo(a)' /\ ~InAct(a)' /\ ~InWake(a)' /\ a \notin poll'.expired
  BY <1>1 DEF NoPoll, InTodo, InAct, InWake
<1>4. Single(a)'
  BY <1>1 DEF Token, Single, NoPoll
<1> QED BY <1>1, <1>2, <1>3, <1>4 DEF Token, Separate, Unanswered, Waiting

LEMMA LookKeeps ==
  ASSUME TypeInv, ReasonInv, PendingParked, NEW a \in Approvals, Clean(a), Token(a),
         SelectExpired \/ Expire \/ NotifyExpired \/ ReadDecisions
  PROVE  Token(a)'
<1> USE DEF SetPoll, At
<1>1. UNCHANGED <<sheet, parked, answers, overdue, direct>>
  BY DEF SelectExpired, Expire, NotifyExpired, ReadDecisions, graphs, rest
<1>2. Open(a)' = Open(a) /\ (InDirect(a)' <=> InDirect(a))
  BY <1>1 DEF Open, InDirect
<1>3. poll \in Poll /\ PollInv /\ answers[a] \in Nat
  BY DEF TypeInv, TypeOK
<1>4. \A d, e \in Verdicts : <<a, d>> \in direct' /\ <<a, e>> \in direct' => d = e
  BY <1>1 DEF Token, Single
<1>5. a \in overdue => answers[a] = 0 /\ ~InDirect(a) /\ Open(a) = {}
  BY <1>3 DEF Clean, Token, Unanswered
<1>6. CASE SelectExpired
  <2>1. poll' = [NoPoll EXCEPT !.pc = "expire", !.expired = {b \in overdue : decision[b] = "pending"}]
    BY <1>6 DEF SelectExpired
  <2>2. ~InTodo(a)' /\ ~InAct(a)' /\ ~InWake(a)' /\ (a \in poll'.expired => a \in overdue /\ a \in parked)
    BY <2>1 DEF NoPoll, InTodo, InAct, InWake, PendingParked
  <2>3. Single(a)'
    BY <1>4, <2>1 DEF Single, NoPoll
  <2> QED BY <1>1, <1>2, <1>5, <2>2, <2>3 DEF Token, Separate, Unanswered, Waiting
<1>7. CASE Expire
  <2>1. /\ poll' = [poll EXCEPT !.pc = "notify", !.act = SetToSeq(poll.expired),
                     !.writes = [b \in Approvals |-> IF b \in poll.expired THEN "timeout" ELSE None]]
        /\ poll.pc = "expire"
    BY <1>7 DEF Expire
  <2>2. /\ poll'.act = SetToSeq(poll.expired)
        /\ poll'.todo = <<>> /\ poll'.wake = <<>> /\ poll'.expired = poll.expired
    BY <1>3, <2>1 DEF Poll, PollInv
  <2>3. /\ SetToSeq(poll.expired) \in Seq(poll.expired)
        /\ \A i, j \in DOMAIN SetToSeq(poll.expired) :
             SetToSeq(poll.expired)[i] = SetToSeq(poll.expired)[j] => i = j
    BY <1>3, ApprovalsAssumption, SetToSeqProps, FS_Subset DEF Poll
  <2>4. ~InTodo(a)' /\ ~InWake(a)'
    BY <2>2 DEF InTodo, InWake
  <2>5. InAct(a)' => a \in poll.expired /\ a \in overdue
    BY <2>2, <2>3 DEF InAct, ReasonInv
  <2>6. Single(a)'
    BY <1>4, <2>2, <2>3 DEF Single
  <2> QED BY <1>1, <1>2, <1>5, <2>2, <2>4, <2>5, <2>6 DEF Token, Separate, Unanswered, Waiting
<1>8. CASE NotifyExpired
  <2>1. /\ poll' = [poll EXCEPT !.pc = "read"] /\ poll.pc = "notify"
    BY <1>8 DEF NotifyExpired
  <2>2. /\ poll'.todo = poll.todo /\ poll'.wake = poll.wake /\ poll'.act = poll.act
        /\ poll'.expired = poll.expired
    BY <1>3, <2>1 DEF Poll
  <2>3. (InTodo(a)' <=> InTodo(a)) /\ (InAct(a)' <=> InAct(a)) /\ (InWake(a)' <=> InWake(a))
    BY <2>2 DEF InTodo, InAct, InWake
  <2>4. Single(a)'
    BY <1>1, <2>2 DEF Token, Single
  <2> QED BY <1>1, <1>2, <2>1, <2>2, <2>3, <2>4 DEF Token, Separate, Unanswered, Waiting
<1>9. CASE ReadDecisions
  <2> DEFINE open == InOrder(OpenRows)
             t == ToDo(open)
  <2>1. poll' = [poll EXCEPT !.pc = "record", !.todo = t] /\ poll.pc = "read"
    BY <1>9 DEF ReadDecisions, OpenRows, ToDo
  <2>2. /\ poll'.todo = t /\ poll'.wake = poll.wake /\ poll'.act = poll.act
        /\ poll'.expired = poll.expired
    BY <1>3, <2>1 DEF Poll
  <2>3. \A i \in DOMAIN t : open[i] \in OpenRows /\ t[i][1] = RowOf[open[i]]
    BY ToDoType DEF TypeInv
  <2>4. \A i \in DOMAIN t : t[i][1] = a => open[i] \in Open(a) /\ open[i] = FirstRow(a)
    BY <2>3 DEF OpenRows, Clean
  <2>5. \A i, j \in DOMAIN t : open[i] = open[j] => i = j
    <3> DEFINE n == Cardinality(OpenRows)
    <3>1. n \in Nat /\ open \in [1 .. n -> OpenRows] /\ OpenRows \subseteq Nat
          /\ \A k, l \in 1 .. n : k < l => open[k] < open[l]
      BY OpenRowsInOrder, SheetAssumption DEF OpenRows, SheetRows
    <3>2. DOMAIN t = 1 .. n
      BY <3>1 DEF ToDo
    <3> HIDE DEF open, n, t
    <3>3. \A k \in 1 .. n : k \in Nat
      BY <3>1
    <3>4. \A k \in 1 .. n : open[k] \in OpenRows
      BY <3>1
    <3>5. \A k \in 1 .. n : open[k] \in Nat
      BY <3>1, <3>4
    <3>6. \A k, l \in 1 .. n : open[k] = open[l] => ~(k < l) /\ ~(l < k)
      BY <3>1, <3>3, <3>5
    <3> QED BY <3>2, <3>3, <3>6
  <2> HIDE DEF open, t
  <2>6. InTodo(a)' => Open(a) # {}
    BY <2>2, <2>4 DEF InTodo
  <2>7. (InAct(a)' <=> InAct(a)) /\ (InWake(a)' <=> InWake(a)) /\ ~(InAct(a) /\ Open(a) # {})
    BY <2>1, <2>2 DEF InAct, InWake, Token, Separate
  <2>8. Single(a)'
    BY <1>1, <2>2, <2>4, <2>5 DEF Token, Single
  <2> QED BY <1>1, <1>2, <2>1, <2>2, <2>6, <2>7, <2>8 DEF Token, Separate, Unanswered, Waiting
<1> QED BY <1>6, <1>7, <1>8, <1>9

\* The steps of the loop over the answers read.
LEMMA EntryKeeps ==
  ASSUME TypeInv, NEW a \in Approvals, Clean(a), Clean(a)', Token(a),
         Record \/ RecordSkipped \/ Mark \/ MarkFails
  PROVE  Token(a)'
<1> USE DEF SetPoll, At
<1> DEFINE b == Head(poll.todo)[1]
           d == Head(poll.todo)[2]
           t == Tail(poll.todo)
<1>1. UNCHANGED <<parked, answers, overdue, direct>>
  BY DEF Record, RecordSkipped, Mark, MarkFails, graphs, rest
<1>2. poll \in Poll /\ PollInv /\ answers[a] \in Nat /\ sheet \in [SheetRows -> Cell]
  BY DEF TypeInv, TypeOK
<1>3. poll.todo # <<>>
  BY <1>2 DEF Record, RecordSkipped, Mark, MarkFails, PollInv
<1>4. /\ 1 \in DOMAIN poll.todo /\ poll.todo[1][1] = b /\ b \in Approvals /\ InSheet(b)
      /\ \A i \in DOMAIN t : /\ i \in Nat /\ i # 0 /\ i + 1 \in DOMAIN poll.todo
                             /\ t[i] = poll.todo[i + 1]
  BY <1>3, HeadOfTodo
<1>5. /\ \A i, j \in DOMAIN t : t[i][1] = a /\ t[j][1] = a => i = j
      /\ (\E i \in DOMAIN t : t[i][1] = a) => InTodo(a) /\ b # a
  <2>1. \A i, j \in DOMAIN poll.todo : poll.todo[i][1] = a /\ poll.todo[j][1] = a => i = j
    BY DEF Token, Single
  <2> HIDE DEF t, b
  <2>2. ASSUME NEW i \in DOMAIN t, NEW j \in DOMAIN t, t[i][1] = a, t[j][1] = a PROVE i = j
    <3>1. i + 1 = j + 1
      BY <1>4, <2>1, <2>2
    <3> QED BY <1>4, <3>1
  <2>3. ASSUME NEW i \in DOMAIN t, t[i][1] = a PROVE InTodo(a) /\ b # a
    <3>1. i + 1 \in DOMAIN poll.todo /\ poll.todo[i + 1][1] = a /\ i + 1 # 1
      BY <1>4, <2>3
    <3> QED BY <1>4, <2>1, <3>1 DEF InTodo
  <2> QED BY <2>2, <2>3
<1>6. b = a => /\ InTodo(a) /\ Open(a) # {} /\ answers[a] # 0 /\ ~InDirect(a) /\ a \in parked /\ ~InWake(a)
  BY <1>4 DEF InTodo, Token, Separate, Unanswered, Waiting
<1>7. /\ poll'.wake = poll.wake /\ poll'.expired = poll.expired
      /\ InDirect(a)' <=> InDirect(a)
  BY <1>1, <1>2 DEF Record, RecordSkipped, Mark, MarkFails, Poll, InDirect
<1>8. InWake(a)' <=> InWake(a)
  BY <1>7 DEF InWake
<1>9. /\ \A e, f \in Verdicts : <<a, e>> \in direct' /\ <<a, f>> \in direct' => e = f
      /\ \A i, j \in DOMAIN poll'.wake : poll'.wake[i][1] = a /\ poll'.wake[j][1] = a => i = j
  BY <1>1, <1>7 DEF Token, Single
<1> HIDE DEF b, t, d
<1>10. CASE Record
  <2>1. /\ poll' = [poll EXCEPT !.pc = "mark", !.writes = [poll.writes EXCEPT ![b] = d],
                                !.act = Append(poll.act, b)]
        /\ poll.pc = "record" /\ UNCHANGED sheet
    BY <1>2, <1>10 DEF Record, b, d, Poll
  <2>2. poll'.pc = "mark" /\ poll'.todo = poll.todo /\ poll'.act = Append(poll.act, b)
    BY <1>2, <2>1 DEF Poll
  <2>3. Open(a)' = Open(a) /\ (InTodo(a)' <=> InTodo(a))
    BY <2>1, <2>2 DEF Open, InTodo
  <2>4. b = a => ~InAct(a)
    BY <1>6, <2>1 DEF Token, Separate
  <2>5. poll.act \in Seq(Approvals) /\ Len(poll.act) \in Nat /\ DOMAIN poll.act = 1 .. Len(poll.act)
        /\ DOMAIN poll'.act = 1 .. (Len(poll.act) + 1) /\ poll'.act[Len(poll.act) + 1] = b
        /\ \A i \in DOMAIN poll.act : poll'.act[i] = poll.act[i]
    BY <1>2, <1>4, <2>2 DEF Poll
  <2>6. /\ InAct(a)' <=> InAct(a) \/ b = a
        /\ \A i, j \in DOMAIN poll'.act : poll'.act[i] = a /\ poll'.act[j] = a => i = j
    <3>1. \A i \in DOMAIN poll'.act : i \in DOMAIN poll.act \/ i = Len(poll.act) + 1
      BY <2>5
    <3>2. \A i, j \in DOMAIN poll.act : poll.act[i] = a /\ poll.act[j] = a => i = j
      BY DEF Token, Single
    <3>3. DOMAIN poll.act \subseteq DOMAIN poll'.act /\ Len(poll.act) + 1 \in DOMAIN poll'.act
      BY <2>5
    <3> QED BY <2>4, <2>5, <3>1, <3>2, <3>3 DEF InAct
  <2>7. Single(a)'
    BY <1>9, <2>2, <2>6 DEF Token, Single
  <2>8. Head(poll'.todo)[1] = b
    BY <2>2 DEF b
  <2>9. Separate(a)'
    BY <1>6, <1>7, <1>8, <2>1, <2>2, <2>3, <2>6, <2>8 DEF Token, Separate
  <2> QED BY <1>1, <1>6, <1>7, <1>8, <2>3, <2>6, <2>7, <2>9 DEF Token, Unanswered, Waiting
<1>11. CASE RecordSkipped \/ MarkFails
  <2>1. poll'.todo = t /\ poll'.act = poll.act /\ poll'.pc = "record" /\ UNCHANGED sheet /\ b # a
    BY <1>2, <1>11 DEF RecordSkipped, MarkFails, b, t, Poll, Clean
  <2>2. Open(a)' = Open(a) /\ (InTodo(a)' => InTodo(a)) /\ (InAct(a)' <=> InAct(a))
    BY <1>5, <2>1 DEF Open, InTodo, InAct
  <2>3. InAct(a) => Open(a) = {}
    BY <1>11, <2>1 DEF Token, Separate, RecordSkipped, MarkFails, b
  <2>4. Single(a)'
    BY <1>5, <1>9, <2>1 DEF Token, Single
  <2>5. Separate(a)'
    BY <1>7, <1>8, <2>2, <2>3 DEF Token, Separate
  <2> QED BY <1>1, <1>7, <1>8, <2>2, <2>4, <2>5 DEF Token, Unanswered, Waiting
<1>12. CASE Mark
  <2>1. /\ poll'.todo = t /\ poll'.act = poll.act /\ poll'.pc = "record" /\ poll.pc = "mark"
        /\ sheet' = [sheet EXCEPT ![FirstRow(b)] = [answer |-> d, synced |-> TRUE]]
    BY <1>2, <1>12 DEF Mark, b, d, t, Poll
  <2>2. FirstRow(b) \in SheetRows /\ RowOf[FirstRow(b)] = b
    BY <1>4, FirstRowType
  <2>3. (InTodo(a)' => InTodo(a) /\ b # a) /\ (InAct(a)' <=> InAct(a))
    BY <1>5, <2>1 DEF InTodo, InAct
  <2>4. IF b = a THEN Open(a)' = {} ELSE Open(a)' = Open(a)
    BY <1>2, <2>1, <2>2 DEF Open, Clean
  <2>5. b # a /\ InAct(a) => Open(a) = {}
    BY <2>1 DEF Token, Separate, b
  <2>6. Single(a)'
    BY <1>5, <1>9, <2>1 DEF Token, Single
  <2>7. Separate(a)'
    BY <1>6, <1>7, <1>8, <2>3, <2>4, <2>5 DEF Token, Separate
  <2> QED BY <1>1, <1>6, <1>7, <1>8, <2>3, <2>4, <2>6, <2>7 DEF Token, Unanswered, Waiting
<1> QED BY <1>10, <1>11, <1>12

LEMMA CommitKeeps == ASSUME TypeInv, NEW a \in Approvals, Token(a), Commit PROVE Token(a)'
<1>1. /\ poll' = [NoPoll EXCEPT !.pc = "resume", !.wake = Wakes] /\ poll.pc = "record"
      /\ UNCHANGED <<parked, sheet, direct, answers, overdue>>
  BY DEF Commit, SetPoll, At, Wakes, graphs, rest
<1>2. /\ poll'.wake = Wakes /\ poll'.todo = <<>> /\ poll'.act = <<>> /\ poll'.expired = {}
  BY <1>1 DEF NoPoll
<1>3. DOMAIN Wakes = DOMAIN poll.act /\ \A i \in DOMAIN Wakes : Wakes[i][1] = poll.act[i]
  BY DEF Wakes
<1>4. Open(a)' = Open(a) /\ (InDirect(a)' <=> InDirect(a)) /\ ~InTodo(a)' /\ ~InAct(a)'
      /\ (InWake(a)' <=> InAct(a))
  BY <1>1, <1>2, <1>3 DEF Open, InDirect, InTodo, InAct, InWake
<1>5. InAct(a) => Open(a) = {}
  BY <1>1 DEF Token, Separate
<1>6. Single(a)'
  BY <1>1, <1>2, <1>3 DEF Token, Single
<1> QED BY <1>1, <1>2, <1>4, <1>5, <1>6 DEF Token, Separate, Unanswered, Waiting

LEMMA WakeKeeps ==
  ASSUME TypeInv, NEW a \in Approvals, Clean(a), Token(a), ResumeActioned \/ ResumeFails
  PROVE  Token(a)'
<1> DEFINE b == Head(poll.wake)[1]
           w == Tail(poll.wake)
<1>1. /\ poll' = [poll EXCEPT !.wake = w] /\ poll.pc = "resume" /\ poll.wake # <<>>
      /\ Resume(b, Head(poll.wake)[2]) \/ UNCHANGED parked
      /\ UNCHANGED <<sheet, direct, answers, overdue>>
  BY DEF ResumeActioned, ResumeFails, Unresumed, SetPoll, At, rest, graphs
<1>2. poll \in Poll /\ PollInv
  BY DEF TypeInv, TypeOK
<1>3. /\ 1 \in DOMAIN poll.wake /\ poll.wake[1][1] = b
      /\ \A i \in DOMAIN w : i \in Nat /\ i # 0 /\ i + 1 \in DOMAIN poll.wake /\ w[i] = poll.wake[i + 1]
  BY <1>1, HeadOfWake
<1> HIDE DEF b, w
<1>4. /\ poll'.wake = w /\ poll'.todo = <<>> /\ poll'.act = <<>> /\ poll'.expired = {}
  BY <1>1, <1>2 DEF Poll, PollInv
<1>5. /\ \A i, j \in DOMAIN w : w[i][1] = a /\ w[j][1] = a => i = j
      /\ (\E i \in DOMAIN w : w[i][1] = a) => InWake(a) /\ b # a
  <2>1. \A i, j \in DOMAIN poll.wake : poll.wake[i][1] = a /\ poll.wake[j][1] = a => i = j
    BY DEF Token, Single
  <2>2. ASSUME NEW i \in DOMAIN w, NEW j \in DOMAIN w, w[i][1] = a, w[j][1] = a PROVE i = j
    <3>1. i + 1 = j + 1
      BY <1>3, <2>1, <2>2
    <3> QED BY <1>3, <3>1
  <2>3. ASSUME NEW i \in DOMAIN w, w[i][1] = a PROVE InWake(a) /\ b # a
    <3>1. i + 1 \in DOMAIN poll.wake /\ poll.wake[i + 1][1] = a /\ i + 1 # 1
      BY <1>3, <2>3
    <3> QED BY <1>3, <2>1, <3>1 DEF InWake
  <2> QED BY <2>2, <2>3
<1>6. Open(a)' = Open(a) /\ (InDirect(a)' <=> InDirect(a)) /\ ~InTodo(a)' /\ ~InAct(a)'
      /\ (InWake(a)' => InWake(a) /\ b # a)
  BY <1>1, <1>4, <1>5 DEF Open, InDirect, InTodo, InAct, InWake
<1>7. Single(a)'
  BY <1>1, <1>4, <1>5 DEF Token, Single
<1>8. CASE b = a
  <2>1. InWake(a)
    BY <1>3, <1>8 DEF InWake
  <2>2. Open(a) = {} /\ ~InDirect(a) /\ (answers[a] = 0 => a \in overdue)
    BY <2>1 DEF Token, Separate, Unanswered
  <2> QED BY <1>1, <1>4, <1>6, <1>7, <1>8, <2>2 DEF Token, Separate, Unanswered, Waiting
<1>9. CASE b # a
  <2>1. a \in parked => a \in parked'
    BY <1>1, <1>9 DEF Resume
  <2> QED BY <1>1, <1>4, <1>6, <1>7, <2>1 DEF Token, Separate, Unanswered, Waiting
<1> QED BY <1>8, <1>9

\* A graph disturbed in this step was not waiting, so it has one of the reasons.
LEMMA ReplayStep == TypeInv /\ TokenInv /\ [Next]_vars => ReplayExplained'
<1> SUFFICES ASSUME TypeInv, TokenInv, [Next]_vars PROVE ReplayExplained'
  OBVIOUS
<1>1. \A a \in stray' \ stray : a \in Approvals /\ a \notin parked /\ Waiting(a)
  <2>1. ASSUME NEW a \in Approvals, NEW d \in Answers, ResumeDirect(a, d)
        PROVE  stray' \ stray \subseteq {a} \ parked /\ Waiting(a)
    BY <2>1 DEF ResumeDirect, Resume, Waiting, InDirect, Verdicts
  <2>2. ASSUME ResumeActioned
        PROVE  /\ stray' \ stray \subseteq {Head(poll.wake)[1]} \ parked
               /\ Head(poll.wake)[1] \in Approvals /\ Waiting(Head(poll.wake)[1])
    BY <2>2, HeadOfWake DEF ResumeActioned, Resume, Waiting, InWake
  <2>3. CASE \/ SelectExpired \/ Expire \/ NotifyExpired \/ ReadDecisions \/ Record \/ Mark \/ PollDone
             \/ NotifyExpiredFails \/ ReadDecisionsFails \/ RecordSkipped \/ MarkFails \/ CommitFails
             \/ ResumeFails \/ LookUpFails \/ Crash \/ UNCHANGED vars \/ Commit
             \/ \E r \in SheetRows, d \in Answers : EditSheet(r, d)
             \/ \E a \in Approvals :
                  Deadline(a) \/ \E d \in Answers : Approve(a, d) \/ ResumeDirectFails(a, d)
    <3>1. UNCHANGED stray
      BY <2>3 DEF SelectExpired, Expire, NotifyExpired, ReadDecisions, Record, Mark, PollDone,
         NotifyExpiredFails, ReadDecisionsFails, RecordSkipped, MarkFails, CommitFails, Abort,
         ResumeFails, LookUpFails, ResumeDirectFails, Unresumed, Crash,
         Commit, EditSheet, Deadline, Approve, vars, graphs
    <3> QED BY <3>1
  <2> QED BY <2>1, <2>2, <2>3 DEF Next, PollNext
<1>2. \A a \in stray' : a \in Approvals /\ ~Clean(a)
  <2>1. \A a \in stray : a \in Approvals /\ ~Clean(a)
    <3>1. stray \subseteq Approvals /\ \A a \in Approvals : answers[a] \in Nat
      BY DEF TypeInv, TypeOK
    <3> QED BY <3>1 DEF TokenInv, ReplayExplained, Clean
  <2>2. \A a \in stray' \ stray : a \in Approvals /\ ~Clean(a)
    BY <1>1 DEF TokenInv, Token
  <2> QED BY <2>1, <2>2
<1>3. /\ overdue \subseteq overdue' /\ unmarked \subseteq unmarked'
      /\ \A a \in Approvals : answers[a] \in Nat /\ answers'[a] \in Nat /\ answers[a] <= answers'[a]
  BY History
<1>4. ASSUME NEW a \in stray'
      PROVE  \/ answers'[a] > 1 \/ (a \in overdue' /\ answers'[a] > 0) \/ a \in unmarked'
             \/ \E r \in SheetRows : RowOf[r] = a /\ r # FirstRow(a)
  <2>1. a \in Approvals /\ answers[a] \in Nat /\ answers'[a] \in Nat /\ answers[a] <= answers'[a]
    BY <1>2, <1>3
  <2>2. \/ ~(answers[a] <= 1) \/ (a \in overdue /\ answers[a] > 0) \/ a \in unmarked
        \/ \E r \in SheetRows : RowOf[r] = a /\ r # FirstRow(a)
    BY <1>2 DEF Clean
  <2> QED BY <1>3, <2>1, <2>2
<1> QED BY <1>4 DEF ReplayExplained, FirstRow

LEMMA TokenStep == TypeInv /\ ReasonInv /\ SyncedInv /\ TokenInv /\ [Next]_vars => TokenInv'
<1> SUFFICES ASSUME TypeInv, ReasonInv, SyncedInv, TokenInv, [Next]_vars PROVE TokenInv'
  OBVIOUS
<1>1. ASSUME NEW a \in Approvals, Clean(a)' PROVE Token(a)'
  <2>1. Clean(a) /\ Token(a) /\ PendingParked
    BY <1>1, CleanStays DEF TokenInv, SyncedInv
  <2>2. CASE UNCHANGED vars
    <3>1. Open(a)' = Open(a) /\ answers[a] \in Nat
      BY <2>2 DEF vars, Open, TypeInv, TypeOK
    <3> QED BY <2>1, <2>2, <3>1, TokenStays DEF vars
  <2> QED BY <1>1, <2>1, <2>2, AnswerKeeps, DirectKeeps, EndKeeps, LookKeeps, EntryKeeps, CommitKeeps,
             WakeKeeps DEF Next, PollNext
<1>2. ReplayExplained'
  BY ReplayStep
<1> QED BY <1>1, <1>2 DEF TokenInv

\* A graph is resumed once for each approval unless there was a second answer, a
\* timeout beside an answer, a failed mark or a second row with the same id.
THEOREM ReplaySound == Spec => []ReplayExplained
<1>1. Spec => [](TypeInv /\ ReasonInv /\ SyncedInv /\ TokenInv)
  BY TypeInit, TypeStep, ReasonInit, ReasonStep, SyncedInit, SyncedStep, TokenInit, TokenStep, PTL
     DEF Spec
<1> QED BY <1>1, PTL DEF TokenInv
================================================================================
