------------------------ MODULE SlotSchedulerProofs ------------------------
(***************************************************************************)
(* Proofs about the slot scheduler, for any number of posts, days, slots   *)
(* and settings and any choice of requests.                                *)
(***************************************************************************)
EXTENDS SlotScheduler, FiniteSetTheorems, TLAPS

USE BoundsAssumption, PostsAssumption, ConfigsAssumption

-----------------------------------------------------------------------------
(* Types *)

HistType == [Posts -> [free : SUBSET Slot, crossed : BOOLEAN, raced : BOOLEAN]]

LEMMA AvailableType == \A c : Available(c) \in SUBSET Slot
  BY DEF Available

\* The history keeps its type, whatever the step.
LEMMA RecordType ==
  ASSUME TypeOK, NEW D, NEW R, R \in [DOMAIN R -> BOOLEAN], Record(D, R)
  PROVE  hist' \in HistType
<1>1. SUFFICES ASSUME NEW q \in Posts
               PROVE  /\ hist'[q].free \in SUBSET Slot
                      /\ hist'[q].crossed \in BOOLEAN
                      /\ hist'[q].raced \in BOOLEAN
                      /\ hist'[q] = [free |-> hist'[q].free, crossed |-> hist'[q].crossed,
                                     raced |-> hist'[q].raced]
  BY DEF Record, HistType
<1>2. hist[q].free \in SUBSET Slot /\ hist[q].raced \in BOOLEAN /\ hist[q].crossed \in BOOLEAN
  BY DEF TypeOK
<1>3. hist'[q].free \in SUBSET Slot
  BY <1>2, AvailableType DEF Record
<1>4. hist'[q].crossed \in BOOLEAN /\ hist'[q].raced \in BOOLEAN
  BY <1>2 DEF Record, Busy
<1> QED BY <1>3, <1>4 DEF Record

LEMMA NothingType == Nothing \in [DOMAIN Nothing -> BOOLEAN]
  BY DEF Nothing

LEMMA IdleType == IdleCall \in Call /\ NoConfig \in Config
  BY DEF IdleCall, NoConfig, NoSlot, Call, Config, Days, Times

LEMMA InitType == Init => TypeOK
  BY IdleType DEF Init, TypeOK, Statuses, Slot, Days, Times

LEMMA AssignType ==
  ASSUME TypeOK, NEW p \in Posts, Assign(p)
  PROVE  TypeOK'
<1> USE DEF TypeOK
<1>1. CASE Begin(p)
  <2>1. call' \in [Posts -> Call]
    BY <1>1 DEF Begin, Call, Slot
  <2>2. hist' \in HistType
    BY <1>1, RecordType, NothingType DEF Begin
  <2> QED BY <1>1, <2>1, <2>2 DEF Begin, HistType
<1>2. CASE LookFinds(p)
  <2>1. call' \in [Posts -> Call]
    <3>1. PICK t \in call[p].cfg.times :
            call' = [call EXCEPT ![p] = [call[p] EXCEPT !.pc = "found",
                                           !.slot = [day |-> call[p].day, time |-> t]]]
      BY <1>2 DEF LookFinds, FreeTimes
    <3>2. call[p] \in Call /\ t \in Times
      BY <3>1 DEF Call, Config
    <3>3. [day |-> call[p].day, time |-> t] \in Slot
      BY <3>2 DEF Call, Slot
    <3>4. [call[p] EXCEPT !.pc = "found", !.slot = [day |-> call[p].day, time |-> t]] \in Call
      BY <3>2, <3>3 DEF Call
    <3> QED BY <3>1, <3>4
  <2>2. hist' \in HistType
    BY <1>2, RecordType, NothingType DEF LookFinds
  <2> QED BY <1>2, <2>1, <2>2 DEF LookFinds, HistType
<1>3. CASE LookNextDay(p)
  <2>1. call' \in [Posts -> Call]
    <3>1. call[p] \in Call /\ call[p].day + 1 \in Days
      BY <1>3 DEF LookNextDay, Call, Days
    <3>2. [call[p] EXCEPT !.day = call[p].day + 1] \in Call
      BY <3>1 DEF Call
    <3> QED BY <1>3, <3>2 DEF LookNextDay
  <2>2. hist' \in HistType
    BY <1>3, RecordType, NothingType DEF LookNextDay
  <2> QED BY <1>3, <2>1, <2>2 DEF LookNextDay, HistType
<1>4. CASE LookRaises(p)
  <2>1. call' \in [Posts -> Call] /\ status' \in [Posts -> Statuses]
    BY <1>4, IdleType DEF LookRaises, Statuses
  <2>2. hist' \in HistType
    BY <1>4, RecordType, NothingType DEF LookRaises
  <2> QED BY <1>4, <2>1, <2>2 DEF LookRaises, HistType
<1>5. CASE Commit(p)
  <2>1. call' \in [Posts -> Call] /\ booked' \in [Posts -> Slot \cup {NoSlot}]
    BY <1>5, IdleType DEF Commit, Call
  <2>2. hist' \in HistType
    <3> DEFINE R == [q \in {p} |-> hist[p].crossed]
    <3>1. R \in [DOMAIN R -> BOOLEAN]
      OBVIOUS
    <3> QED BY <1>5, <3>1, RecordType DEF Commit
  <2> QED BY <1>5, <2>1, <2>2 DEF Commit, HistType
<1> QED BY <1>1, <1>2, <1>3, <1>4, <1>5 DEF Assign

LEMMA RestType ==
  ASSUME TypeOK, NEW p \in Posts,
         Fail(p) \/ Publish(p) \/ Revive(p) \/ Extract(p) \/ (\E s \in Slot : Reschedule(p, s))
  PROVE  TypeOK'
<1> USE DEF TypeOK
<1> DEFINE One(b) == [q \in {p} |-> b]
<1>0. \A b \in BOOLEAN : One(b) \in [DOMAIN One(b) -> BOOLEAN]
  OBVIOUS
<1>1. hist' \in HistType
  <2> HIDE DEF One
  <2>1. CASE Fail(p) \/ Publish(p)
    BY <2>1, RecordType, NothingType DEF Fail, Publish
  <2>2. CASE Revive(p)
    BY <2>2, <1>0, RecordType, NothingType DEF Revive, One
  <2>3. CASE Extract(p)
    BY <2>3, <1>0, RecordType DEF Extract, One
  <2>4. CASE \E s \in Slot : Reschedule(p, s)
    BY <2>4, <1>0, RecordType DEF Reschedule, One
  <2> QED BY <2>1, <2>2, <2>3, <2>4
<1>2. status' \in [Posts -> Statuses] /\ booked' \in [Posts -> Slot \cup {NoSlot}]
  BY DEF Fail, Publish, Revive, Extract, Reschedule, Statuses
<1>3. UNCHANGED <<cfg, now, call>>
  BY DEF Fail, Publish, Revive, Extract, Reschedule
<1> QED BY <1>1, <1>2, <1>3 DEF HistType

LEMMA WorldType ==
  ASSUME TypeOK, SetConfig \/ Tick
  PROVE  TypeOK'
<1> USE DEF TypeOK
<1>1. hist' \in HistType
  BY RecordType, NothingType DEF SetConfig, Tick
<1>2. CASE SetConfig
  BY <1>1, <1>2 DEF SetConfig, HistType
<1>3. CASE Tick
  <2>1. now' \in Slot
    BY <1>3 DEF Tick, Slot, Days, Times
  <2> QED BY <1>1, <1>3, <2>1 DEF Tick, HistType
<1> QED BY <1>2, <1>3

LEMMA TypeStep == TypeOK /\ [Next]_vars => TypeOK'
<1> SUFFICES ASSUME TypeOK, [Next]_vars PROVE TypeOK'
  OBVIOUS
<1>1. CASE Next
  BY <1>1, AssignType, RestType, WorldType DEF Next
<1>2. CASE UNCHANGED vars
  BY <1>2 DEF vars, TypeOK
<1> QED BY <1>1, <1>2

\* Type correctness of the slot scheduler for every value of the constants.
THEOREM TypeSound == Spec => []TypeOK
  BY InitType, TypeStep, PTL DEF Spec

-----------------------------------------------------------------------------
(* Clashes *)

\* A call that found a slot and was not disturbed since it began is the only
\* one to count on that slot.
FoundAlone ==
    \A p, q \in Posts :
        call[p].pc = "found" /\ ~hist[p].crossed /\ p # q /\ Active(q)
            => booked[q] # call[p].slot

FoundReal == \A p \in Posts : call[p].pc = "found" => call[p].slot # NoSlot

\* Such a call leaves its day within the limit it read.
FoundRoom ==
    \A p \in Posts : call[p].pc = "found" /\ ~hist[p].crossed =>
        Cardinality(Held(call[p].slot.day) \ {p}) < call[p].cfg.limit

ClashInv == ClashesExplained /\ FoundAlone /\ FoundReal /\ FoundRoom

\* Nobody comes to hold a slot in this step.
Untaken ==
    \A q \in Posts :
        \/ booked'[q] = NoSlot
        \/ /\ booked'[q] = booked[q]
           /\ status[q] = "failed" => status'[q] = "failed"
           /\ hist'[q].raced = hist[q].raced

\* The call of q that stands at a slot stood there before, as disturbed.
Kept(q) ==
    call'[q].pc = "found" =>
        /\ call'[q] = call[q]
        /\ hist[q].crossed => hist'[q].crossed

\* What a step writes into the history.
LEMMA RecordFacts ==
  ASSUME NEW D, NEW R, Record(D, R), NEW q \in Posts
  PROVE  /\ hist'[q].crossed <=> (Busy(q) /\ (hist[q].crossed \/ q \in D))
         /\ q \in DOMAIN R => hist'[q].raced = R[q]
         /\ q \notin DOMAIN R => hist'[q].raced = hist[q].raced
  BY DEF Record

LEMMA QuietFacts ==
  ASSUME Record({}, Nothing), NEW q \in Posts
  PROVE  /\ hist'[q].crossed <=> (Busy(q) /\ hist[q].crossed)
         /\ hist'[q].raced = hist[q].raced
  BY RecordFacts DEF Nothing

LEMMA UntakenClash ==
  ASSUME ClashesExplained, Untaken
  PROVE  ClashesExplained'
  BY DEF ClashesExplained, Untaken, Clash, Active

LEMMA UntakenFound ==
  ASSUME FoundAlone, FoundReal, Untaken, NEW p \in Posts, Kept(p), call'[p].pc = "found"
  PROVE  /\ call'[p].slot # NoSlot
         /\ \A q \in Posts : ~hist'[p].crossed /\ p # q /\ status'[q] # "failed"
                               => booked'[q] # call'[p].slot
  BY DEF FoundAlone, FoundReal, Untaken, Kept, Active

LEMMA FewerHeld ==
  ASSUME NEW S \in SUBSET Posts, NEW T \in SUBSET S
  PROVE  /\ Cardinality(S) \in Nat /\ Cardinality(T) \in Nat
         /\ Cardinality(T) <= Cardinality(S)
  BY FS_Subset, FS_CardinalityType

LEMMA UntakenRoom ==
  ASSUME TypeOK, FoundReal, FoundRoom, Untaken,
         NEW p \in Posts, Kept(p), call'[p].pc = "found", ~hist'[p].crossed
  PROVE  Cardinality((Held(call[p].slot.day) \ {p})') < call'[p].cfg.limit
<1> DEFINE d == call[p].slot.day
           S == Held(d) \ {p}
           T == (Held(call[p].slot.day) \ {p})'
<1>1. call[p] \in Call /\ call[p].slot # NoSlot /\ call'[p] = call[p]
  BY DEF TypeOK, FoundReal, Kept
<1>2. d \in Days /\ call[p].cfg.limit \in Nat
  BY <1>1 DEF Call, Slot, Config
<1>3. T \in SUBSET S /\ S \in SUBSET Posts
  BY <1>1, <1>2 DEF Untaken, Held, Active, NoSlot, Days
<1>4. Cardinality(S) < call[p].cfg.limit
  BY <1>1 DEF FoundRoom, Kept
<1> HIDE DEF S, T
<1>5. Cardinality(T) < call[p].cfg.limit
  BY <1>2, <1>3, <1>4, FewerHeld
<1> QED BY <1>1, <1>5 DEF T

\* A step in which nobody takes a slot and no call finds one.
LEMMA QuietClash ==
  ASSUME TypeOK, ClashInv, Untaken, \A q \in Posts : Kept(q)
  PROVE  ClashInv'
<1>1. ClashesExplained'
  BY UntakenClash DEF ClashInv
<1>2. FoundAlone' /\ FoundReal'
  BY UntakenFound DEF ClashInv, FoundAlone, FoundReal, Active
<1>3. FoundRoom'
  BY UntakenRoom DEF ClashInv, FoundRoom
<1> QED BY <1>1, <1>2, <1>3 DEF ClashInv

\* A step in which p takes a slot and may disturb every other call.
LEMMA TakerClash ==
  ASSUME TypeOK, ClashInv, NEW p \in Posts,
         \A q \in Posts \ {p} : /\ booked'[q] = booked[q] /\ status'[q] = status[q]
                                /\ hist'[q].raced = hist[q].raced,
         hist'[p].raced \/ (\A q \in Posts \ {p} : Active(q) => booked'[p] # booked[q]),
         \A q \in Posts : call'[q].pc = "found" =>
             /\ call[q].pc = "found" /\ call'[q].slot = call[q].slot
             /\ hist'[q].crossed
  PROVE  ClashInv'
<1>1. ClashesExplained'
  <2> SUFFICES ASSUME NEW q \in Posts, NEW o \in Posts, Clash(q, o)'
               PROVE  hist'[q].raced \/ hist'[o].raced
    BY DEF ClashesExplained
  <2>1. CASE q # p /\ o # p
    BY <2>1 DEF ClashInv, ClashesExplained, Clash, Active
  <2>2. CASE q = p
    BY <2>2 DEF Clash, Active
  <2>3. CASE o = p
    BY <2>3 DEF Clash, Active
  <2> QED BY <2>1, <2>2, <2>3
<1>2. FoundAlone' /\ FoundReal' /\ FoundRoom'
  BY DEF ClashInv, FoundAlone, FoundReal, FoundRoom
<1> QED BY <1>1, <1>2 DEF ClashInv

LEMMA ClashInit == Init => ClashInv
  BY DEF Init, ClashInv, ClashesExplained, FoundAlone, FoundReal, FoundRoom, Clash, IdleCall

LEMMA FindsClash ==
  ASSUME TypeOK, ClashInv, NEW p \in Posts, LookFinds(p)
  PROVE  ClashInv'
<1>1. PICK t \in FreeTimes(call[p].cfg, call[p].day, call[p].today) :
        call' = [call EXCEPT ![p] = [call[p] EXCEPT !.pc = "found",
                                       !.slot = [day |-> call[p].day, time |-> t]]]
  BY DEF LookFinds
<1>2. call[p] \in Call
  BY DEF TypeOK
<1>3. /\ call'[p].slot = [day |-> call[p].day, time |-> t]
      /\ \A q \in Posts \ {p} : call'[q] = call[q]
  BY <1>1, <1>2 DEF TypeOK, Call
<1>4. call'[p].slot # NoSlot
  BY <1>2, <1>3 DEF Call, Days, NoSlot
<1>5. Untaken
  BY QuietFacts DEF LookFinds, Untaken
<1>6. \A q \in Posts \ {p} : Kept(q)
  BY <1>3, QuietFacts DEF LookFinds, Kept, Busy
<1>7. \A q \in Posts : Active(q) => booked[q] # call'[p].slot
  BY <1>1, <1>3 DEF FreeTimes, Held, TypeOK
<1>8. ClashesExplained'
  BY <1>5, UntakenClash DEF ClashInv
<1>9. FoundReal'
  BY <1>4, <1>5, <1>6, UntakenFound DEF ClashInv, FoundReal
<1>10. FoundAlone'
  <2> SUFFICES ASSUME NEW r \in Posts, NEW q \in Posts, call'[r].pc = "found",
                      ~hist'[r].crossed, r # q, status'[q] # "failed"
               PROVE  booked'[q] # call'[r].slot
    BY DEF FoundAlone, Active
  <2>1. CASE r = p
    BY <1>7, <2>1 DEF LookFinds, Active
  <2>2. CASE r # p
    BY <1>5, <1>6, <2>2, UntakenFound DEF ClashInv
  <2> QED BY <2>1, <2>2
<1>11. FoundRoom'
  <2> SUFFICES ASSUME NEW r \in Posts, call'[r].pc = "found", ~hist'[r].crossed
               PROVE  Cardinality((Held(call[r].slot.day) \ {r})') < call'[r].cfg.limit
    BY DEF FoundRoom
  <2>1. CASE r = p
    <3> DEFINE S == Held(call[p].day)
               T == (Held(call[p].slot.day) \ {p})'
    <3>1. T \in SUBSET S /\ S \in SUBSET Posts
      BY <1>3 DEF LookFinds, Held, Active
    <3>2. Cardinality(S) < call[p].cfg.limit /\ call'[p].cfg = call[p].cfg
      BY <1>1, <1>2 DEF FreeTimes, TypeOK, Call
    <3>3. call[p].cfg.limit \in Nat
      BY <1>2 DEF Call, Config
    <3> HIDE DEF S, T
    <3>4. Cardinality(T) < call'[p].cfg.limit
      BY <3>1, <3>2, <3>3, FewerHeld
    <3> QED BY <2>1, <3>4 DEF T
  <2>2. CASE r # p
    BY <1>5, <1>6, <2>2, UntakenRoom DEF ClashInv
  <2> QED BY <2>1, <2>2
<1> QED BY <1>8, <1>9, <1>10, <1>11 DEF ClashInv

LEMMA CommitClash ==
  ASSUME TypeOK, ClashInv, NEW p \in Posts, Commit(p)
  PROVE  ClashInv'
<1> DEFINE R == [q \in {p} |-> hist[p].crossed]
<1>1. Record(Calls \ {p}, R)
  BY DEF Commit
<1>2. \A q \in Posts \ {p} : /\ booked'[q] = booked[q] /\ status'[q] = status[q]
                              /\ hist'[q].raced = hist[q].raced
  BY <1>1, RecordFacts DEF Commit, TypeOK
<1>3. hist'[p].raced = hist[p].crossed
  <2>1. p \in DOMAIN R /\ R[p] = hist[p].crossed
    OBVIOUS
  <2> HIDE DEF R
  <2> QED BY <1>1, <2>1, RecordFacts
<1>4. booked'[p] = call[p].slot
  BY DEF Commit, TypeOK
<1>5. hist'[p].raced \/ (\A q \in Posts \ {p} : Active(q) => booked'[p] # booked[q])
  BY <1>3, <1>4 DEF ClashInv, FoundAlone, Commit
<1>6. \A q \in Posts : call'[q].pc = "found" =>
        /\ call[q].pc = "found" /\ call'[q].slot = call[q].slot
        /\ hist'[q].crossed
  <2> HIDE DEF R
  <2> SUFFICES ASSUME NEW q \in Posts, call'[q].pc = "found"
               PROVE  /\ call[q].pc = "found" /\ call'[q].slot = call[q].slot
                      /\ hist'[q].crossed
    OBVIOUS
  <2>1. q # p /\ call'[q] = call[q]
    BY DEF Commit, TypeOK, IdleCall
  <2> QED BY <1>1, <2>1, RecordFacts DEF Calls, Busy
<1> QED BY <1>2, <1>5, <1>6, TakerClash

\* Revive (of a failed post) and Reschedule: everybody's call is disturbed.
LEMMA ByHandClash ==
  ASSUME TypeOK, ClashInv, NEW p \in Posts, UNCHANGED call,
         Record(Calls, [q \in {p} |-> TRUE]),
         \A q \in Posts \ {p} : booked'[q] = booked[q] /\ status'[q] = status[q]
  PROVE  ClashInv'
<1> DEFINE R == [q \in {p} |-> TRUE]
<1>1. Record(Calls, R)
  OBVIOUS
<1>2. p \in DOMAIN R /\ R[p] /\ \A q \in Posts \ {p} : q \notin DOMAIN R
  OBVIOUS
<1> HIDE DEF R
<1>3. hist'[p].raced /\ \A q \in Posts \ {p} : hist'[q].raced = hist[q].raced
  BY <1>1, <1>2, RecordFacts
<1>4. \A q \in Posts : call'[q].pc = "found" =>
        /\ call[q].pc = "found" /\ call'[q].slot = call[q].slot
        /\ hist'[q].crossed
  BY <1>1, RecordFacts DEF Calls, Busy
<1> QED BY <1>3, <1>4, TakerClash

LEMMA ExtractClash ==
  ASSUME TypeOK, ClashInv, NEW p \in Posts, Extract(p)
  PROVE  ClashInv'
<1> DEFINE R == [q \in {p} |-> FALSE]
<1>1. Record({}, R) /\ \A q \in Posts \ {p} : q \notin DOMAIN R
  BY DEF Extract
<1> HIDE DEF R
<1>2. Untaken
  BY <1>1, RecordFacts DEF Extract, Untaken, TypeOK
<1>3. \A q \in Posts : Kept(q)
  BY <1>1, RecordFacts DEF Extract, Kept, Busy
<1> QED BY <1>2, <1>3, QuietClash

LEMMA QuietSteps ==
  ASSUME TypeOK, ClashInv,
         \/ \E p \in Posts : \/ Begin(p) \/ LookNextDay(p) \/ LookRaises(p)
                             \/ Fail(p) \/ Publish(p) \/ (Revive(p) /\ Active(p))
         \/ SetConfig \/ Tick \/ UNCHANGED vars
  PROVE  ClashInv'
<1>1. CASE \E p \in Posts : Begin(p) \/ LookNextDay(p) \/ LookRaises(p)
  <2> PICK p \in Posts : Begin(p) \/ LookNextDay(p) \/ LookRaises(p)
    BY <1>1
  <2>1. Untaken
    BY QuietFacts DEF Begin, LookNextDay, LookRaises, Untaken, TypeOK
  <2>2. call[p] \in Call /\ call'[p].pc # "found" /\ \A q \in Posts \ {p} : call'[q] = call[q]
    BY DEF Begin, LookNextDay, LookRaises, NoSlotOn, TypeOK, Call, IdleCall
  <2>3. Record({}, Nothing)
    BY DEF Begin, LookNextDay, LookRaises
  <2>4. \A q \in Posts : Kept(q)
    BY <2>2, <2>3, QuietFacts DEF Kept, Busy
  <2> QED BY <2>1, <2>4, QuietClash
<1>2. CASE \/ \E p \in Posts : Fail(p) \/ Publish(p) \/ (Revive(p) /\ Active(p))
           \/ SetConfig \/ Tick
  <2>1. Record({}, Nothing) /\ UNCHANGED call
    BY <1>2 DEF Fail, Publish, Revive, SetConfig, Tick
  <2>2. Untaken
    BY <1>2, <2>1, QuietFacts DEF Fail, Publish, Revive, Active, SetConfig, Tick, Untaken, TypeOK
  <2>3. \A q \in Posts : Kept(q)
    BY <2>1, QuietFacts DEF Kept, Busy
  <2> QED BY <2>2, <2>3, QuietClash
<1>3. CASE UNCHANGED vars
  BY <1>3, QuietClash DEF vars, Untaken, Kept
<1> QED BY <1>1, <1>2, <1>3

LEMMA ClashStep == TypeOK /\ ClashInv /\ [Next]_vars => ClashInv'
<1> SUFFICES ASSUME TypeOK, ClashInv, [Next]_vars PROVE ClashInv'
  OBVIOUS
<1>1. ASSUME NEW p \in Posts, Assign(p) PROVE ClashInv'
  BY <1>1, FindsClash, CommitClash, QuietSteps DEF Assign
<1>2. ASSUME NEW p \in Posts, Revive(p) PROVE ClashInv'
  <2>1. CASE Active(p)
    BY <1>2, <2>1, QuietSteps
  <2>2. CASE ~Active(p)
    BY <1>2, <2>2, ByHandClash DEF Revive, TypeOK
  <2> QED BY <2>1, <2>2
<1>3. ASSUME NEW p \in Posts, NEW s \in Slot, Reschedule(p, s) PROVE ClashInv'
  BY <1>3, ByHandClash DEF Reschedule, TypeOK
<1> QED BY <1>1, <1>2, <1>3, ExtractClash, QuietSteps DEF Next

\* Two posts that count share a slot only when one of them was rescheduled,
\* revived, or assigned by a call that another slot's taking had disturbed:
\* undisturbed calls of assign_slot never double-book.
THEOREM ClashSound == Spec => []ClashesExplained
<1>1. Spec => []ClashInv
  BY TypeSound, ClashInit, ClashStep, PTL DEF Spec
<1>2. ClashInv => ClashesExplained
  BY DEF ClashInv
<1> QED BY <1>1, <1>2, PTL

\* An undisturbed assignment leaves its day within the daily limit it read.
THEOREM LimitSound == Spec => WithinLimit
<1> DEFINE Within == \A p \in Posts : Commit(p) /\ ~hist[p].crossed =>
          Cardinality({q \in Posts : Active(q) /\ booked'[q].day = call[p].slot.day})
             <= call[p].cfg.limit
<1>1. ASSUME TypeOK, ClashInv PROVE Within
  <2> SUFFICES ASSUME NEW p \in Posts, Commit(p), ~hist[p].crossed
               PROVE  Cardinality({q \in Posts : Active(q) /\ booked'[q].day = call[p].slot.day})
                        <= call[p].cfg.limit
    OBVIOUS
  <2> DEFINE S == Held(call[p].slot.day) \ {p}
             T == {q \in Posts : Active(q) /\ booked'[q].day = call[p].slot.day}
  <2>1. Cardinality(S) < call[p].cfg.limit /\ call[p].cfg.limit \in Nat
    BY <1>1 DEF ClashInv, FoundRoom, Commit, TypeOK, Call, Config
  <2>2. S \in SUBSET Posts /\ p \notin S
    BY DEF Held
  <2>3. T \in SUBSET (S \cup {p})
    BY <1>1 DEF Commit, Held, TypeOK
  <2> HIDE DEF S, T
  <2>4. IsFiniteSet(S) /\ Cardinality(S) \in Nat
    BY <2>2, FS_Subset, FS_CardinalityType
  <2>5. Cardinality(S \cup {p}) = Cardinality(S) + 1
    BY <2>2, <2>4, FS_AddElement
  <2>6. S \cup {p} \in SUBSET Posts
    BY <2>2
  <2>7. /\ Cardinality(T) \in Nat /\ Cardinality(S \cup {p}) \in Nat
        /\ Cardinality(T) <= Cardinality(S \cup {p})
    BY <2>3, <2>6, FewerHeld
  <2>8. Cardinality(T) <= call[p].cfg.limit
    BY <2>1, <2>4, <2>5, <2>7
  <2> QED BY <2>8 DEF T
<1>2. TypeOK /\ ClashInv => [Within]_vars
  BY <1>1
<1> HIDE DEF Within
<1>3. Spec => [](TypeOK /\ ClashInv)
  BY TypeSound, ClashInit, ClashStep, PTL DEF Spec
<1>4. Spec => [][Within]_vars
  BY <1>2, <1>3, PTL
<1> QED BY <1>4, PTL DEF Within, WithinLimit

-----------------------------------------------------------------------------
(* No free slot is passed over *)

\* What is left in the history of a search is free now and still ahead.
Ahead(p) ==
    call[p].pc = "looking" =>
        /\ call[p].today <= now.day
        /\ hist[p].free \subseteq Available(call[p].cfg)
        /\ \A s \in hist[p].free : call[p].day <= s.day

SearchInv == NeverSkips /\ \A p \in Posts : Ahead(p)

\* The code's test for a day agrees with what is available on that day.
LEMMA AvailableIsFree ==
  ASSUME TypeOK, NEW p \in Posts, call[p].today <= now.day,
         NEW s \in Available(call[p].cfg), s.day = call[p].day
  PROVE  /\ s.day \in call[p].cfg.days
         /\ s.time \in FreeTimes(call[p].cfg, call[p].day, call[p].today)
<1>1. s \in Slot /\ s.time \in Times
  BY DEF Available, Slot
<1>2. {q \in Posts : Active(q) /\ booked[q].day = s.day} = Held(call[p].day)
  BY DEF Held
<1>3. \A q \in Held(call[p].day) : booked[q].time # s.time
  <2> SUFFICES ASSUME NEW q \in Held(call[p].day), booked[q].time = s.time
               PROVE  FALSE
    OBVIOUS
  <2>1. q \in Posts /\ Active(q) /\ booked[q].day = s.day /\ booked[q] # s
    BY DEF Held, Available
  <2>2. booked[q] \in Slot \cup {NoSlot}
    BY <2>1 DEF TypeOK
  <2>3. booked[q] = [day |-> s.day, time |-> s.time]
    BY <2>1, <2>2 DEF Slot, NoSlot
  <2> QED BY <1>1, <2>1, <2>3 DEF Slot
<1>4. call[p].day = call[p].today => s.time > now.time
  <2>1. now \in Slot /\ call[p] \in Call /\ Before(now, s)
    BY DEF TypeOK, Available
  <2> QED BY <1>1, <2>1 DEF Before, Slot, Days, Times, Call
<1> QED BY <1>2, <1>3, <1>4 DEF Available, FreeTimes

\* How the free slots of the history move.
LEMMA FreeFacts ==
  ASSUME NEW D, NEW R, Record(D, R), NEW q \in Posts
  PROVE  /\ call'[q].pc = "found" => hist'[q].free = hist[q].free
         /\ call'[q].pc = "looking" /\ Busy(q) =>
              hist'[q].free = hist[q].free \cap Available(call[q].cfg)'
         /\ call'[q].pc = "looking" /\ ~Busy(q) => hist'[q].free = Available(cfg)
  BY DEF Record

\* Calls that a step leaves alone.
LEMMA SameSearch ==
  ASSUME TypeOK, SearchInv, NEW D, NEW R, Record(D, R), NEW q \in Posts,
         call'[q] = call[q], now.day <= now'.day, now' \in Slot
  PROVE  /\ Ahead(q)'
         /\ call'[q].pc = "found" => \A s \in hist'[q].free : ~Before(s, call'[q].slot)
<1>1. call[q] \in Call /\ now \in Slot
  BY DEF TypeOK
<1>2. CASE call[q].pc = "found"
  BY <1>2, FreeFacts DEF SearchInv, NeverSkips, Ahead
<1>3. CASE call[q].pc = "looking"
  <2>1. hist'[q].free = hist[q].free \cap Available(call[q].cfg)'
    BY <1>3, FreeFacts DEF Busy
  <2>2. call'[q].today <= now'.day
    BY <1>1, <1>3 DEF SearchInv, Ahead, Call, Slot, Days
  <2> QED BY <1>3, <2>1, <2>2 DEF SearchInv, Ahead
<1>4. CASE call[q].pc = "idle"
  BY <1>4 DEF Ahead
<1> QED BY <1>1, <1>2, <1>3, <1>4 DEF Call

LEMMA SearchInit == Init => SearchInv
  BY DEF Init, SearchInv, NeverSkips, Ahead, IdleCall

\* Only the search of p moves, and its own step is right.
LEMMA OneSearch ==
  ASSUME TypeOK, SearchInv, NEW p \in Posts, NEW D, NEW R, Record(D, R), UNCHANGED now,
         \A q \in Posts \ {p} : call'[q] = call[q],
         Ahead(p)',
         call'[p].pc = "found" => \A s \in hist'[p].free : ~Before(s, call'[p].slot)
  PROVE  SearchInv'
<1>1. now' \in Slot /\ now.day <= now'.day
  BY DEF TypeOK, Slot, Days
<1>2. \A q \in Posts \ {p} :
        /\ Ahead(q)'
        /\ call'[q].pc = "found" => \A s \in hist'[q].free : ~Before(s, call'[q].slot)
  BY <1>1, SameSearch
<1>3. NeverSkips'
  BY <1>2 DEF NeverSkips, Before
<1>4. \A q \in Posts : Ahead(q)'
  BY <1>2
<1> QED BY <1>3, <1>4 DEF SearchInv

LEMMA BeginSearch ==
  ASSUME TypeOK, SearchInv, NEW p \in Posts, Begin(p)
  PROVE  SearchInv'
<1>1. /\ call'[p].pc = "looking" /\ call'[p].today = now.day
      /\ call'[p].day = now.day /\ call'[p].cfg = cfg
      /\ \A q \in Posts \ {p} : call'[q] = call[q]
  BY DEF Begin, TypeOK
<1>2. Record({}, Nothing) /\ UNCHANGED <<status, booked, cfg, now>> /\ ~Busy(p)
  BY DEF Begin
<1>3. hist'[p].free = Available(cfg)
  BY <1>1, <1>2, FreeFacts
<1>4. Available(cfg) = Available(call[p].cfg)'
  BY <1>1, <1>2 DEF Available, Active, Before
<1>5. \A s \in Available(cfg) : now.day <= s.day
  BY DEF Available, Before, TypeOK, Slot, Days
<1>6. now.day <= now'.day
  BY <1>2 DEF TypeOK, Slot, Days
<1>7. Ahead(p)'
  BY <1>1, <1>2, <1>3, <1>4, <1>5, <1>6 DEF Ahead
<1> QED BY <1>1, <1>2, <1>7, OneSearch

LEMMA FindsSearch ==
  ASSUME TypeOK, SearchInv, NEW p \in Posts, LookFinds(p)
  PROVE  SearchInv'
<1> DEFINE free == FreeTimes(call[p].cfg, call[p].day, call[p].today)
<1>1. PICK t \in free :
        /\ \A u \in free : t <= u
        /\ call' = [call EXCEPT ![p] = [call[p] EXCEPT !.pc = "found",
                                       !.slot = [day |-> call[p].day, time |-> t]]]
  BY DEF LookFinds
<1>2. call[p] \in Call /\ call[p].pc = "looking" /\ Record({}, Nothing) /\ UNCHANGED now
  BY DEF LookFinds, TypeOK
<1>3. /\ call'[p].slot = [day |-> call[p].day, time |-> t] /\ call'[p].pc = "found"
      /\ \A q \in Posts \ {p} : call'[q] = call[q]
  BY <1>1, <1>2 DEF TypeOK, Call
<1>4. hist'[p].free = hist[p].free
  BY <1>2, <1>3, FreeFacts
<1>5. ASSUME NEW s \in hist[p].free
      PROVE  ~Before(s, call'[p].slot)
  <2>1. /\ call[p].day <= s.day /\ s \in Available(call[p].cfg)
        /\ call[p].today <= now.day
    BY <1>2 DEF SearchInv, Ahead
  <2>2. s \in Slot /\ s.day \in Days /\ s.time \in Times
    BY <2>1 DEF Available, Slot
  <2>3. t \in Times
    BY <1>1, <1>2 DEF FreeTimes, Call, Config
  <2>4. s.day = call[p].day => t <= s.time
    <3> HIDE DEF free
    <3>1. s.day = call[p].day => s.time \in free
      BY <2>1, AvailableIsFree DEF free
    <3> QED BY <1>1, <3>1
  <2> QED BY <1>2, <1>3, <2>1, <2>2, <2>3, <2>4 DEF Before, Days, Times, Call
<1>6. Ahead(p)'
  BY <1>3 DEF Ahead
<1> QED BY <1>2, <1>3, <1>4, <1>5, <1>6, OneSearch

LEMMA NextDaySearch ==
  ASSUME TypeOK, SearchInv, NEW p \in Posts, LookNextDay(p)
  PROVE  SearchInv'
<1>1. /\ call[p] \in Call /\ call[p].pc = "looking" /\ Record({}, Nothing)
      /\ UNCHANGED <<status, booked, cfg, now>>
  BY DEF LookNextDay, NoSlotOn, TypeOK
<1>2. /\ call'[p].pc = "looking" /\ call'[p].today = call[p].today
      /\ call'[p].day = call[p].day + 1 /\ call'[p].cfg = call[p].cfg
      /\ \A q \in Posts \ {p} : call'[q] = call[q]
  BY <1>1 DEF LookNextDay, TypeOK, Call
<1>3. hist'[p].free \subseteq hist[p].free \cap Available(call[p].cfg)'
  BY <1>1, <1>2, FreeFacts DEF Busy
<1>4. ASSUME NEW s \in hist[p].free
      PROVE  call[p].day + 1 <= s.day
  <2>1. /\ call[p].day <= s.day /\ s \in Available(call[p].cfg)
        /\ call[p].today <= now.day
    BY <1>1 DEF SearchInv, Ahead
  <2>2. s.day # call[p].day
    BY <2>1, AvailableIsFree DEF LookNextDay, NoSlotOn
  <2>3. s.day \in Days
    BY <2>1 DEF Available, Slot
  <2> QED BY <1>1, <2>1, <2>2, <2>3 DEF Call, Days
<1>5. Ahead(p)'
  BY <1>1, <1>2, <1>3, <1>4 DEF SearchInv, Ahead
<1> QED BY <1>1, <1>2, <1>5, OneSearch

\* LookRaises and Commit end the call.
LEMMA EndSearch ==
  ASSUME TypeOK, SearchInv, NEW p \in Posts, LookRaises(p) \/ Commit(p)
  PROVE  SearchInv'
<1>1. call'[p].pc = "idle" /\ UNCHANGED now /\ \A q \in Posts \ {p} : call'[q] = call[q]
  BY DEF LookRaises, Commit, TypeOK, IdleCall
<1>2. \E D, R : Record(D, R)
  BY DEF LookRaises, Commit
<1>3. Ahead(p)'
  BY <1>1 DEF Ahead
<1> QED BY <1>1, <1>2, <1>3, OneSearch

\* Every other step leaves the calls alone.
LEMMA OtherSearch ==
  ASSUME TypeOK, TypeOK', SearchInv,
         \/ \E p \in Posts : Fail(p) \/ Publish(p) \/ Revive(p) \/ Extract(p)
         \/ \E p \in Posts, s \in Slot : Reschedule(p, s)
         \/ SetConfig \/ Tick
  PROVE  SearchInv'
<1>1. UNCHANGED call /\ \E D, R : Record(D, R)
  BY DEF Fail, Publish, Revive, Extract, Reschedule, SetConfig, Tick
<1>2. now' \in Slot
  BY DEF TypeOK
<1>3. now.day <= now'.day
  <2>1. UNCHANGED now \/ Tick
    BY DEF Fail, Publish, Revive, Extract, Reschedule, SetConfig
  <2>2. now \in Slot
    BY DEF TypeOK
  <2> QED BY <2>1, <2>2 DEF Tick, Slot, Days, Times
<1>4. \A q \in Posts :
        /\ Ahead(q)'
        /\ call'[q].pc = "found" => \A s \in hist'[q].free : ~Before(s, call'[q].slot)
  BY <1>1, <1>2, <1>3, SameSearch
<1> QED BY <1>4 DEF SearchInv, NeverSkips, Before

LEMMA SearchStep == TypeOK /\ SearchInv /\ [Next]_vars => SearchInv'
<1> SUFFICES ASSUME TypeOK, SearchInv, [Next]_vars PROVE SearchInv'
  OBVIOUS
<1>1. CASE Next
  <2>1. TypeOK'
    BY <1>1, TypeStep
  <2>2. ASSUME NEW p \in Posts, Assign(p) PROVE SearchInv'
    BY <2>2, BeginSearch, FindsSearch, NextDaySearch, EndSearch DEF Assign
  <2> QED BY <1>1, <2>1, <2>2, OtherSearch DEF Next
<1>2. CASE UNCHANGED vars
  BY <1>2 DEF vars, SearchInv, NeverSkips, Ahead, Available, Before, Active
<1> QED BY <1>1, <1>2

\* assign_slot never passes over a slot that is free during the whole search.
THEOREM SearchSound == Spec => []NeverSkips
<1>1. Spec => []SearchInv
  BY TypeSound, SearchInit, SearchStep, PTL DEF Spec
<1>2. SearchInv => NeverSkips
  BY DEF SearchInv
<1> QED BY <1>1, <1>2, PTL
=============================================================================
