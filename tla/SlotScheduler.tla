--------------------------- MODULE SlotScheduler ---------------------------
(***************************************************************************)
(* Publish slots: PostScheduler.assign_slot of src/scheduling, called by   *)
(* the schedule node of concurrent runs, the rows it reads and writes, and *)
(* the handlers that move posts in and out of slots.                       *)
(*                                                                         *)
(* Granularity: one step per SELECT (the loop looks at one day after the   *)
(* other) and one for the commit of the node's transaction, so other       *)
(* transactions commit in between.  The settings are read once, when the   *)
(* call begins, and so is "today"; the clock is read again for each day.   *)
(***************************************************************************)
EXTENDS Integers, FiniteSets

CONSTANTS
    Posts,     \* the posts
    Horizon,   \* bound: days the loop looks at (the code: 400)
    DayLen,    \* bound: instants in a day
    Configs,   \* the settings PUT /schedule may store
    Ops        \* the requests the environment uses

OpNames == {"fail", "publish", "retry", "revive", "reschedule", "config", "tick"}

Times == 0 .. DayLen - 1
Days  == 1 .. Horizon
Slot  == [day : Days, time : Times]

\* schedule_config as assign_slot sees it; days stands for the dates that
\* weekdays, active_from and active_until let through.
Config == [times : SUBSET Times, limit : Nat \ {0}, days : SUBSET Days]

ASSUME BoundsAssumption == Horizon \in Nat \ {0} /\ DayLen \in Nat \ {0}
ASSUME PostsAssumption == IsFiniteSet(Posts)
ASSUME ConfigsAssumption == Configs \subseteq Config /\ Configs # {}
ASSUME OpsAssumption == Ops \subseteq OpNames

VARIABLES
    status,   \* posts.status, in the three classes the slots depend on
    booked,   \* (scheduled_date, scheduled_slot) of p
    cfg,      \* the schedule_config row
    now,      \* the local clock
    call,     \* the assign_slot call of p in flight
    hist      \* history: what was free during the call, what disturbed it

vars == <<status, booked, cfg, now, call, hist>>

\* "failed" stands for failed and rejected, "published" for publishing and
\* published, "open" for the rest.
Statuses == {"open", "published", "failed"}

NoSlot   == [day |-> 0, time |-> 0]
NoConfig == [times |-> {}, limit |-> 1, days |-> {}]
Call == [pc : {"idle", "looking", "found"}, today : Days, day : Days,
         slot : Slot \cup {NoSlot}, cfg : Config]
IdleCall == [pc |-> "idle", today |-> 1, day |-> 1, slot |-> NoSlot, cfg |-> NoConfig]

TypeOK ==
    /\ status \in [Posts -> Statuses]
    /\ booked \in [Posts -> Slot \cup {NoSlot}]
    /\ cfg \in Configs
    /\ now \in Slot
    /\ call \in [Posts -> Call]
    /\ hist \in [Posts -> [free : SUBSET Slot, crossed : BOOLEAN, raced : BOOLEAN]]

Init ==
    /\ status = [p \in Posts |-> "open"]
    /\ booked = [p \in Posts |-> NoSlot]
    /\ cfg \in Configs
    /\ now = [day |-> 1, time |-> 0]
    /\ call = [p \in Posts |-> IdleCall]
    /\ hist = [p \in Posts |-> [free |-> {}, crossed |-> FALSE, raced |-> FALSE]]

Active(p) == status[p] # "failed"
Busy(p) == call[p].pc # "idle"
Before(a, b) == a.day < b.day \/ (a.day = b.day /\ a.time < b.time)

-----------------------------------------------------------------------------
(* History *)

\* A slot a reader of the schedule settings c would call free.
Available(c) == {s \in Slot :
    /\ s.day \in c.days /\ s.time \in c.times
    /\ Before(now, s)
    /\ \A q \in Posts : Active(q) => booked[q] # s
    /\ Cardinality({q \in Posts : Active(q) /\ booked[q].day = s.day}) < c.limit}

\* The slots free during the whole of a call, up to the look that finds one;
\* disturbed are the calls during which somebody else takes a slot, raced the
\* posts whose slot is new and whether it may clash.
Record(disturbed, raced) ==
    hist' = [q \in Posts |->
        [free    |-> CASE call'[q].pc = "idle"  -> {}
                       [] call'[q].pc = "found" -> hist[q].free
                       [] OTHER -> IF Busy(q)
                                   THEN hist[q].free \cap Available(call[q].cfg)'
                                   ELSE Available(cfg),
         crossed |-> Busy(q) /\ (hist[q].crossed \/ q \in disturbed),
         raced   |-> IF q \in DOMAIN raced THEN raced[q] ELSE hist[q].raced]]
Nothing == [q \in {} |-> FALSE]
Calls == {q \in Posts : Busy(q)}

-----------------------------------------------------------------------------
(* assign_slot *)

\* Mutant: posts that failed keep their slot occupied.
MutHeld(d) == {q \in Posts : booked[q].day = d}

\* _occupied_slots: the rows of the day that are not failed or rejected.
Held(d) == {q \in Posts : Active(q) /\ booked[q].day = d}

\* Mutant: a full day takes one more.
MutFreeTimes(c, d, today) ==
    {t \in c.times :
        /\ Cardinality(Held(d)) <= c.limit
        /\ \A q \in Held(d) : booked[q].time # t
        /\ d = today => t > now.time}

\* Mutant: the occupied slots are counted but not left out.
MutFreeOccupied(c, d, today) ==
    {t \in c.times :
        /\ Cardinality(Held(d)) < c.limit
        /\ d = today => t > now.time}

\* _first_free_slot's candidates: today only times later than the clock's.
FreeTimes(c, d, today) ==
    {t \in c.times :
        /\ Cardinality(Held(d)) < c.limit
        /\ \A q \in Held(d) : booked[q].time # t
        /\ d = today => t > now.time}

\* The schedule node starts (or starts again after a crash or a retry: then the
\* post may already hold a slot, which counts as occupied).
Begin(p) ==
    /\ ~Busy(p)
    /\ call' = [call EXCEPT ![p] = [pc |-> "looking", today |-> now.day,
                    day |-> now.day, slot |-> NoSlot, cfg |-> cfg]]
    /\ UNCHANGED <<status, booked, cfg, now>>
    /\ Record({}, Nothing)

\* The day offers a slot: the earliest one is written on the row, not committed.
LookFinds(p) ==
    LET c == call[p]
        free == FreeTimes(c.cfg, c.day, c.today)
    IN
    /\ c.pc = "looking" /\ c.day \in c.cfg.days
    /\ \E t \in free :
         /\ \A u \in free : t <= u
         /\ call' = [call EXCEPT ![p] = [c EXCEPT !.pc = "found",
                                             !.slot = [day |-> c.day, time |-> t]]]
    /\ UNCHANGED <<status, booked, cfg, now>>
    /\ Record({}, Nothing)

NoSlotOn(p) ==
    LET c == call[p] IN
    c.pc = "looking" /\ (c.day \in c.cfg.days => FreeTimes(c.cfg, c.day, c.today) = {})

\* Mutant: the loop has no end.
MutLookNextDay(p) ==
    /\ NoSlotOn(p)
    /\ call' = [call EXCEPT ![p] = [call[p] EXCEPT !.day = call[p].day + 1]]
    /\ UNCHANGED <<status, booked, cfg, now>>
    /\ Record({}, Nothing)

LookNextDay(p) ==
    /\ NoSlotOn(p) /\ call[p].day < Horizon
    /\ call' = [call EXCEPT ![p] = [call[p] EXCEPT !.day = call[p].day + 1]]
    /\ UNCHANGED <<status, booked, cfg, now>>
    /\ Record({}, Nothing)

\* No slot at all: the exception leaves the node; the run marks the post failed
\* when run_pipeline started it, not when it was resumed.
LookRaises(p) ==
    /\ NoSlotOn(p) /\ call[p].day = Horizon
    /\ call' = [call EXCEPT ![p] = IdleCall]
    /\ \E s \in {status[p], "failed"} : status' = [status EXCEPT ![p] = s]
    /\ UNCHANGED <<booked, cfg, now>>
    /\ Record({}, Nothing)

Commit(p) ==
    /\ call[p].pc = "found"
    /\ booked' = [booked EXCEPT ![p] = call[p].slot]
    /\ call' = [call EXCEPT ![p] = IdleCall]
    /\ UNCHANGED <<status, cfg, now>>
    /\ Record(Calls \ {p}, [q \in {p} |-> hist[p].crossed])

-----------------------------------------------------------------------------
(* The rest of the system *)

\* A node, the poller or the delete handler marks the post failed or rejected.
Fail(p) ==
    /\ "fail" \in Ops /\ Active(p)
    /\ status' = [status EXCEPT ![p] = "failed"]
    /\ UNCHANGED <<booked, cfg, now, call>>
    /\ Record({}, Nothing)

Publish(p) ==
    /\ "publish" \in Ops /\ status[p] = "open"
    /\ status' = [status EXCEPT ![p] = "published"]
    /\ UNCHANGED <<booked, cfg, now, call>>
    /\ Record({}, Nothing)

\* A late decision, or the request of a retry, writes approved or processing
\* over any status and leaves the slot: a failed post has it back.
Revive(p) ==
    /\ "revive" \in Ops /\ status[p] # "open"
    /\ status' = [status EXCEPT ![p] = "open"]
    /\ UNCHANGED <<booked, cfg, now, call>>
    /\ IF Active(p) THEN Record({}, Nothing)
                    ELSE Record(Calls, [q \in {p} |-> TRUE])

\* extract_node of a retry or re-trigger: processing again, without a slot.
Extract(p) ==
    /\ "retry" \in Ops /\ ~Busy(p)
    /\ status' = [status EXCEPT ![p] = "open"]
    /\ booked' = [booked EXCEPT ![p] = NoSlot]
    /\ UNCHANGED <<cfg, now, call>>
    /\ Record({}, [q \in {p} |-> FALSE])

\* reschedule_post stores any slot on a post that is not published.
Reschedule(p, s) ==
    /\ "reschedule" \in Ops /\ status[p] # "published"
    /\ booked' = [booked EXCEPT ![p] = s]
    /\ UNCHANGED <<status, cfg, now, call>>
    /\ Record(Calls, [q \in {p} |-> TRUE])

SetConfig ==
    /\ "config" \in Ops
    /\ cfg' \in Configs
    /\ UNCHANGED <<status, booked, now, call>>
    /\ Record({}, Nothing)

Tick ==
    /\ "tick" \in Ops
    /\ \/ now.time < DayLen - 1 /\ now' = [now EXCEPT !.time = @ + 1]
       \/ /\ now.time = DayLen - 1 /\ now.day < Horizon
          /\ now' = [day |-> now.day + 1, time |-> 0]
    /\ UNCHANGED <<status, booked, cfg, call>>
    /\ Record({}, Nothing)

Assign(p) == Begin(p) \/ LookFinds(p) \/ LookNextDay(p) \/ LookRaises(p) \/ Commit(p)

Next ==
    \/ \E p \in Posts : Assign(p) \/ Fail(p) \/ Publish(p) \/ Revive(p) \/ Extract(p)
    \/ \E p \in Posts, s \in Slot : Reschedule(p, s)
    \/ SetConfig \/ Tick

Spec == Init /\ [][Next]_vars

-----------------------------------------------------------------------------
(* Properties *)

Clash(p, q) == p # q /\ Active(p) /\ Active(q) /\ booked[p] # NoSlot /\ booked[p] = booked[q]

\* RUNBOOK: each post gets the next FREE slot - no two posts that still count
\* are booked on one slot.
NoDoubleBooking == \A p, q \in Posts : ~Clash(p, q)

\* What the code gives: a clash needs a post that was rescheduled by hand,
\* revived by a late decision, or assigned while another slot was being taken.
ClashesExplained ==
    \A p, q \in Posts : Clash(p, q) => hist[p].raced \/ hist[q].raced

\* An undisturbed assignment leaves its day within the daily limit it read.
WithinLimit ==
    [][\A p \in Posts : Commit(p) /\ ~hist[p].crossed =>
          Cardinality({q \in Posts : Active(q) /\ booked'[q].day = call[p].slot.day})
             <= call[p].cfg.limit]_vars

\* assign_slot never passes over a slot that is free during the whole search,
\* whatever is booked, freed, rescheduled or reconfigured meanwhile and also
\* when the clock moves on to the next day.
NeverSkips ==
    \A p \in Posts : call[p].pc = "found" =>
        \A s \in hist[p].free : ~Before(s, call[p].slot)
=============================================================================
