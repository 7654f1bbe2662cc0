-------------------------------- MODULE LogRing --------------------------------
(***************************************************************************)
(* The log ring of the process and the Logs tab that tails it: records are *)
(* added by any thread, GET /api/logs reads the ring and then the last     *)
(* sequence number, and the tab polls on a timer that does not wait for    *)
(* the answer of the poll before.                                          *)
(***************************************************************************)
EXTENDS Integers, Sequences, Functions, Selection

CONSTANTS
    Capacity,    \* maxlen of the ring
    PageLimit,   \* limit of a query
    LevelOf,     \* the levels of the records in the order of logging, as numbers
    Ticks,       \* polls of the tab in flight at once, numbers
    MaxRecords,  \* bound: records logged
    MaxResets    \* bound: changes of the filter, clears and restarts

ASSUME SizeAssumption == Capacity \in Nat \ {0} /\ PageLimit \in Nat \ {0}
ASSUME BoundAssumption == MaxRecords \in Nat /\ MaxResets \in Nat /\ Ticks \subseteq Nat
ASSUME LevelAssumption == LevelOf \in [1 .. MaxRecords -> Nat \ {0}]

VARIABLES
    ring,      \* _buf, oldest first
    seq,       \* _seq
    logged,    \* records logged since the beginning
    tab,       \* state.logSeq, the level filter and the lines in the box
    tick,      \* the polls
    resets,    \* counts against MaxResets
    disturbed  \* history, since the box was last emptied

logVars == <<ring, seq, logged, tab, tick, resets, disturbed>>

Levels == Range(LevelOf)

\* id tells records apart across restarts; the tab knows only seq.
Record == [seq : 1 .. MaxRecords, level : Levels, id : 1 .. MaxRecords]
NoTick == [pc |-> "idle", after |-> 0, level |-> 0, items |-> <<>>, latest |-> 0]

LogTypeOK ==
    /\ ring \in Seq(Record) /\ Len(ring) <= Capacity
    /\ seq \in 0 .. logged /\ logged \in 0 .. MaxRecords
    /\ tab.logSeq \in 0 .. MaxRecords /\ tab.level \in Levels \cup {0}
    /\ tab.box \in Seq(1 .. MaxRecords)
    /\ \A k \in Ticks :
         /\ tick[k].pc \in {"idle", "sent", "queried", "answered"}
         /\ tick[k].after \in 0 .. MaxRecords /\ tick[k].latest \in 0 .. MaxRecords
         /\ tick[k].level \in Levels \cup {0}
         /\ tick[k].items \in Seq(Record) /\ Len(tick[k].items) <= PageLimit
    /\ resets \in 0 .. MaxResets
    /\ disturbed \subseteq {"overlap", "late", "page", "restart"}

LogInit ==
    /\ ring = <<>> /\ seq = 0 /\ logged = 0
    /\ tab = [logSeq |-> 0, level |-> 0, box |-> <<>>]
    /\ tick = [k \in Ticks |-> NoTick]
    /\ resets = 0 /\ disturbed = {}

-----------------------------------------------------------------------------
(* LogRing *)

\* The newest n elements.
Newest(s, n) == SubSeq(s, IF Len(s) > n THEN Len(s) - n + 1 ELSE 1, Len(s))

\* Mutant: the ring has no maxlen.
MutPushed(record) == Append(ring, record)

Pushed(record) == Newest(Append(ring, record), Capacity)

\* RingHandler.emit, add
Add ==
    /\ logged < MaxRecords
    /\ ring' = Pushed([seq |-> seq + 1, level |-> LevelOf[logged + 1], id |-> logged + 1])
    /\ seq' = seq + 1
    /\ logged' = logged + 1
    /\ UNCHANGED <<tab, tick, resets, disturbed>>

\* Mutant: the last record seen is sent again.
MutMatches(r, after, level) == r.seq >= after /\ r.level >= level

Matches(r, after, level) == r.seq > after /\ r.level >= level

Query(after, level) ==
    LET found == {i \in DOMAIN ring : Matches(ring[i], after, level)}
    IN  [k \in 1 .. Cardinality(found) |-> ring[InOrder(found)[k]]]

\* clear empties the ring and keeps the count.
ClearRing == ring' = <<>> /\ UNCHANGED seq

(* GET /api/logs *)

\* The query; a record it matches and its page does not hold is never sent.
GetLogs(k) ==
    LET found == Query(tick[k].after, tick[k].level)
    IN  /\ tick[k].pc = "sent"
        /\ tick' = [tick EXCEPT ![k].pc = "queried", ![k].items = Newest(found, PageLimit)]
        /\ disturbed' = IF Len(found) > PageLimit THEN disturbed \cup {"page"} ELSE disturbed
        /\ UNCHANGED <<ring, seq, logged, tab, resets>>

\* Mutant: the answer names the next sequence number.
MutLatestSeq(k) ==
    /\ tick[k].pc = "queried"
    /\ tick' = [tick EXCEPT ![k].pc = "answered", ![k].latest = seq + 1]
    /\ UNCHANGED <<ring, seq, logged, tab, resets, disturbed>>

\* latest_seq takes the lock again: a thread may have logged in between.
LatestSeq(k) ==
    /\ tick[k].pc = "queried"
    /\ tick' = [tick EXCEPT ![k].pc = "answered", ![k].latest = seq]
    /\ disturbed' = IF \E r \in Range(ring) : r \notin Range(tick[k].items)
                                                /\ Matches(r, tick[k].after, tick[k].level)
                    THEN disturbed \cup {"late"} ELSE disturbed
    /\ UNCHANGED <<ring, seq, logged, tab, resets>>

(* The Logs tab *)

Polling == {k \in Ticks : tick[k].pc # "idle"}

\* Slots of Ticks are taken from the lowest.
Free(k) == tick[k].pc = "idle" /\ \A j \in Ticks : j < k => tick[j].pc # "idle"

Sent(k, after, level) ==
    tick' = [tick EXCEPT ![k] = [NoTick EXCEPT !.pc = "sent", !.after = after, !.level = level]]

\* The timer sends whether or not the last poll has been answered.
SendTick(k) ==
    /\ Free(k)
    /\ Sent(k, tab.logSeq, tab.level)
    /\ disturbed' = IF Polling # {} THEN disturbed \cup {"overlap"} ELSE disturbed
    /\ UNCHANGED <<ring, seq, logged, tab, resets>>

\* The lines are appended and the cursor is set to what the answer says.
Receive(k) ==
    /\ tick[k].pc = "answered"
    /\ tab' = [tab EXCEPT !.logSeq = tick[k].latest,
                          !.box = tab.box \o [i \in DOMAIN tick[k].items |-> tick[k].items[i].id]]
    /\ tick' = [tick EXCEPT ![k] = NoTick]
    /\ UNCHANGED <<ring, seq, logged, resets, disturbed>>

\* The request fails: catch does nothing.
TickFails(k) ==
    /\ tick[k].pc # "idle"
    /\ tick' = [tick EXCEPT ![k] = NoTick]
    /\ UNCHANGED <<ring, seq, logged, tab, resets, disturbed>>

Empty(level) == [logSeq |-> 0, level |-> level, box |-> <<>>]

\* A poll in flight is not cancelled when the box is emptied.
Reset ==
    /\ resets < MaxResets /\ resets' = resets + 1
    /\ disturbed' = IF Polling = {} THEN {} ELSE {"overlap"}

\* The level filter changes: the box is emptied and polled again at once.
SetLevel(level) ==
    /\ level # tab.level
    /\ Reset
    /\ tab' = Empty(level)
    /\ \E k \in Ticks : Free(k) /\ Sent(k, 0, level)
    /\ UNCHANGED <<ring, seq, logged>>

\* The Clear button: POST /api/logs/clear, then the box.
ClearLogs ==
    /\ Reset
    /\ ClearRing
    /\ tab' = Empty(tab.level)
    /\ UNCHANGED <<logged, tick>>

\* A new process: an empty ring that counts from 1 again; the tab stays open.
Restart ==
    /\ resets < MaxResets /\ resets' = resets + 1
    /\ ring' = <<>> /\ seq' = 0
    /\ tick' = [k \in Ticks |-> NoTick]
    /\ disturbed' = disturbed \cup {"restart"}
    /\ UNCHANGED <<logged, tab>>

LogNext ==
    \/ Add
    \/ \E k \in Ticks : GetLogs(k) \/ LatestSeq(k) \/ SendTick(k) \/ Receive(k) \/ TickFails(k)
    \/ \E level \in Levels : SetLevel(level)
    \/ ClearLogs \/ Restart

LogSpec == LogInit /\ [][LogNext]_logVars

-----------------------------------------------------------------------------
(* Properties *)

\* The box shows a record once and in the order of logging, unless polls
\* overlapped or the process restarted: answers that cross set the cursor back.
ShownOnce ==
    disturbed \cap {"overlap", "restart"} = {} =>
        \A i, j \in DOMAIN tab.box : i < j => tab.box[i] < tab.box[j]

\* A record of the ring that the cursor has passed and the filter wants is in
\* the box, unless polls overlapped, the process restarted, a page was too
\* short, or a thread logged between the two reads of the handler.
NothingSlips ==
    disturbed = {} =>
        \A r \in Range(ring) :
            r.seq <= tab.logSeq /\ r.level >= tab.level => r.id \in Range(tab.box)

=============================================================================
