---------------------------- MODULE LogRingProofs ----------------------------
(***************************************************************************)
(* The log ring and the tab that tails it, for any capacity, page, number  *)
(* of polls in flight and number of records.                               *)
(***************************************************************************)
EXTENDS LogRing, SelectionProofs, SequenceTheorems, TLAPS

-----------------------------------------------------------------------------
(* Types *)

LevelFilter == Levels \cup {0}
Tab  == [logSeq : 0 .. MaxRecords, level : LevelFilter, box : Seq(1 .. MaxRecords)]
Poll == [pc : {"idle", "sent", "queried", "answered"}, after : 0 .. MaxRecords,
         level : LevelFilter, items : Seq(Record), latest : 0 .. MaxRecords]

Types ==
    /\ ring \in Seq(Record) /\ Len(ring) <= Capacity
    /\ seq \in 0 .. logged /\ logged \in 0 .. MaxRecords
    /\ tab \in Tab
    /\ tick \in [Ticks -> Poll] /\ \A k \in Ticks : Len(tick[k].items) <= PageLimit
    /\ resets \in 0 .. MaxResets
    /\ disturbed \subseteq {"overlap", "late", "page", "restart"}

\* The ring holds the last records of the process, counted without a gap: id and
\* seq differ by what was logged before the process began.
Consecutive ==
    \A i \in DOMAIN ring : /\ ring[i].seq = seq - Len(ring) + i
                           /\ ring[i].id = logged - Len(ring) + i

LEMMA NewestIs ==
  ASSUME NEW S, NEW s \in Seq(S), NEW n \in Nat \ {0}
  PROVE  /\ Newest(s, n) \in Seq(S) /\ Len(Newest(s, n)) <= n
         /\ Len(Newest(s, n)) \in 0 .. Len(s)
         /\ DOMAIN Newest(s, n) = 1 .. Len(Newest(s, n))
         /\ \A i \in 1 .. Len(Newest(s, n)) :
              /\ i + (Len(s) - Len(Newest(s, n))) \in 1 .. Len(s)
              /\ Newest(s, n)[i] = s[i + (Len(s) - Len(Newest(s, n)))]
<1> DEFINE m == IF Len(s) > n THEN Len(s) - n + 1 ELSE 1
<1>1. Len(s) \in Nat /\ DOMAIN s = 1 .. Len(s) /\ \A i \in 1 .. Len(s) : s[i] \in S
  BY LenProperties
<1>2. m \in Int /\ m \in 1 .. Len(s) + 1 /\ Len(s) - m + 1 <= n
  BY <1>1
<1>3. \A i \in m .. Len(s) : s[i] \in S
  BY <1>1, <1>2
<1>4. Newest(s, n) = SubSeq(s, m, Len(s))
  BY DEF Newest
<1> HIDE DEF m
<1>5. /\ Newest(s, n) \in Seq(S) /\ Len(Newest(s, n)) = Len(s) - m + 1
      /\ \A i \in 1 .. Len(s) - m + 1 : Newest(s, n)[i] = s[m + i - 1]
  BY <1>1, <1>2, <1>3, <1>4, SubSeqProperties
<1>6. DOMAIN Newest(s, n) = 1 .. Len(Newest(s, n))
  BY <1>5, LenProperties
<1>7. ASSUME NEW i \in 1 .. Len(s) - m + 1
      PROVE  /\ i + (Len(s) - (Len(s) - m + 1)) = m + i - 1
             /\ m + i - 1 \in 1 .. Len(s)
  BY <1>1, <1>2
<1> QED BY <1>1, <1>2, <1>5, <1>6, <1>7

LEMMA LevelsAre == Levels \subseteq Nat \ {0} /\ (logged \in 0 .. MaxRecords - 1 => LevelOf[logged + 1] \in Levels)
<1>1. LevelOf \in [1 .. MaxRecords -> Nat \ {0}] /\ MaxRecords \in Nat
  BY LevelAssumption, BoundAssumption
<1>2. logged \in 0 .. MaxRecords - 1 => logged + 1 \in 1 .. MaxRecords
  BY <1>1
<1> QED BY <1>1, <1>2 DEF Levels, Range

LEMMA NoTickType == NoTick \in Poll /\ NoTick.pc = "idle" /\ NoTick.items = <<>> /\ Len(NoTick.items) = 0
<1>1. <<>> \in Seq(Record) /\ Len(<<>>) = 0
  BY EmptySeq
<1> QED BY <1>1, BoundAssumption DEF NoTick, Poll, LevelFilter

\* What a record says.
LEMMA Fields ==
  ASSUME NEW r \in Record
  PROVE  r.seq \in 1 .. MaxRecords /\ r.seq \in Nat /\ r.id \in 1 .. MaxRecords /\ r.id \in Nat /\ r.level \in Nat
<1>1. Levels \subseteq Nat \ {0} /\ MaxRecords \in Nat
  BY BoundAssumption, LevelsAre
<1>2. r.seq \in 1 .. MaxRecords /\ r.id \in 1 .. MaxRecords /\ r.level \in Levels
  BY DEF Record
<1>3. PICK m, i, l : m = r.seq /\ i = r.id /\ l = r.level
  OBVIOUS
<1>4. m \in 1 .. MaxRecords /\ i \in 1 .. MaxRecords /\ l \in Levels
  BY <1>2, <1>3
<1>5. m \in Nat /\ i \in Nat /\ l \in Nat
  BY <1>1, <1>4
<1> QED BY <1>2, <1>3, <1>5

\* A new record, and what it leaves of the ring.
LEMMA Adds ==
  ASSUME Types, Consecutive, Add
  PROVE  /\ ring' \in Seq(Record) /\ Len(ring') <= Capacity /\ Consecutive'
         /\ seq' = seq + 1 /\ logged' = logged + 1 /\ logged' \in 0 .. MaxRecords
         /\ \A r \in Range(ring') : r \in Range(ring) \/ r.seq = seq'
         /\ UNCHANGED <<tab, tick, resets, disturbed>>
<1> DEFINE rec == [seq |-> seq + 1, level |-> LevelOf[logged + 1], id |-> logged + 1]
<1>1. /\ seq \in Nat /\ logged \in Nat /\ seq <= logged /\ logged < MaxRecords /\ MaxRecords \in Nat
      /\ ring \in Seq(Record) /\ Len(ring) \in Nat /\ DOMAIN ring = 1 .. Len(ring)
  BY BoundAssumption, LenProperties DEF Types, Add
<1>2. rec \in Record /\ rec.seq = seq + 1 /\ rec.id = logged + 1
  BY <1>1, LevelsAre DEF Record
<1>3. ring' = Newest(Append(ring, rec), Capacity) /\ seq' = seq + 1 /\ logged' = logged + 1
      /\ UNCHANGED <<tab, tick, resets, disturbed>>
  BY DEF Add, Pushed
<1> HIDE DEF rec
<1>4. PICK s \in Seq(Record) : s = Append(ring, rec)
  BY <1>1, <1>2, AppendProperties
<1>5. /\ Len(s) = Len(ring) + 1 /\ \A i \in 1 .. Len(ring) : s[i] = ring[i]
      /\ s[Len(ring) + 1] = rec
  BY <1>1, <1>2, <1>4, AppendProperties
<1>6. ring' = Newest(s, Capacity) /\ Capacity \in Nat \ {0}
  BY <1>3, <1>4, SizeAssumption
<1>7. PICK n \in 0 .. Len(s) : n = Len(ring')
  BY <1>6, NewestIs
<1>8. /\ ring' \in Seq(Record) /\ n <= Capacity /\ DOMAIN ring' = 1 .. n
      /\ \A i \in 1 .. n : i + (Len(s) - n) \in 1 .. Len(s) /\ ring'[i] = s[i + (Len(s) - n)]
  BY <1>6, <1>7, NewestIs
<1>9. ASSUME NEW i \in 1 .. Len(s)
      PROVE  /\ s[i].seq = seq - Len(ring) + i /\ s[i].id = logged - Len(ring) + i
             /\ s[i] \in Range(ring) \/ s[i].seq = seq + 1
  <2>1. CASE i \in 1 .. Len(ring)
    BY <1>1, <1>5, <2>1 DEF Consecutive, Range
  <2>2. CASE i = Len(ring) + 1
    BY <1>1, <1>2, <1>5, <2>2
  <2> QED BY <1>1, <1>5, <2>1, <2>2
<1>10. ASSUME NEW i \in 1 .. n
       PROVE  ring'[i].seq = seq' - n + i /\ ring'[i].id = logged' - n + i
  <2>1. PICK j \in 1 .. Len(s) : j = i + (Len(s) - n)
    BY <1>8
  <2>2. ring'[i] = s[j] /\ j = i + (Len(ring) + 1) - n
    BY <1>1, <1>5, <1>8, <2>1
  <2>3. ring'[i].seq = seq - Len(ring) + j /\ ring'[i].id = logged - Len(ring) + j
    BY <1>9, <2>2
  <2>4. n \in Nat /\ i \in Nat
    BY <1>1, <1>5
  <2> QED BY <1>1, <1>3, <2>2, <2>3, <2>4
<1>11. Consecutive'
  BY <1>7, <1>8, <1>10 DEF Consecutive
<1>12. \A r \in Range(ring') : r \in Range(ring) \/ r.seq = seq'
  <2> SUFFICES ASSUME NEW i \in 1 .. n PROVE ring'[i] \in Range(ring) \/ ring'[i].seq = seq + 1
    BY <1>3, <1>8 DEF Range
  <2>1. PICK j \in 1 .. Len(s) : ring'[i] = s[j]
    BY <1>8
  <2> QED BY <1>9, <2>1
<1>13. logged' \in 0 .. MaxRecords
  BY <1>1, <1>3
<1> QED BY <1>3, <1>7, <1>8, <1>11, <1>12, <1>13

\* What a query finds: records that match, in the order of the ring.
LEMMA QueryIs ==
  ASSUME Types, Consecutive, NEW a, NEW l
  PROVE  /\ Query(a, l) \in Seq(Record)
         /\ \A i \in 1 .. Len(Query(a, l)) :
              Query(a, l)[i] \in Range(ring) /\ Matches(Query(a, l)[i], a, l)
         /\ \A i, j \in 1 .. Len(Query(a, l)) : i < j => Query(a, l)[i].id < Query(a, l)[j].id
<1> DEFINE found == {i \in DOMAIN ring : Matches(ring[i], a, l)}
<1>1. ring \in Seq(Record) /\ Len(ring) \in Nat /\ DOMAIN ring = 1 .. Len(ring)
      /\ \A i \in 1 .. Len(ring) : ring[i] \in Record
  BY LenProperties, ElementOfSeq DEF Types
<1>2. found \in SUBSET Nat /\ found \subseteq 1 .. Len(ring) /\ IsFiniteSet(found)
  <2>1. found \subseteq 1 .. Len(ring) /\ IsFiniteSet(1 .. Len(ring))
    BY <1>1, FS_Interval
  <2> QED BY <2>1, FS_Subset
<1>3. PICK c \in Nat : c = Cardinality(found)
  BY <1>2, FS_CardinalityType
<1>4. /\ \A k \in 1 .. c : InOrder(found)[k] \in found
      /\ \A k, j \in 1 .. c : k < j => InOrder(found)[k] < InOrder(found)[j]
  BY <1>2, <1>3, InOrderEnumerates
<1>5. Query(a, l) = [k \in 1 .. c |-> ring[InOrder(found)[k]]]
  BY <1>3 DEF Query
<1>6. \A i \in found : ring[i] \in Record /\ ring[i] \in Range(ring) /\ Matches(ring[i], a, l)
  BY <1>1 DEF Range
<1>7. \A i, j \in found : i < j => ring[i].id < ring[j].id
  <2> SUFFICES ASSUME NEW i \in found, NEW j \in found, i < j PROVE ring[i].id < ring[j].id
    OBVIOUS
  <2>1. ring[i].id = logged - Len(ring) + i /\ ring[j].id = logged - Len(ring) + j
    BY DEF Consecutive
  <2> QED BY <1>1, <1>2, <2>1 DEF Types
<1> HIDE DEF found
<1>8. Query(a, l) \in Seq(Record) /\ Len(Query(a, l)) = c
  <2>1. \A k \in 1 .. c : ring[InOrder(found)[k]] \in Record
    BY <1>4, <1>6
  <2>2. Query(a, l) \in [1 .. c -> Record]
    BY <1>5, <2>1
  <2>3. Query(a, l) = [k \in 1 .. c |-> Query(a, l)[k]] /\ \A k \in 1 .. c : Query(a, l)[k] \in Record
    BY <1>5, <2>1
  <2> QED BY <2>3, IsASeq
<1> QED BY <1>4, <1>5, <1>6, <1>7, <1>8

\* One poll changes, the others do not.
LEMMA OneTick ==
  ASSUME Types, NEW k \in Ticks, NEW p \in Poll, tick' = [tick EXCEPT ![k] = p], Len(p.items) <= PageLimit
  PROVE  /\ tick' \in [Ticks -> Poll] /\ tick'[k] = p /\ \A j \in Ticks \ {k} : tick'[j] = tick[j]
         /\ \A j \in Ticks : Len(tick'[j].items) <= PageLimit
  BY DEF Types

\* The handler reads the ring: its page, in order, later than the cursor.
LEMMA Gets ==
  ASSUME Types, Consecutive, NEW k \in Ticks, GetLogs(k)
  PROVE  /\ tick' \in [Ticks -> Poll] /\ \A j \in Ticks \ {k} : tick'[j] = tick[j]
         /\ \A j \in Ticks : Len(tick'[j].items) <= PageLimit
         /\ tick[k].pc = "sent" /\ tick'[k].pc = "queried"
         /\ tick'[k].after = tick[k].after /\ tick'[k].level = tick[k].level
         /\ \A i \in DOMAIN tick'[k].items : /\ tick'[k].items[i] \in Range(ring)
                                             /\ tick'[k].items[i].seq > tick[k].after
         /\ \A i, j \in DOMAIN tick'[k].items : i < j => tick'[k].items[i].id < tick'[k].items[j].id
         /\ disturbed' \in {disturbed, disturbed \cup {"page"}}
         /\ UNCHANGED <<ring, seq, logged, tab, resets>>
<1>1. tick[k] \in Poll
  BY DEF Types
<1>2. PICK q \in Seq(Record) :
        /\ q = Query(tick[k].after, tick[k].level)
        /\ \A i \in 1 .. Len(q) : q[i] \in Range(ring) /\ Matches(q[i], tick[k].after, tick[k].level)
        /\ \A i, j \in 1 .. Len(q) : i < j => q[i].id < q[j].id
  BY QueryIs
<1>3. PICK s : s = Newest(q, PageLimit)
  OBVIOUS
<1>4. /\ s \in Seq(Record) /\ Len(s) <= PageLimit /\ Len(s) \in 0 .. Len(q) /\ DOMAIN s = 1 .. Len(s)
      /\ \A i \in 1 .. Len(s) : i + (Len(q) - Len(s)) \in 1 .. Len(q) /\ s[i] = q[i + (Len(q) - Len(s))]
  BY <1>3, SizeAssumption, NewestIs
<1>5. \A i \in 1 .. Len(s) : s[i] \in Range(ring) /\ s[i].seq > tick[k].after
  BY <1>2, <1>4 DEF Matches
<1>6. \A i, j \in 1 .. Len(s) : i < j => s[i].id < s[j].id
  <2> SUFFICES ASSUME NEW i \in 1 .. Len(s), NEW j \in 1 .. Len(s), i < j PROVE s[i].id < s[j].id
    OBVIOUS
  <2>1. Len(q) \in Nat /\ Len(s) \in Nat
    BY <1>2, <1>4, LenProperties
  <2>2. PICK a \in 1 .. Len(q), b \in 1 .. Len(q) : a = i + (Len(q) - Len(s)) /\ b = j + (Len(q) - Len(s))
    BY <1>4
  <2>3. a < b /\ s[i] = q[a] /\ s[j] = q[b]
    BY <1>4, <2>1, <2>2
  <2> QED BY <1>2, <2>3
<1>7. PICK p : p = [tick[k] EXCEPT !.pc = "queried", !.items = s]
  OBVIOUS
<1>8. /\ p \in Poll /\ p.pc = "queried" /\ p.items = s /\ p.after = tick[k].after
      /\ p.level = tick[k].level
  BY <1>1, <1>4, <1>7 DEF Poll
<1>9. tick' = [tick EXCEPT ![k] = p]
  <2>1. tick' = [tick EXCEPT ![k].pc = "queried", ![k].items = s]
    BY <1>2, <1>3 DEF GetLogs
  <2> QED BY <1>7, <2>1
<1>10. /\ tick' \in [Ticks -> Poll] /\ tick'[k] = p /\ \A j \in Ticks \ {k} : tick'[j] = tick[j]
       /\ \A j \in Ticks : Len(tick'[j].items) <= PageLimit
  BY <1>4, <1>8, <1>9, OneTick
<1>11. /\ tick[k].pc = "sent" /\ disturbed' \in {disturbed, disturbed \cup {"page"}}
       /\ UNCHANGED <<ring, seq, logged, tab, resets>>
  BY DEF GetLogs
<1> QED BY <1>4, <1>5, <1>6, <1>8, <1>10, <1>11

\* The handler reads the count.
LEMMA Names ==
  ASSUME Types, NEW k \in Ticks, LatestSeq(k)
  PROVE  /\ tick' \in [Ticks -> Poll] /\ \A j \in Ticks \ {k} : tick'[j] = tick[j]
         /\ \A j \in Ticks : Len(tick'[j].items) <= PageLimit
         /\ tick[k].pc = "queried" /\ tick'[k].pc = "answered" /\ tick'[k].latest = seq
         /\ tick'[k].after = tick[k].after /\ tick'[k].level = tick[k].level
         /\ tick'[k].items = tick[k].items
         /\ disturbed' \in {disturbed, disturbed \cup {"late"}}
         /\ disturbed' = {} => \A r \in Range(ring) : Matches(r, tick[k].after, tick[k].level)
                                                        => r \in Range(tick[k].items)
         /\ UNCHANGED <<ring, seq, logged, tab, resets>>
<1>1. tick[k] \in Poll /\ seq \in 0 .. MaxRecords /\ Len(tick[k].items) <= PageLimit
  BY BoundAssumption DEF Types
<1>2. PICK p : p = [tick[k] EXCEPT !.pc = "answered", !.latest = seq]
  OBVIOUS
<1>3. /\ p \in Poll /\ p.pc = "answered" /\ p.latest = seq /\ p.items = tick[k].items
      /\ p.after = tick[k].after /\ p.level = tick[k].level
  BY <1>1, <1>2 DEF Poll
<1>4. tick' = [tick EXCEPT ![k] = p]
  BY <1>2 DEF LatestSeq
<1>5. /\ tick' \in [Ticks -> Poll] /\ tick'[k] = p /\ \A j \in Ticks \ {k} : tick'[j] = tick[j]
      /\ \A j \in Ticks : Len(tick'[j].items) <= PageLimit
  BY <1>1, <1>3, <1>4, OneTick
<1> QED BY <1>3, <1>5 DEF LatestSeq

\* A poll is sent.
LEMMA Sends ==
  ASSUME Types, NEW k \in Ticks, NEW a \in 0 .. MaxRecords, NEW l \in LevelFilter, Sent(k, a, l)
  PROVE  /\ tick' \in [Ticks -> Poll] /\ \A j \in Ticks \ {k} : tick'[j] = tick[j]
         /\ \A j \in Ticks : Len(tick'[j].items) <= PageLimit
         /\ tick'[k].pc = "sent" /\ tick'[k].after = a /\ tick'[k].level = l
<1>1. PICK p : p = [NoTick EXCEPT !.pc = "sent", !.after = a, !.level = l]
  OBVIOUS
<1>2. p \in Poll /\ p.pc = "sent" /\ p.after = a /\ p.level = l /\ p.items = NoTick.items
  BY <1>1, NoTickType DEF Poll
<1>3. tick' = [tick EXCEPT ![k] = p] /\ Len(p.items) <= PageLimit
  BY <1>1, <1>2, NoTickType, SizeAssumption DEF Sent
<1> QED BY <1>2, <1>3, OneTick

\* A poll is over.
LEMMA Finishes ==
  ASSUME Types, NEW k \in Ticks, tick' = [tick EXCEPT ![k] = NoTick]
  PROVE  /\ tick' \in [Ticks -> Poll] /\ \A j \in Ticks \ {k} : tick'[j] = tick[j]
         /\ \A j \in Ticks : Len(tick'[j].items) <= PageLimit
         /\ tick'[k].pc = "idle"
<1>1. Len(NoTick.items) <= PageLimit
  BY NoTickType, SizeAssumption
<1> QED BY <1>1, NoTickType, OneTick

\* The tab appends the lines of an answer.
LEMMA Receives ==
  ASSUME Types, NEW k \in Ticks, Receive(k)
  PROVE  /\ tab' \in Tab /\ tab'.logSeq = tick[k].latest /\ tab'.level = tab.level
         /\ tab.box \in Seq(1 .. MaxRecords) /\ tab'.box \in Seq(1 .. MaxRecords)
         /\ Len(tab.box) \in Nat /\ Len(tick[k].items) \in Nat
         /\ DOMAIN tab.box = 1 .. Len(tab.box) /\ DOMAIN tick[k].items = 1 .. Len(tick[k].items)
         /\ DOMAIN tab'.box = 1 .. Len(tab.box) + Len(tick[k].items)
         /\ \A i \in 1 .. Len(tab.box) : tab'.box[i] = tab.box[i]
         /\ \A i \in 1 .. Len(tick[k].items) : tab'.box[Len(tab.box) + i] = tick[k].items[i].id
<1>1. /\ tab.box \in Seq(1 .. MaxRecords) /\ tick[k].items \in Seq(Record)
      /\ tick[k].latest \in 0 .. MaxRecords /\ tab \in Tab
  BY DEF Types, Tab, Poll
<1>2. PICK s, n : s = tick[k].items /\ n = Len(s)
  OBVIOUS
<1>3. /\ s \in Seq(Record) /\ n \in Nat /\ DOMAIN s = 1 .. n
      /\ \A i \in 1 .. n : s[i] \in Record
  BY <1>1, <1>2, LenProperties, ElementOfSeq
<1>4. PICK ids : ids = [i \in 1 .. n |-> s[i].id]
  OBVIOUS
<1>5. ids \in Seq(1 .. MaxRecords) /\ Len(ids) = n
  <2>1. \A i \in 1 .. n : s[i].id \in 1 .. MaxRecords
    BY <1>3, Fields
  <2> QED BY <1>3, <1>4, <2>1, IsASeq
<1>6. PICK b : b = tab.box \o ids
  OBVIOUS
<1>7. /\ b \in Seq(1 .. MaxRecords) /\ Len(b) = Len(tab.box) + n
      /\ \A i \in 1 .. Len(tab.box) : b[i] = tab.box[i]
      /\ \A i \in 1 .. n : b[Len(tab.box) + i] = ids[i]
      /\ Len(tab.box) \in Nat /\ DOMAIN tab.box = 1 .. Len(tab.box) /\ DOMAIN b = 1 .. Len(b)
  <2>1. b \in Seq(1 .. MaxRecords) /\ Len(b) = Len(tab.box) + n
        /\ \A i \in 1 .. Len(tab.box) + n : b[i] = IF i <= Len(tab.box) THEN tab.box[i] ELSE ids[i - Len(tab.box)]
    BY <1>1, <1>5, <1>6, ConcatProperties
  <2>2. Len(tab.box) \in Nat /\ DOMAIN tab.box = 1 .. Len(tab.box) /\ DOMAIN b = 1 .. Len(b)
    BY <1>1, <2>1, LenProperties
  <2>3. \A i \in 1 .. Len(tab.box) : b[i] = tab.box[i]
    BY <1>3, <2>1, <2>2
  <2>4. ASSUME NEW i \in 1 .. n PROVE b[Len(tab.box) + i] = ids[i]
    <3>1. PICK j \in 1 .. Len(tab.box) + n : j = Len(tab.box) + i
      BY <1>3, <2>2
    <3>2. ~(j <= Len(tab.box)) /\ j - Len(tab.box) = i
      BY <1>3, <2>2, <3>1
    <3> QED BY <2>1, <3>1, <3>2
  <2> QED BY <2>1, <2>2, <2>3, <2>4
<1>8. tab' = [tab EXCEPT !.logSeq = tick[k].latest, !.box = b]
  <2>1. tab' = [tab EXCEPT !.logSeq = tick[k].latest,
                           !.box = tab.box \o [i \in DOMAIN tick[k].items |-> tick[k].items[i].id]]
    BY DEF Receive
  <2> QED BY <1>2, <1>3, <1>4, <1>6, <2>1
<1>9. tab' \in Tab /\ tab'.logSeq = tick[k].latest /\ tab'.level = tab.level /\ tab'.box = b
  <2>1. PICK m \in 0 .. MaxRecords : m = tick[k].latest
    BY <1>1
  <2>2. tab' = [tab EXCEPT !.logSeq = m, !.box = b]
    BY <1>8, <2>1
  <2> QED BY <1>1, <1>7, <2>1, <2>2 DEF Tab
<1> QED BY <1>1, <1>2, <1>3, <1>4, <1>7, <1>9

LEMMA EmptyTab ==
  ASSUME NEW l \in LevelFilter
  PROVE  Empty(l) \in Tab /\ Empty(l).logSeq = 0 /\ Empty(l).level = l /\ Empty(l).box = <<>> /\ DOMAIN Empty(l).box = {}
<1>1. <<>> \in Seq(1 .. MaxRecords) /\ DOMAIN <<>> = {}
  BY EmptySeq
<1> QED BY <1>1, BoundAssumption DEF Empty, Tab

LEMMA TypesStep == ASSUME Types, Consecutive, [LogNext]_logVars PROVE Types' /\ Consecutive'
<1>0. <<>> \in Seq(Record) /\ Len(<<>>) = 0 /\ DOMAIN <<>> = {} /\ Capacity \in Nat
  BY EmptySeq, SizeAssumption
<1>a. seq \in Nat /\ logged \in Nat /\ seq <= logged /\ tab.level \in LevelFilter /\ tab.logSeq \in 0 .. MaxRecords
      /\ resets \in 0 .. MaxResets /\ MaxResets \in Nat
  BY BoundAssumption DEF Types, Tab
<1>b. ASSUME Reset
      PROVE resets' \in 0 .. MaxResets /\ disturbed' \subseteq {"overlap", "late", "page", "restart"}
  BY <1>a, <1>b DEF Reset
<1>1. CASE UNCHANGED logVars
  BY <1>1 DEF logVars, Types, Consecutive
<1>2. CASE Add
  <2>1. /\ ring' \in Seq(Record) /\ Len(ring') <= Capacity /\ Consecutive'
        /\ seq' = seq + 1 /\ logged' = logged + 1 /\ logged' \in 0 .. MaxRecords
        /\ UNCHANGED <<tab, tick, resets, disturbed>>
    BY <1>2, Adds
  <2>2. seq' \in 0 .. logged'
    BY <1>a, <2>1
  <2> QED BY <2>1, <2>2 DEF Types
<1>3. ASSUME NEW k \in Ticks, GetLogs(k) PROVE Types' /\ Consecutive'
  BY <1>3, Gets DEF Types, Consecutive
<1>4. ASSUME NEW k \in Ticks, LatestSeq(k) PROVE Types' /\ Consecutive'
  BY <1>4, Names DEF Types, Consecutive
<1>5. ASSUME NEW k \in Ticks, SendTick(k) PROVE Types' /\ Consecutive'
  <2>1. /\ Sent(k, tab.logSeq, tab.level) /\ UNCHANGED <<ring, seq, logged, tab, resets>>
        /\ disturbed' \subseteq disturbed \cup {"overlap"}
    BY <1>5 DEF SendTick
  <2> QED BY <1>a, <2>1, Sends DEF Types, Consecutive
<1>6. ASSUME NEW k \in Ticks, Receive(k) PROVE Types' /\ Consecutive'
  <2>1. tick' = [tick EXCEPT ![k] = NoTick] /\ UNCHANGED <<ring, seq, logged, resets, disturbed>>
    BY <1>6 DEF Receive
  <2> QED BY <1>6, <2>1, Receives, Finishes DEF Types, Consecutive
<1>7. ASSUME NEW k \in Ticks, TickFails(k) PROVE Types' /\ Consecutive'
  <2>1. tick' = [tick EXCEPT ![k] = NoTick] /\ UNCHANGED <<ring, seq, logged, tab, resets, disturbed>>
    BY <1>7 DEF TickFails
  <2> QED BY <2>1, Finishes DEF Types, Consecutive
<1>8. ASSUME NEW l \in Levels, SetLevel(l) PROVE Types' /\ Consecutive'
  <2>1. PICK k \in Ticks : Sent(k, 0, l)
    BY <1>8 DEF SetLevel
  <2>2. Reset /\ tab' = Empty(l) /\ UNCHANGED <<ring, seq, logged>>
    BY <1>8 DEF SetLevel
  <2>3. l \in LevelFilter /\ 0 \in 0 .. MaxRecords
    BY BoundAssumption DEF LevelFilter
  <2> QED BY <1>b, <2>1, <2>2, <2>3, Sends, EmptyTab DEF Types, Consecutive
<1>9. CASE ClearLogs
  <2>1. Reset /\ ring' = <<>> /\ tab' = Empty(tab.level) /\ UNCHANGED <<seq, logged, tick>>
    BY <1>9 DEF ClearLogs, ClearRing
  <2> QED BY <1>0, <1>a, <1>b, <2>1, EmptyTab DEF Types, Consecutive
<1>10. CASE Restart
  <2>1. /\ ring' = <<>> /\ seq' = 0 /\ tick' = [k \in Ticks |-> NoTick] /\ resets' = resets + 1
        /\ resets < MaxResets /\ disturbed' = disturbed \cup {"restart"} /\ UNCHANGED <<logged, tab>>
    BY <1>10 DEF Restart
  <2>2. tick' \in [Ticks -> Poll] /\ \A k \in Ticks : Len(tick'[k].items) <= PageLimit
    BY <2>1, NoTickType, SizeAssumption
  <2> QED BY <1>0, <1>a, <2>1, <2>2 DEF Types, Consecutive
<1> QED BY <1>1, <1>2, <1>3, <1>4, <1>5, <1>6, <1>7, <1>8, <1>9, <1>10 DEF LogNext

LEMMA InitTypes == LogInit => Types /\ Consecutive
<1> SUFFICES ASSUME LogInit PROVE Types /\ Consecutive
  OBVIOUS
<1>1. <<>> \in Seq(Record) /\ <<>> \in Seq(1 .. MaxRecords) /\ Len(<<>>) = 0 /\ DOMAIN <<>> = {}
  BY EmptySeq
<1>2. tab \in Tab
  BY <1>1, BoundAssumption DEF LogInit, Tab, LevelFilter
<1>3. tick \in [Ticks -> Poll] /\ \A k \in Ticks : Len(tick[k].items) <= PageLimit
  BY NoTickType, SizeAssumption DEF LogInit
<1>4. ring = <<>> /\ seq = 0 /\ logged = 0 /\ resets = 0 /\ disturbed = {}
  BY DEF LogInit
<1> QED BY <1>1, <1>2, <1>3, <1>4, SizeAssumption, BoundAssumption DEF Types, Consecutive

\* Every variable keeps its type, and the ring never holds more than its capacity.
THEOREM LogTypesSound == LogSpec => []LogTypeOK
<1>1. Types /\ Consecutive /\ [LogNext]_logVars => (Types /\ Consecutive)'
  BY TypesStep
<1>2. Types => LogTypeOK
  BY DEF Types, LogTypeOK, Tab, Poll, LevelFilter
<1> QED BY <1>1, <1>2, InitTypes, PTL DEF LogSpec

-----------------------------------------------------------------------------
(* What the box shows *)

Quiet == disturbed \cap {"overlap", "restart"} = {}

\* While polls do not overlap, the one in flight asks for what follows the cursor.
Asking ==
    "overlap" \notin disturbed =>
        \A k \in Polling : /\ Polling \subseteq {k}
                           /\ tick[k].after = tab.logSeq /\ tick[k].level = tab.level

\* The box ends where the cursor stands, and a page begins behind it. What the
\* process has not logged itself, logged - seq records, comes before both.
InBox ==
    Quiet =>
        /\ tab.logSeq <= seq
        /\ \A i, j \in DOMAIN tab.box : i < j => tab.box[i] < tab.box[j]
        /\ \A i \in DOMAIN tab.box : tab.box[i] <= tab.logSeq + (logged - seq)

OnPage ==
    Quiet => \A k \in Ticks : tick[k].pc \in {"queried", "answered"} =>
        /\ \A i, j \in DOMAIN tick[k].items : i < j => tick[k].items[i].id < tick[k].items[j].id
        /\ \A i \in DOMAIN tick[k].items :
             tick[k].after + (logged - seq) < tick[k].items[i].id /\ tick[k].items[i].id <= logged

Answered ==
    Quiet => \A k \in Ticks : tick[k].pc = "answered" =>
        /\ tick[k].after <= tick[k].latest /\ tick[k].latest <= seq
        /\ \A i \in DOMAIN tick[k].items : tick[k].items[i].id <= tick[k].latest + (logged - seq)

\* An answer holds what its cursor passes.
Complete ==
    disturbed = {} => \A k \in Ticks : tick[k].pc = "answered" =>
        \A r \in Range(ring) :
            /\ tick[k].after < r.seq /\ r.seq <= tick[k].latest /\ r.level >= tick[k].level
            => r \in Range(tick[k].items)

TabInv ==
    /\ Types /\ Consecutive
    /\ Asking /\ InBox /\ OnPage /\ Answered
    /\ Complete /\ NothingSlips

\* Numbers and fields of what the invariants compare.
LEMMA Kinds ==
  ASSUME Types
  PROVE  /\ seq \in Nat /\ logged \in Nat /\ seq <= logged /\ tab.logSeq \in Nat /\ tab.level \in LevelFilter
         /\ \A r \in Range(ring) : r \in Record
         /\ \A i \in DOMAIN tab.box : tab.box[i] \in Nat
         /\ \A k \in Ticks : /\ tick[k].after \in Nat /\ tick[k].latest \in Nat
                             /\ \A i \in DOMAIN tick[k].items : tick[k].items[i] \in Record
         /\ LevelFilter \subseteq Nat
<1>1. /\ seq \in Nat /\ logged \in Nat /\ seq <= logged /\ tab.logSeq \in Nat /\ tab.level \in LevelFilter
      /\ \A k \in Ticks : tick[k] \in Poll /\ tick[k].after \in Nat /\ tick[k].latest \in Nat
      /\ LevelFilter \subseteq Nat
  BY BoundAssumption, LevelsAre DEF Types, Tab, Poll, LevelFilter
<1>2. ASSUME NEW S, NEW s \in Seq(S) PROVE \A i \in DOMAIN s : s[i] \in S
  BY LenProperties, ElementOfSeq
<1>3. tab.box \in Seq(1 .. MaxRecords) /\ ring \in Seq(Record) /\ \A k \in Ticks : tick[k].items \in Seq(Record)
  BY DEF Types, Tab, Poll
<1>4. \A i \in DOMAIN tab.box : tab.box[i] \in 1 .. MaxRecords
  BY <1>2, <1>3
<1>5. \A i \in DOMAIN ring : ring[i] \in Record
  BY <1>2, <1>3
<1>6. \A k \in Ticks : \A i \in DOMAIN tick[k].items : tick[k].items[i] \in Record
  BY <1>2, <1>3
<1>7. \A i \in DOMAIN tab.box : tab.box[i] \in Nat
  BY <1>4, BoundAssumption
<1> QED BY <1>1, <1>5, <1>6, <1>7 DEF Range

\* Records of the ring are of this process.
LEMMA OfProcess ==
  ASSUME Types, Consecutive, NEW r \in Range(ring)
  PROVE  r.id = r.seq + (logged - seq) /\ r.id <= logged /\ r.seq <= seq
<1>1. PICK i \in 1 .. Len(ring) : r = ring[i]
  BY LenProperties DEF Types, Range
<1>2. Len(ring) \in Nat /\ DOMAIN ring = 1 .. Len(ring)
  BY LenProperties DEF Types
<1>3. r.seq = seq - Len(ring) + i /\ r.id = logged - Len(ring) + i
  BY <1>1, <1>2 DEF Consecutive
<1> QED BY <1>2, <1>3, Kinds

\* The box is emptied while no poll is in flight: everything begins anew.
LEMMA Anew ==
  ASSUME Types, Types', Consecutive', UNCHANGED <<seq, logged>>, NEW l \in LevelFilter, tab' = Empty(l),
         Polling = {} => /\ \A k \in Ticks : tick'[k].pc \in {"idle", "sent"}
                         /\ \A k \in Polling' : /\ Polling' \subseteq {k} /\ tick'[k].after = 0
                                                /\ tick'[k].level = l,
         Range(ring') \subseteq Range(ring), Reset
  PROVE  TabInv'
<1>1. Empty(l).logSeq = 0 /\ Empty(l).level = l /\ DOMAIN Empty(l).box = {}
  BY EmptyTab
<1>2. disturbed' = IF Polling = {} THEN {} ELSE {"overlap"}
  BY DEF Reset
<1>3. CASE Polling # {}
  BY <1>2, <1>3 DEF TabInv, Asking, InBox, OnPage, Answered, Complete, NothingSlips, Quiet
<1>4. CASE Polling = {}
  <2>1. Asking' /\ OnPage' /\ Answered' /\ Complete'
    BY <1>1, <1>4 DEF Asking, OnPage, Answered, Complete
  <2>2. InBox'
    BY <1>1, Kinds DEF InBox
  <2>3. \A r \in Range(ring') : ~(r.seq <= 0)
    <3>1. \A r \in Range(ring') : r \in Record
      BY Kinds
    <3> QED BY <3>1, Fields
  <2>4. NothingSlips'
    BY <1>1, <2>3 DEF NothingSlips
  <2> QED BY <2>1, <2>2, <2>4 DEF TabInv
<1> QED BY <1>3, <1>4

\* A poll that no answer rests on changes, and nothing else.
LEMMA Elsewhere ==
  ASSUME TabInv, Types', Consecutive', NEW k \in Ticks, \A j \in Ticks \ {k} : tick'[j] = tick[j],
         tick'[k].pc \in {"idle", "sent"},
         UNCHANGED <<ring, seq, logged, tab>>, disturbed \subseteq disturbed', Asking'
  PROVE  TabInv'
<1>1. Quiet' => Quiet
  BY DEF Quiet
<1>2. InBox'
  BY <1>1 DEF TabInv, InBox
<1>3. OnPage'
  BY <1>1 DEF TabInv, OnPage
<1>4. Answered'
  BY <1>1 DEF TabInv, Answered
<1>5. Complete' /\ NothingSlips'
  BY DEF TabInv, Complete, NothingSlips
<1> QED BY <1>2, <1>3, <1>4, <1>5 DEF TabInv

LEMMA TabAdds == ASSUME TabInv, Types', Consecutive', Add PROVE TabInv'
<1>0. Types /\ Consecutive
  BY DEF TabInv
<1>1. /\ seq' = seq + 1 /\ logged' = logged + 1 /\ UNCHANGED <<tab, tick, disturbed>>
      /\ \A r \in Range(ring') : r \in Range(ring) \/ r.seq = seq + 1
  BY <1>0, Adds
<1>2. /\ seq \in Nat /\ logged \in Nat /\ tab.logSeq \in Nat /\ logged' - seq' = logged - seq
      /\ \A k \in Ticks : tick[k].latest \in Nat
  BY <1>0, <1>1, Kinds
<1>3. Quiet' <=> Quiet
  BY <1>1 DEF Quiet
<1>4. Asking'
  BY <1>1 DEF TabInv, Asking, Polling
<1>5. InBox'
  <2> SUFFICES ASSUME Quiet PROVE InBox'
    BY <1>3 DEF InBox
  <2>1. tab.logSeq <= seq' /\ \A i \in DOMAIN tab.box : tab.box[i] <= tab.logSeq + (logged' - seq')
    BY <1>1, <1>2 DEF TabInv, InBox
  <2> QED BY <1>1, <2>1 DEF TabInv, InBox
<1>6. OnPage'
  <2> SUFFICES ASSUME Quiet, NEW k \in Ticks, tick[k].pc \in {"queried", "answered"}
               PROVE  /\ \A i, j \in DOMAIN tick[k].items : i < j => tick[k].items[i].id < tick[k].items[j].id
                      /\ \A i \in DOMAIN tick[k].items : /\ tick[k].after + (logged' - seq') < tick[k].items[i].id
                                                         /\ tick[k].items[i].id <= logged'
    BY <1>1, <1>3 DEF OnPage
  <2>1. ASSUME NEW i \in DOMAIN tick[k].items PROVE tick[k].items[i].id <= logged'
    <3>1. tick[k].items[i].id <= logged /\ tick[k].items[i].id \in Nat
      BY <1>0, Kinds, Fields DEF TabInv, OnPage
    <3> QED BY <1>1, <1>2, <3>1
  <2> QED BY <1>2, <2>1 DEF TabInv, OnPage
<1>7. Answered'
  <2> SUFFICES ASSUME Quiet, NEW k \in Ticks, tick[k].pc = "answered"
               PROVE  /\ tick[k].after <= tick[k].latest /\ tick[k].latest <= seq'
                      /\ \A i \in DOMAIN tick[k].items : tick[k].items[i].id <= tick[k].latest + (logged' - seq')
    BY <1>1, <1>3 DEF Answered
  <2>1. tick[k].latest <= seq
    BY DEF TabInv, Answered
  <2> QED BY <1>1, <1>2, <2>1 DEF TabInv, Answered
<1>8. Complete'
  <2> SUFFICES ASSUME disturbed = {}, NEW k \in Ticks, tick[k].pc = "answered", NEW r \in Range(ring'),
                      tick[k].after < r.seq, r.seq <= tick[k].latest, r.level >= tick[k].level
               PROVE  r \in Range(tick[k].items)
    BY <1>1 DEF Complete
  <2>1. tick[k].latest <= seq
    BY DEF TabInv, Answered, Quiet
  <2>2. r \in Range(ring)
    BY <1>1, <1>2, <2>1
  <2> QED BY <2>2 DEF TabInv, Complete
<1>9. NothingSlips'
  <2> SUFFICES ASSUME disturbed = {}, NEW r \in Range(ring'), r.seq <= tab.logSeq, r.level >= tab.level
               PROVE  r.id \in Range(tab.box)
    BY <1>1 DEF NothingSlips
  <2>1. tab.logSeq <= seq
    BY DEF TabInv, InBox, Quiet
  <2>2. r \in Range(ring)
    BY <1>1, <1>2, <2>1
  <2> QED BY <2>2 DEF TabInv, NothingSlips
<1> QED BY <1>4, <1>5, <1>6, <1>7, <1>8, <1>9 DEF TabInv

LEMMA TabGets == ASSUME TabInv, Types', Consecutive', NEW k \in Ticks, GetLogs(k) PROVE TabInv'
<1>0. Types /\ Consecutive
  BY DEF TabInv
<1>1. /\ \A j \in Ticks \ {k} : tick'[j] = tick[j]
      /\ tick[k].pc = "sent" /\ tick'[k].pc = "queried"
      /\ tick'[k].after = tick[k].after /\ tick'[k].level = tick[k].level
      /\ \A i \in DOMAIN tick'[k].items : /\ tick'[k].items[i] \in Range(ring)
                                          /\ tick'[k].items[i].seq > tick[k].after
      /\ \A i, j \in DOMAIN tick'[k].items : i < j => tick'[k].items[i].id < tick'[k].items[j].id
      /\ UNCHANGED <<ring, seq, logged, tab>>
  BY <1>0, Gets
<1>2. (Quiet' => Quiet) /\ (disturbed' = {} => disturbed = {}) /\ ("overlap" \in disturbed => "overlap" \in disturbed')
  BY <1>0, Gets DEF Quiet
<1>3. Polling' = Polling
  BY <1>1 DEF Polling
<1>4. Asking'
  BY <1>1, <1>2, <1>3 DEF TabInv, Asking, Polling
<1>5. InBox'
  BY <1>1, <1>2 DEF TabInv, InBox
<1>6. ASSUME NEW i \in DOMAIN tick'[k].items
      PROVE  tick[k].after + (logged - seq) < tick'[k].items[i].id /\ tick'[k].items[i].id <= logged
  <2>1. PICK r \in Range(ring) : r = tick'[k].items[i] /\ r.seq > tick[k].after
    BY <1>1
  <2>2. r.id = r.seq + (logged - seq) /\ r.id <= logged /\ r.seq \in Nat
    BY <1>0, OfProcess, Kinds, Fields
  <2> QED BY <1>0, <2>1, <2>2, Kinds
<1>7. OnPage'
  BY <1>1, <1>2, <1>6 DEF TabInv, OnPage
<1>8. Answered'
  BY <1>1, <1>2 DEF TabInv, Answered
<1>9. Complete' /\ NothingSlips'
  BY <1>1, <1>2 DEF TabInv, Complete, NothingSlips
<1> QED BY <1>4, <1>5, <1>7, <1>8, <1>9 DEF TabInv

LEMMA TabNames == ASSUME TabInv, Types', Consecutive', NEW k \in Ticks, LatestSeq(k) PROVE TabInv'
<1>0. Types /\ Consecutive
  BY DEF TabInv
<1>1. /\ \A j \in Ticks \ {k} : tick'[j] = tick[j]
      /\ tick[k].pc = "queried" /\ tick'[k].pc = "answered" /\ tick'[k].latest = seq
      /\ tick'[k].after = tick[k].after /\ tick'[k].level = tick[k].level
      /\ tick'[k].items = tick[k].items
      /\ disturbed' = {} => \A r \in Range(ring) : Matches(r, tick[k].after, tick[k].level)
                                                     => r \in Range(tick[k].items)
      /\ UNCHANGED <<ring, seq, logged, tab>>
  BY <1>0, Names
<1>2. (Quiet' => Quiet) /\ (disturbed' = {} => disturbed = {}) /\ ("overlap" \in disturbed => "overlap" \in disturbed')
  BY <1>0, Names DEF Quiet
<1>3. Polling' = Polling /\ k \in Polling
  BY <1>1 DEF Polling
<1>4. Asking'
  BY <1>1, <1>2, <1>3 DEF TabInv, Asking, Polling
<1>5. InBox'
  BY <1>1, <1>2 DEF TabInv, InBox
<1>6. OnPage'
  BY <1>1, <1>2 DEF TabInv, OnPage
<1>7. ASSUME Quiet
      PROVE  /\ tick[k].after <= seq
             /\ \A i \in DOMAIN tick[k].items : tick[k].items[i].id <= seq + (logged - seq)
  <2>1. tick[k].after = tab.logSeq /\ tab.logSeq <= seq
    BY <1>3, <1>7 DEF TabInv, Asking, InBox, Quiet
  <2>2. logged = seq + (logged - seq)
    BY <1>0, Kinds
  <2>3. \A i \in DOMAIN tick[k].items : tick[k].items[i].id <= logged
    BY <1>1, <1>7 DEF TabInv, OnPage
  <2> QED BY <2>1, <2>2, <2>3
<1>8. Answered'
  <2> SUFFICES ASSUME Quiet', NEW j \in Ticks, tick'[j].pc = "answered"
               PROVE  /\ tick'[j].after <= tick'[j].latest /\ tick'[j].latest <= seq
                      /\ \A i \in DOMAIN tick'[j].items : tick'[j].items[i].id <= tick'[j].latest + (logged - seq)
    BY <1>1 DEF Answered
  <2>1. CASE j = k
    BY <1>0, <1>1, <1>2, <1>7, <2>1, Kinds
  <2>2. CASE j # k
    BY <1>1, <1>2, <2>2 DEF TabInv, Answered
  <2> QED BY <2>1, <2>2
<1>9. Complete'
  <2> SUFFICES ASSUME disturbed' = {}, NEW j \in Ticks, tick'[j].pc = "answered", NEW r \in Range(ring),
                      tick'[j].after < r.seq, r.seq <= tick'[j].latest, r.level >= tick'[j].level
               PROVE  r \in Range(tick'[j].items)
    BY <1>1 DEF Complete
  <2>1. CASE j = k
    <3>1. Matches(r, tick[k].after, tick[k].level)
      <4>1. r.seq \in Nat /\ tick[k].after \in Nat
        BY <1>0, Kinds, Fields
      <4> QED BY <1>1, <2>1, <4>1 DEF Matches
    <3> QED BY <1>1, <2>1, <3>1
  <2>2. CASE j # k
    BY <1>1, <1>2, <2>2 DEF TabInv, Complete
  <2> QED BY <2>1, <2>2
<1>10. NothingSlips'
  BY <1>1, <1>2 DEF TabInv, NothingSlips
<1> QED BY <1>4, <1>5, <1>6, <1>8, <1>9, <1>10 DEF TabInv

LEMMA TabReceives == ASSUME TabInv, Types', Consecutive', NEW k \in Ticks, Receive(k) PROVE TabInv'
<1>0. Types /\ Consecutive
  BY DEF TabInv
<1>1. /\ tick[k].pc = "answered" /\ tick' = [tick EXCEPT ![k] = NoTick]
      /\ UNCHANGED <<ring, seq, logged, disturbed>>
  BY DEF Receive
<1>2. tick'[k].pc = "idle" /\ \A j \in Ticks \ {k} : tick'[j] = tick[j]
  BY <1>0, <1>1, Finishes
<1>3. PICK m, n, items : m = Len(tab.box) /\ n = Len(items) /\ items = tick[k].items
  OBVIOUS
<1>4. /\ tab'.logSeq = tick[k].latest /\ tab'.level = tab.level /\ m \in Nat /\ n \in Nat
      /\ DOMAIN tab.box = 1 .. m /\ DOMAIN items = 1 .. n /\ DOMAIN tab'.box = 1 .. m + n
      /\ \A i \in 1 .. m : tab'.box[i] = tab.box[i]
      /\ \A i \in 1 .. n : tab'.box[m + i] = items[i].id
  BY <1>0, <1>3, Receives
<1>5. k \in Polling
  BY <1>1 DEF Polling
<1>6. Quiet => \A j \in Ticks : tick'[j].pc = "idle"
  BY <1>2, <1>5 DEF TabInv, Asking, Quiet, Polling
<1>7. Asking'
  <2>1. "overlap" \notin disturbed => Polling \subseteq {k}
    BY <1>5 DEF TabInv, Asking
  <2>2. Polling' \subseteq Polling \ {k}
    BY <1>2 DEF Polling
  <2> QED BY <1>1, <2>1, <2>2 DEF Asking
<1>8. OnPage' /\ Answered'
  BY <1>1, <1>6 DEF OnPage, Answered, Quiet
<1>9. Complete'
  BY <1>1, <1>6 DEF Complete, Quiet
<1>10. ASSUME Quiet
       PROVE  /\ tick[k].after = tab.logSeq /\ tick[k].level = tab.level
              /\ tick[k].after <= tick[k].latest /\ tick[k].latest <= seq
              /\ \A i, j \in 1 .. n : i < j => items[i].id < items[j].id
              /\ \A i \in 1 .. n : /\ tick[k].after + (logged - seq) < items[i].id
                                   /\ items[i].id <= tick[k].latest + (logged - seq)
  <2>1. tick[k].after = tab.logSeq /\ tick[k].level = tab.level
    BY <1>5, <1>10 DEF TabInv, Asking, Quiet
  <2>2. tick[k].after <= tick[k].latest /\ tick[k].latest <= seq
        /\ \A i \in 1 .. n : items[i].id <= tick[k].latest + (logged - seq)
    BY <1>1, <1>3, <1>4, <1>10 DEF TabInv, Answered
  <2>3. /\ \A i, j \in 1 .. n : i < j => items[i].id < items[j].id
        /\ \A i \in 1 .. n : tick[k].after + (logged - seq) < items[i].id
    BY <1>1, <1>3, <1>4, <1>10 DEF TabInv, OnPage
  <2> QED BY <2>1, <2>2, <2>3
<1>11. /\ \A i \in 1 .. m : tab.box[i] \in Nat
       /\ \A i \in 1 .. n : items[i].id \in Nat
       /\ seq \in Nat /\ logged \in Nat /\ tab.logSeq \in Nat /\ tick[k].latest \in Nat
  BY <1>0, <1>3, <1>4, Kinds, Fields
<1>12. ASSUME NEW i \in 1 .. m + n
       PROVE  \/ i \in 1 .. m /\ tab'.box[i] = tab.box[i]
              \/ \E a \in 1 .. n : i = m + a /\ tab'.box[i] = items[a].id
  <2>1. CASE i \in 1 .. m
    BY <1>4, <2>1
  <2>2. CASE i \notin 1 .. m
    <3>1. i - m \in 1 .. n /\ i = m + (i - m)
      BY <1>4, <2>2
    <3> QED BY <1>4, <3>1
  <2> QED BY <2>1, <2>2
<1>13. ASSUME Quiet, NEW i \in 1 .. m + n PROVE tab'.box[i] <= tick[k].latest + (logged - seq)
  <2>1. CASE i \in 1 .. m /\ tab'.box[i] = tab.box[i]
    <3>1. tab.box[i] <= tab.logSeq + (logged - seq)
      BY <1>4, <1>13, <2>1 DEF TabInv, InBox
    <3> QED BY <1>10, <1>11, <1>13, <2>1, <3>1
  <2>2. CASE \E a \in 1 .. n : i = m + a /\ tab'.box[i] = items[a].id
    BY <1>10, <1>13, <2>2
  <2> QED BY <1>12, <2>1, <2>2
<1>14. ASSUME Quiet, NEW i \in 1 .. m + n, NEW j \in 1 .. m + n, i < j PROVE tab'.box[i] < tab'.box[j]
  <2>1. CASE j \in 1 .. m
    <3>1. i \in 1 .. m
      BY <1>4, <1>14, <2>1
    <3> QED BY <1>4, <1>14, <2>1, <3>1 DEF TabInv, InBox
  <2>2. CASE j \notin 1 .. m
    <3>1. PICK b \in 1 .. n : j = m + b /\ tab'.box[j] = items[b].id
      BY <1>12, <2>2
    <3>2. CASE i \in 1 .. m
      <4>1. tab.box[i] <= tab.logSeq + (logged - seq) /\ tab'.box[i] = tab.box[i]
        BY <1>4, <1>14, <3>2 DEF TabInv, InBox
      <4>2. tab.logSeq + (logged - seq) < items[b].id
        BY <1>10, <1>14
      <4> QED BY <1>11, <3>1, <3>2, <4>1, <4>2
    <3>3. CASE i \notin 1 .. m
      <4>1. PICK a \in 1 .. n : i = m + a /\ tab'.box[i] = items[a].id
        BY <1>12, <3>3
      <4>2. a < b
        BY <1>4, <1>14, <3>1, <4>1
      <4> QED BY <1>10, <1>14, <3>1, <4>1, <4>2
    <3> QED BY <3>2, <3>3
  <2> QED BY <2>1, <2>2
<1>15. InBox'
  BY <1>1, <1>4, <1>10, <1>13, <1>14 DEF InBox, Quiet
<1>16. NothingSlips'
  <2> SUFFICES ASSUME disturbed = {}, NEW r \in Range(ring), r.seq <= tick[k].latest, r.level >= tab.level
               PROVE  r.id \in Range(tab'.box)
    BY <1>1, <1>4 DEF NothingSlips
  <2>0. Quiet
    BY DEF Quiet
  <2>1. CASE r.seq <= tab.logSeq
    <3>1. r.id \in Range(tab.box)
      BY <2>1 DEF TabInv, NothingSlips
    <3>2. PICK i \in 1 .. m : r.id = tab.box[i]
      BY <1>4, <3>1 DEF Range
    <3>3. i \in 1 .. m + n
      BY <1>4
    <3> QED BY <1>4, <3>2, <3>3 DEF Range
  <2>2. CASE ~(r.seq <= tab.logSeq)
    <3>1. tick[k].after < r.seq /\ r.level >= tick[k].level
      <4>1. r.seq \in Nat
        BY <1>0, Kinds, Fields
      <4> QED BY <1>10, <1>11, <2>0, <2>2, <4>1
    <3>2. r \in Range(items)
      BY <1>1, <1>3, <3>1 DEF TabInv, Complete
    <3>3. PICK a \in 1 .. n : r = items[a]
      BY <1>4, <3>2 DEF Range
    <3>4. m + a \in 1 .. m + n /\ tab'.box[m + a] = r.id
      BY <1>4, <3>3
    <3> QED BY <1>4, <3>4 DEF Range
  <2> QED BY <2>1, <2>2
<1> QED BY <1>7, <1>8, <1>9, <1>15, <1>16 DEF TabInv

LEMMA TabStep == ASSUME TabInv, [LogNext]_logVars PROVE TabInv'
<1>0. Types /\ Consecutive /\ Types' /\ Consecutive' /\ tab.level \in LevelFilter
      /\ tab.logSeq \in 0 .. MaxRecords /\ 0 \in 0 .. MaxRecords
  BY TypesStep, BoundAssumption DEF TabInv, Types, Tab
<1>1. CASE UNCHANGED logVars
  BY <1>0, <1>1 DEF logVars, TabInv, Asking, InBox, OnPage, Answered, Complete, NothingSlips, Quiet, Polling
<1>2. CASE Add
  BY <1>0, <1>2, TabAdds
<1>3. ASSUME NEW k \in Ticks, GetLogs(k) PROVE TabInv'
  BY <1>0, <1>3, TabGets
<1>4. ASSUME NEW k \in Ticks, LatestSeq(k) PROVE TabInv'
  BY <1>0, <1>4, TabNames
<1>5. ASSUME NEW k \in Ticks, SendTick(k) PROVE TabInv'
  <2>1. /\ Sent(k, tab.logSeq, tab.level) /\ UNCHANGED <<ring, seq, logged, tab>>
        /\ disturbed' = IF Polling # {} THEN disturbed \cup {"overlap"} ELSE disturbed
    BY <1>5 DEF SendTick
  <2>2. /\ tick'[k].pc = "sent" /\ tick'[k].after = tab.logSeq /\ tick'[k].level = tab.level
        /\ \A j \in Ticks \ {k} : tick'[j] = tick[j]
    BY <1>0, <2>1, Sends
  <2>3. Polling' = Polling \cup {k}
    BY <2>2 DEF Polling
  <2>4. Asking'
    BY <2>1, <2>2, <2>3 DEF Asking
  <2> QED BY <1>0, <2>1, <2>2, <2>4, Elsewhere
<1>6. ASSUME NEW k \in Ticks, Receive(k) PROVE TabInv'
  BY <1>0, <1>6, TabReceives
<1>7. ASSUME NEW k \in Ticks, TickFails(k) PROVE TabInv'
  <2>1. tick' = [tick EXCEPT ![k] = NoTick] /\ UNCHANGED <<ring, seq, logged, tab, disturbed>>
    BY <1>7 DEF TickFails
  <2>2. tick'[k].pc = "idle" /\ \A j \in Ticks \ {k} : tick'[j] = tick[j]
    BY <1>0, <2>1, Finishes
  <2>3. Polling' \subseteq Polling /\ \A j \in Polling' : tick'[j] = tick[j]
    BY <2>2 DEF Polling
  <2>4. Asking'
    BY <2>1, <2>3 DEF TabInv, Asking
  <2> QED BY <1>0, <2>1, <2>2, <2>4, Elsewhere
<1>8. ASSUME NEW l \in Levels, SetLevel(l) PROVE TabInv'
  <2>1. PICK k \in Ticks : Sent(k, 0, l)
    BY <1>8 DEF SetLevel
  <2>2. Reset /\ tab' = Empty(l) /\ UNCHANGED <<ring, seq, logged>> /\ l \in LevelFilter
    BY <1>8 DEF SetLevel, LevelFilter
  <2>3. /\ tick'[k].pc = "sent" /\ tick'[k].after = 0 /\ tick'[k].level = l
        /\ \A j \in Ticks \ {k} : tick'[j] = tick[j]
    BY <1>0, <2>1, <2>2, Sends
  <2>4. Polling = {} => /\ \A j \in Ticks : tick'[j].pc \in {"idle", "sent"}
                        /\ Polling' = {k}
    BY <2>3 DEF Polling
  <2> QED BY <1>0, <2>2, <2>3, <2>4, Anew
<1>9. CASE ClearLogs
  <2>1. Reset /\ ring' = <<>> /\ tab' = Empty(tab.level) /\ UNCHANGED <<seq, logged, tick>>
    BY <1>9 DEF ClearLogs, ClearRing
  <2>2. Range(ring') = {} /\ Polling' = Polling
    BY <2>1, EmptySeq DEF Range, Polling
  <2>3. Polling = {} => \A j \in Ticks : tick'[j].pc \in {"idle", "sent"}
    BY <2>1 DEF Polling
  <2> QED BY <1>0, <2>1, <2>2, <2>3, Anew
<1>10. CASE Restart
  <2>1. tick' = [k \in Ticks |-> NoTick] /\ "restart" \in disturbed'
    BY <1>10 DEF Restart
  <2>2. Polling' = {}
    BY <2>1, NoTickType DEF Polling
  <2> QED BY <1>0, <2>1, <2>2 DEF TabInv, Asking, InBox, OnPage, Answered, Complete, NothingSlips, Quiet
<1> QED BY <1>1, <1>2, <1>3, <1>4, <1>5, <1>6, <1>7, <1>8, <1>9, <1>10 DEF LogNext

LEMMA TabInit == LogInit => TabInv
<1> SUFFICES ASSUME LogInit PROVE TabInv
  OBVIOUS
<1>1. Types /\ Consecutive
  BY InitTypes
<1>2. DOMAIN ring = {} /\ DOMAIN tab.box = {} /\ tab.logSeq = 0 /\ seq = 0
  BY EmptySeq DEF LogInit
<1>3. \A k \in Ticks : tick[k].pc = "idle"
  BY NoTickType DEF LogInit
<1> QED BY <1>1, <1>2, <1>3 DEF TabInv, Asking, InBox, OnPage, Answered, Complete, NothingSlips, Polling, Range

\* The box shows a record once and in the order of logging, unless polls
\* overlapped or the process restarted: the cursor never stands behind the box.
THEOREM ShownSound == LogSpec => []ShownOnce
<1>1. TabInv /\ [LogNext]_logVars => TabInv'
  BY TabStep
<1>2. TabInv => ShownOnce
  BY DEF TabInv, InBox, Quiet, ShownOnce
<1> QED BY <1>1, <1>2, TabInit, PTL DEF LogSpec

\* No record slips past the tab unless the history names the reason.
THEOREM SlipsSound == LogSpec => []NothingSlips
<1>1. TabInv /\ [LogNext]_logVars => TabInv'
  BY TabStep
<1>2. TabInv => NothingSlips
  BY DEF TabInv
<1> QED BY <1>1, <1>2, TabInit, PTL DEF LogSpec

=============================================================================
