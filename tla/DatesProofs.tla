----------------------------- MODULE DatesProofs -----------------------------
(***************************************************************************)
(* That stored dates are in order, for any number of records, of variables *)
(* and of hours added, and however long the clock runs.                    *)
(***************************************************************************)
EXTENDS Dates, TLAPS

\* Until the clock is set back nothing is dated after it.
ClockAhead ==
  ~setBack => /\ entry.of <= clock
              /\ \A i \in DOMAIN records : records[i].of <= clock

DatesInv == TypeOK /\ EntryDatedWithRecords /\ ClockAhead

\* The parts of the invariant that are about the table, and those that are
\* about the caller's variables.
StoredInv ==
  /\ clock \in Instant /\ setBack \in BOOLEAN /\ pending \in BOOLEAN
  /\ entry \in Text /\ records \in Seq(Text)
  /\ EntryDatedWithRecords /\ ClockAhead

HeldInv == held \in [Holder -> DateTime]

LEMMA InvParts == DatesInv <=> StoredInv /\ HeldInv
BY DEF DatesInv, StoredInv, HeldInv, TypeOK

\* __parse__ and the clock.
LEMMA NowFacts ==
  ASSUME clock \in Instant
  PROVE  /\ Now.shown \in Text /\ Now.shown.of = clock
         /\ Now.instant = clock /\ Now \in DateTime
<1>1. Now = [instant |-> clock, shown |-> [of |-> clock, padded |-> FALSE]]
  BY DEF Now, Strings
<1> QED
  BY <1>1 DEF Text, DateTime

\* A record more, and a record less.
LEMMA Appended ==
  ASSUME NEW s \in Seq(Text), NEW t \in Text
  PROVE  /\ Append(s, t) \in Seq(Text) /\ Len(Append(s, t)) = Len(s) + 1
         /\ Len(s) \in Nat
         /\ \A i \in 1 .. Len(s) : Append(s, t)[i] = s[i]
         /\ Append(s, t)[Len(s) + 1] = t
OBVIOUS

LEMMA Shortened ==
  ASSUME NEW s \in Seq(Text), Len(s) > 1
  PROVE  /\ Front(s) \in Seq(Text) /\ Len(Front(s)) = Len(s) - 1 /\ Len(s) \in Nat
         /\ \A i \in 1 .. Len(s) - 1 : Front(s)[i] = s[i]
         /\ Last(Front(s)) = s[Len(s) - 1]
<1>1. Len(s) \in Nat /\ Len(s) - 1 \in 1 .. Len(s)
  OBVIOUS
<1>2. /\ Front(s) \in Seq(Text) /\ Len(Front(s)) = Len(s) - 1
      /\ \A i \in 1 .. Len(s) - 1 : Front(s)[i] = s[i]
  BY <1>1 DEF Front
<1> QED
  BY <1>1, <1>2 DEF Last

-----------------------------------------------------------------------------
\* The table: each step keeps what is stored in order, and no variable of the
\* caller's.
LEMMA TickKeeps == StoredInv /\ Tick => StoredInv'
<1> SUFFICES ASSUME StoredInv, Tick PROVE StoredInv'
  OBVIOUS
<1>1. /\ clock' \in Instant /\ clock \in Instant /\ clock <= clock'
      /\ UNCHANGED <<setBack, entry, records, pending>>
  BY DatesAssumption DEF Tick, StoredInv, Instant
<1>2. EntryDatedWithRecords'
  BY <1>1 DEF StoredInv, EntryDatedWithRecords
<1>3. ClockAhead'
  <2> SUFFICES ASSUME ~setBack
               PROVE  entry.of <= clock' /\ \A i \in DOMAIN records : records[i].of <= clock'
    BY <1>1 DEF ClockAhead
  <2>1. entry.of \in Instant /\ entry.of <= clock
    BY DEF StoredInv, ClockAhead, Text
  <2>2. \A i \in DOMAIN records : records[i].of \in Instant /\ records[i].of <= clock
    <3>1. \A i \in DOMAIN records : records[i] \in Text
      BY DEF StoredInv
    <3>2. \A t \in Text : t.of \in Instant
      BY DEF Text
    <3> QED
      BY <3>1, <3>2 DEF StoredInv, ClockAhead
  <2>3. clock \in Int /\ clock' \in Int /\ clock <= clock'
    BY <1>1, DatesAssumption DEF Instant
  <2>4. \A t \in Instant : t \in Int
    BY DEF Instant
  <2>5. \A i \in DOMAIN records : records[i].of <= clock'
    BY <2>2, <2>3, <2>4
  <2> QED
    BY <2>1, <2>3, <2>4, <2>5
<1> QED
  BY <1>1, <1>2, <1>3 DEF StoredInv

LEMMA SetBackKeeps == StoredInv /\ SetBack => StoredInv'
<1> SUFFICES ASSUME StoredInv, SetBack PROVE StoredInv'
  OBVIOUS
<1>1. /\ clock' \in Instant /\ setBack' = TRUE
      /\ UNCHANGED <<entry, records, pending>>
  BY DatesAssumption DEF SetBack, StoredInv, Instant
<1> QED
  BY <1>1 DEF StoredInv, EntryDatedWithRecords, ClockAhead

LEMMA AddEntryKeeps == StoredInv /\ AddEntry => StoredInv'
<1> SUFFICES ASSUME StoredInv, AddEntry PROVE StoredInv'
  OBVIOUS
<1>1. /\ entry' \in Text /\ entry'.of = clock
      /\ records = <<>> /\ pending' = TRUE /\ UNCHANGED <<clock, setBack, records>>
  BY NowFacts DEF AddEntry, StoredInv
<1> QED
  BY <1>1 DEF StoredInv, EntryDatedWithRecords, ClockAhead, Instant

LEMMA UpdateEntryKeeps == StoredInv /\ UpdateEntry => StoredInv'
<1> SUFFICES ASSUME StoredInv, UpdateEntry PROVE StoredInv'
  OBVIOUS
<1>1. /\ entry' \in Text /\ entry'.of = clock
      /\ records # <<>> /\ pending' = TRUE /\ UNCHANGED <<clock, setBack, records>>
  BY NowFacts DEF UpdateEntry, StoredInv
<1>2. records \in Seq(Text) /\ Last(records) = records[Len(records)] /\ Len(records) \in DOMAIN records
  BY <1>1 DEF StoredInv, Last
<1>3. EntryDatedWithRecords'
  BY <1>1, <1>2 DEF StoredInv, EntryDatedWithRecords, ClockAhead
<1> QED
  BY <1>1, <1>3 DEF StoredInv, ClockAhead, Instant

LEMMA AddRecordKeeps == StoredInv /\ AddRecord => StoredInv'
<1> SUFFICES ASSUME StoredInv, AddRecord PROVE StoredInv'
  OBVIOUS
<1> DEFINE n == Len(records)
<1>1. /\ records' = Append(records, Now.shown)
      /\ Now.shown \in Text /\ Now.shown.of = clock
      /\ pending /\ pending' = FALSE /\ UNCHANGED <<clock, setBack, entry>>
  BY NowFacts DEF AddRecord, StoredInv
<1>2. /\ records \in Seq(Text) /\ records' \in Seq(Text)
      /\ n \in Nat /\ Len(records') = n + 1
      /\ \A i \in 1 .. n : records'[i] = records[i]
      /\ records'[n + 1] = Now.shown
  BY <1>1, Appended DEF StoredInv
<1>3. DOMAIN records = 1 .. n /\ DOMAIN records' = 1 .. n + 1 /\ 1 .. n + 1 = (1 .. n) \cup {n + 1}
  BY <1>2
<1> HIDE DEF n
<1>6. ClockAhead'
  BY <1>1, <1>2, <1>3 DEF StoredInv, ClockAhead, Instant
<1>7. ASSUME ~setBack PROVE \A i, j \in DOMAIN records' : i < j => records'[i].of <= records'[j].of
  <2> SUFFICES ASSUME NEW i \in DOMAIN records', NEW j \in DOMAIN records', i < j
               PROVE  records'[i].of <= records'[j].of
    OBVIOUS
  <2>1. i \in 1 .. n
    BY <1>2, <1>3
  <2>2. records'[i] = records[i] /\ records[i].of <= clock
    BY <1>2, <1>3, <1>7, <2>1 DEF StoredInv, ClockAhead
  <2>3. CASE j = n + 1
    BY <1>1, <1>2, <2>2, <2>3
  <2>4. CASE j \in 1 .. n
    <3>1. records'[j] = records[j]
      BY <1>2, <2>4
    <3> QED
      BY <1>3, <1>7, <2>1, <2>2, <2>4, <3>1 DEF StoredInv, EntryDatedWithRecords
  <2> QED
    BY <1>3, <2>3, <2>4
<1>8. Last(records') = Now.shown
  BY <1>2 DEF Last
<1>9. n > 0 => Last(Front(records')) = Last(records)
  <2> SUFFICES ASSUME n > 0 PROVE Last(Front(records')) = Last(records)
    OBVIOUS
  <2>1. Len(records') > 1 /\ Len(records') - 1 = n /\ n \in 1 .. n
    BY <1>2
  <2>2. Last(Front(records')) = records'[n]
    BY <1>2, <2>1, Shortened
  <2> QED
    BY <1>2, <2>1, <2>2 DEF Last, n
<1>10. n > 0 => records # <<>>
  BY DEF n
<1>11. EntryDatedWithRecords'
  <2> SUFFICES ASSUME ~setBack
               PROVE  /\ \A i, j \in DOMAIN records' : i < j => records'[i].of <= records'[j].of
                      /\ entry.of <= Last(records').of
                      /\ Len(records') > 1 => Last(Front(records')).of <= entry.of
    BY <1>1 DEF EntryDatedWithRecords
  <2>1. entry.of <= Last(records').of
    BY <1>1, <1>8 DEF StoredInv, ClockAhead
  <2>2. Len(records') > 1 => Last(Front(records')).of <= entry.of
    BY <1>1, <1>2, <1>9, <1>10 DEF StoredInv, EntryDatedWithRecords
  <2> QED
    BY <1>7, <2>1, <2>2
<1> QED
  BY <1>1, <1>2, <1>6, <1>11 DEF StoredInv

LEMMA UndoKeeps == StoredInv /\ Undo => StoredInv'
<1> SUFFICES ASSUME StoredInv, Undo PROVE StoredInv'
  OBVIOUS
<1> DEFINE n == Len(records)
<1>1. /\ ~pending /\ n > 1 /\ records' = Front(records)
      /\ UNCHANGED <<clock, setBack, pending>>
      /\ entry' = Last(Front(records))
  BY DEF Undo, Parsed
<1>2. /\ records \in Seq(Text) /\ records' \in Seq(Text) /\ n \in Nat
      /\ Len(records') = n - 1
      /\ \A i \in 1 .. n - 1 : records'[i] = records[i]
      /\ entry' = records[n - 1]
  BY <1>1, Shortened DEF StoredInv
<1>3. DOMAIN records = 1 .. n /\ DOMAIN records' = 1 .. n - 1
  BY <1>2
<1>4. n - 1 \in 1 .. n /\ n - 1 \in 1 .. n - 1
  BY <1>1, <1>2
<1> HIDE DEF n
<1>5. entry' \in Text
  BY <1>2, <1>3, <1>4 DEF StoredInv
<1>6. ClockAhead'
  BY <1>1, <1>2, <1>3, <1>4 DEF StoredInv, ClockAhead
<1>7. EntryDatedWithRecords'
  <2> SUFFICES ASSUME ~setBack
               PROVE  /\ \A i, j \in DOMAIN records' : i < j => records'[i].of <= records'[j].of
                      /\ entry'.of <= Last(records').of
                      /\ Len(records') > 1 => Last(Front(records')).of <= entry'.of
    BY <1>1 DEF EntryDatedWithRecords
  <2>1. \A i, j \in DOMAIN records : i < j => records[i].of <= records[j].of
    BY DEF StoredInv, EntryDatedWithRecords
  <2>2. \A i, j \in DOMAIN records' : i < j => records'[i].of <= records'[j].of
    BY <1>2, <1>3, <2>1
  <2>3. Last(records') = records[n - 1]
    BY <1>2, <1>4 DEF Last
  <2>4. records[n - 1].of \in Int
    BY <1>2, <1>5 DEF Text, Instant
  <2>5. ASSUME Len(records') > 1 PROVE Last(Front(records')).of <= entry'.of
    <3>1. Last(Front(records')) = records'[n - 2]
      BY <1>2, <2>5, Shortened
    <3>2. n - 2 \in 1 .. n - 1 /\ n - 2 \in 1 .. n /\ n - 2 < n - 1
      BY <1>2, <2>5
    <3> QED
      BY <1>2, <1>3, <1>4, <2>1, <3>1, <3>2
  <2> QED
    BY <1>2, <2>2, <2>3, <2>4, <2>5
<1> QED
  BY <1>1, <1>2, <1>5, <1>6, <1>7 DEF StoredInv

LEMMA RemoveEntryKeeps == StoredInv /\ RemoveEntry => StoredInv'
<1> SUFFICES ASSUME StoredInv, RemoveEntry PROVE StoredInv'
  OBVIOUS
<1>1. /\ records' = <<>> /\ UNCHANGED <<clock, setBack, entry, pending>>
  BY DEF RemoveEntry
<1> QED
  BY <1>1 DEF StoredInv, EntryDatedWithRecords, ClockAhead

-----------------------------------------------------------------------------
\* The caller: what comes of the clock, of another variable, of a sum and of
\* strings that name an instant can be held.
LEMMA ParsedFacts ==
  ASSUME NEW text \in Text
  PROVE  Parsed(text) \in DateTime
<1>1. Parsed(text) = [instant |-> text.of, shown |-> text]
  BY DEF Parsed, TimeFromString
<1>2. text.of \in Instant
  BY DEF Text
<1> QED
  BY <1>1, <1>2 DEF DateTime

LEMMA SumFacts ==
  ASSUME NEW d \in DateTime, NEW hours \in Hours, d.instant + hours \in Instant
  PROVE  Sum(d, hours) \in DateTime
<1>1. d.instant \in Instant
  BY DEF DateTime
<1>2. Sum(d, hours) = [instant |-> d.instant + hours,
                       shown |-> [of |-> d.instant, padded |-> FALSE]]
  BY DEF Sum, Strings
<1> QED
  BY <1>1, <1>2 DEF DateTime, Text

LEMMA HoldKeeps ==
  ASSUME DatesInv, NEW h \in Holder, NEW d, Hold(h, d), d \in DateTime
  PROVE  DatesInv'
<1>1. StoredInv /\ HeldInv
  BY InvParts
<1>2. /\ held' = [held EXCEPT ![h] = d]
      /\ UNCHANGED <<clock, setBack, entry, records, pending>>
  BY DEF Hold
<1>3. StoredInv'
  BY <1>1, <1>2 DEF StoredInv, EntryDatedWithRecords, ClockAhead
<1>4. HeldInv'
  BY <1>1, <1>2 DEF HeldInv
<1> QED
  BY <1>3, <1>4, InvParts, PTL

-----------------------------------------------------------------------------
LEMMA DatesInit == Init => DatesInv
<1> SUFFICES ASSUME Init PROVE DatesInv
  OBVIOUS
<1>1. /\ clock \in Instant /\ setBack = FALSE /\ pending = FALSE /\ records = <<>>
      /\ entry = Now.shown /\ held = [h \in Holder |-> Now]
  BY DEF Init
<1>2. /\ Now.shown \in Text /\ Now.shown.of = clock /\ Now \in DateTime
  BY <1>1, NowFacts
<1>3. clock <= clock
  BY <1>1 DEF Instant
<1>4. DOMAIN records = {} /\ records \in Seq(Text)
  BY <1>1
<1>5. EntryDatedWithRecords
  BY <1>1, <1>4 DEF EntryDatedWithRecords
<1>6. ClockAhead
  BY <1>1, <1>2, <1>3, <1>4 DEF ClockAhead
<1>7. StoredInv
  BY <1>1, <1>2, <1>4, <1>5, <1>6 DEF StoredInv
<1>8. HeldInv
  BY <1>1, <1>2 DEF HeldInv
<1> QED
  BY <1>7, <1>8, InvParts

\* What happens to the table leaves the caller's variables alone.
LEMMA TableStepKeeps ==
  ASSUME DatesInv, Tick \/ SetBack \/ AddEntry \/ UpdateEntry \/ AddRecord \/ Undo \/ RemoveEntry
  PROVE  DatesInv'
<1>1. StoredInv /\ HeldInv
  BY InvParts
<1>2. StoredInv'
  BY <1>1, TickKeeps, SetBackKeeps, AddEntryKeeps, UpdateEntryKeeps, AddRecordKeeps,
     UndoKeeps, RemoveEntryKeeps
<1>3. UNCHANGED held
  BY DEF Tick, SetBack, AddEntry, UpdateEntry, AddRecord, Undo, RemoveEntry
<1>4. HeldInv'
  BY <1>1, <1>3 DEF HeldInv
<1> QED
  BY <1>2, <1>4, InvParts, PTL

\* What a caller does, one step per operation.
LEMMA CallerStepKeeps ==
  ASSUME DatesInv, NEW h \in Holder,
         \/ TakeNow(h) \/ ReadEntry(h)
         \/ \E text \in ToSet(records) : ReadRecord(h, text)
         \/ \E text \in Text : Construct(h, text)
         \/ \E from \in Holder :
              \/ Assign(h, from) \/ Reconstruct(h, from)
              \/ \E hours \in Hours : AddHours(h, from, hours)
  PROVE  DatesInv'
<1>0. StoredInv /\ HeldInv
  BY InvParts
<1>1. ASSUME TakeNow(h) PROVE DatesInv'
  <2>1. Now \in DateTime
    BY <1>0, NowFacts DEF StoredInv
  <2> QED
    BY <1>1, <2>1, HoldKeeps DEF TakeNow
<1>2. ASSUME ReadEntry(h) PROVE DatesInv'
  <2>1. Parsed(entry) \in DateTime /\ Hold(h, Parsed(entry))
    BY <1>0, <1>2, ParsedFacts DEF StoredInv, ReadEntry
  <2> QED
    BY <2>1, HoldKeeps
<1>3. ASSUME NEW text \in Text, Readable(text), Hold(h, Parsed(text)) PROVE DatesInv'
  <2>1. Parsed(text) \in DateTime
    BY ParsedFacts
  <2> QED
    BY <1>3, <2>1, HoldKeeps
<1>4. ASSUME NEW text \in ToSet(records), ReadRecord(h, text) PROVE DatesInv'
  <2>1. text \in Text
    BY <1>0 DEF StoredInv, ToSet
  <2> QED
    BY <1>3, <1>4, <2>1 DEF ReadRecord
<1>5. ASSUME NEW text \in Text, Construct(h, text) PROVE DatesInv'
  BY <1>3, <1>5 DEF Construct
<1>6. ASSUME NEW from \in Holder, Assign(h, from) PROVE DatesInv'
  <2>1. held[from] \in DateTime
    BY <1>0 DEF HeldInv
  <2> QED
    BY <1>6, <2>1, HoldKeeps DEF Assign
<1>7. ASSUME NEW from \in Holder, Reconstruct(h, from) PROVE DatesInv'
  <2>1. held[from].shown \in Text
    BY <1>0 DEF HeldInv, DateTime
  <2> QED
    BY <1>3, <1>7, <2>1 DEF Reconstruct
<1>8. ASSUME NEW from \in Holder, NEW hours \in Hours, AddHours(h, from, hours)
      PROVE  DatesInv'
  <2> DEFINE d == held[from]
  <2>1. d \in DateTime
    BY <1>0 DEF HeldInv
  <2>2. Hold(h, Sum(d, hours)) /\ Sum(d, hours).instant = d.instant + hours
    BY <1>8 DEF AddHours, Sum
  <2> HIDE DEF d
  <2>3. d.instant + hours \in Instant
    BY <2>2 DEF Hold
  <2> QED
    BY <2>1, <2>2, <2>3, SumFacts, HoldKeeps
<1> QED
  BY <1>1, <1>2, <1>4, <1>5, <1>6, <1>7, <1>8

LEMMA DatesStep == DatesInv /\ [Next]_vars => DatesInv'
<1> SUFFICES ASSUME DatesInv, [Next]_vars PROVE DatesInv'
  OBVIOUS
<1>1. ASSUME UNCHANGED vars PROVE DatesInv'
  <2>1. UNCHANGED <<clock, setBack, entry, records, pending, held>>
    BY <1>1 DEF vars
  <2> QED
    BY <2>1 DEF DatesInv, TypeOK, EntryDatedWithRecords, ClockAhead
<1>2. ASSUME NEW text \in Text, ConstructThrows(text) PROVE DatesInv'
  BY <1>1, <1>2 DEF ConstructThrows
<1> QED
  BY <1>1, <1>2, TableStepKeeps, CallerStepKeeps DEF Next

LEMMA DatesInvariance == Spec => []DatesInv
BY DatesInit, DatesStep, PTL DEF Spec

-----------------------------------------------------------------------------
\* The clock, the table's strings and the caller's DateTimes keep their types.
THEOREM DatesAreTyped == Spec => []TypeOK
<1>1. DatesInv => TypeOK
  BY DEF DatesInv
<1> QED
  BY <1>1, DatesInvariance, PTL

\* Through additions, updates and undos in any order, and with the clock
\* running on between the two parts of each, the records of an entry are in
\* the order of time and the entry is dated between the last two of them, as
\* long as the clock is not set back.
THEOREM EntryStaysDated == Spec => []EntryDatedWithRecords
<1>1. DatesInv => EntryDatedWithRecords
  BY DEF DatesInv
<1> QED
  BY <1>1, DatesInvariance, PTL
=============================================================================
