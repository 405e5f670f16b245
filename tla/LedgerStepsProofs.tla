-------------------------- MODULE LedgerStepsProofs --------------------------
(***************************************************************************)
(* That the statements of a call, executed one by one, together do what    *)
(* Ledger says of the call as a whole.                                     *)
(***************************************************************************)
EXTENDS LedgerSteps, LedgerProofs, SequenceTheorems

\* The next statement of the running call.
Work ==
  \/ InsertEntry \/ InsertEntryId \/ CreateRecords \/ InsertRecord \/ NameRecord
  \/ UpdateRow
  \/ DeleteEntry \/ DeleteRecords \/ DropRecords \/ DeleteEntryId
  \/ DeleteRecord \/ DeleteNoRecord \/ UnnameRecord \/ RollBackRow

LEMMA WhichStatement ==
  ASSUME Work
  PROVE  /\ todo # <<>>
         /\ Head(todo).do = "InsertEntry" => InsertEntry
         /\ Head(todo).do = "InsertEntryId" => InsertEntryId
         /\ Head(todo).do = "CreateRecords" => CreateRecords
         /\ Head(todo).do = "InsertRecord" => InsertRecord
         /\ Head(todo).do = "NameRecord" => NameRecord
         /\ Head(todo).do = "UpdateRow" => UpdateRow
         /\ Head(todo).do = "DeleteEntry" => DeleteEntry
         /\ Head(todo).do = "DeleteRecords" => DeleteRecords
         /\ Head(todo).do = "DropRecords" => DropRecords
         /\ Head(todo).do = "DeleteEntryId" => DeleteEntryId
         /\ Head(todo).do = "DeleteRecord" => DeleteRecord \/ DeleteNoRecord
         /\ Head(todo).do = "UnnameRecord" => UnnameRecord
         /\ Head(todo).do = "RollBack" => RollBackRow
BY DEF Work, Running, Idle, InsertEntry, InsertEntryId, CreateRecords, InsertRecord,
  NameRecord, UpdateRow, DeleteEntry, DeleteRecords, DropRecords, DeleteEntryId,
  DeleteRecord, DeleteNoRecord, UnnameRecord, RollBackRow

-----------------------------------------------------------------------------
\* update, begun on the books b, is about to execute the statement s, and the
\* statements before it have made now of b.
Entered(b, id, record) == [b EXCEPT !.cycle.rows[id] = UpdatedEntry(@, record)]

Logged(b, record) ==
  [b EXCEPT !.daily = AddRow(@, record),
            !.damage = @ \cup Collision(b.daily, "daily")]

UpdateAt(b, id, record, s, now) ==
  LET entered == Entered(b, id, record)
  IN  \/ s = Put("UpdateRow", id, record) /\ now = b
      \/ /\ CanUpdate(b, id, record.desc)
         /\ \/ s = Put("InsertRecord", id, record) /\ now = entered
            \/ s = Named("NameRecord", id, entered.daily.nextId)
                 /\ now = Logged(entered, record)

LEMMA EnteredFacts ==
  ASSUME NEW b, IsBooks(b), NEW id, NEW record \in Record, CanUpdate(b, id, record.desc)
  PROVE  /\ Keeps(b, Entered(b, id, record))
         /\ Entered(b, id, record).entryIds = b.entryIds
         /\ Entered(b, id, record).recs = b.recs
         /\ DOMAIN Entered(b, id, record).cycle.rows = DOMAIN b.cycle.rows
         /\ Updated(b, id, record) = Recorded(Entered(b, id, record), id, record)
<1> DEFINE entry == UpdatedEntry(b.cycle.rows[id], record)
<1>1. id \in DOMAIN b.cycle.rows /\ b.cycle.rows[id] \in Entry
  BY DEF CanUpdate, IsBooks, IsTable, IsRows
<1>2. entry \in Entry
  BY <1>1, UpdatedEntryType
<1>3. Entered(b, id, record) = [b EXCEPT !.cycle.rows[id] = entry]
  BY DEF Entered
<1>4. Updated(b, id, record) = Recorded(Entered(b, id, record), id, record)
  BY DEF Updated, Entered
<1> HIDE DEF entry
<1>5. Keeps(b, Entered(b, id, record))
  BY <1>1, <1>2, <1>3, RewriteFacts
<1>6. /\ DOMAIN b = {"cycle", "daily", "entryIds", "recs", "cached", "damage"}
      /\ Entered(b, id, record) = [b EXCEPT !.cycle = [b.cycle EXCEPT !.rows[id] = entry]]
  BY <1>3 DEF IsBooks
<1>7. /\ Entered(b, id, record).entryIds = b.entryIds
      /\ Entered(b, id, record).recs = b.recs
  BY <1>6
<1>8. DOMAIN Entered(b, id, record).cycle.rows = DOMAIN b.cycle.rows
  BY <1>6 DEF IsBooks, IsTable
<1> QED
  BY <1>4, <1>5, <1>7, <1>8

LEMMA LoggedFacts ==
  ASSUME NEW b, NEW record,
         b = [cycle |-> b.cycle, daily |-> b.daily, entryIds |-> b.entryIds,
              recs |-> b.recs, cached |-> b.cached, damage |-> b.damage]
  PROVE  /\ Logged(b, record) =
              [cycle |-> b.cycle, daily |-> AddRow(b.daily, record),
               entryIds |-> b.entryIds, recs |-> b.recs, cached |-> b.cached,
               damage |-> b.damage \cup Collision(b.daily, "daily")]
         /\ \A id : Recorded(b, id, record) =
              IF id \in b.entryIds \cap DOMAIN b.recs
                THEN [Logged(b, record) EXCEPT !.recs[id] = @ \cup {b.daily.nextId}]
                ELSE Logged(b, record)
<1>1. Logged(b, record) =
        [cycle |-> b.cycle, daily |-> AddRow(b.daily, record),
         entryIds |-> b.entryIds, recs |-> b.recs, cached |-> b.cached,
         damage |-> b.damage \cup Collision(b.daily, "daily")]
  <2> DEFINE added == [b EXCEPT !.daily = AddRow(b.daily, record)]
  <2>2. Logged(b, record) =
          [added EXCEPT !.damage = b.damage \cup Collision(b.daily, "daily")]
    BY Zenon DEF Logged
  <2>1. added = [cycle |-> b.cycle, daily |-> AddRow(b.daily, record),
                 entryIds |-> b.entryIds, recs |-> b.recs, cached |-> b.cached,
                 damage |-> b.damage]
    OBVIOUS
  <2> HIDE DEF added
  <2> QED
    BY <2>1, <2>2
<1>2. ASSUME NEW id
      PROVE  Recorded(b, id, record) =
               IF id \in b.entryIds \cap DOMAIN b.recs
                 THEN [Logged(b, record) EXCEPT !.recs[id] = @ \cup {b.daily.nextId}]
                 ELSE Logged(b, record)
  BY Zenon DEF Logged, Recorded
<1> QED
  BY <1>1, <1>2

LEMMA UpdateGoesOn ==
  ASSUME NEW b, IsBooks(b), NEW id, NEW record \in Record, NEW s,
         UpdateAt(b, id, record, s, books), Head(todo) = s, Work
  PROVE  \/ \E t : UpdateAt(b, id, record, t, books') /\ Proceed(<<t>>)
         \/ /\ UpdateReturns(b, id, record.desc)
            /\ books' = Updated(b, id, record) /\ Proceed(<<>>)
         \/ /\ ~UpdateReturns(b, id, record.desc)
            /\ books' = Updated(b, id, record) /\ Throw
<1> DEFINE entered == Entered(b, id, record)
<1>1. CASE s = Put("UpdateRow", id, record) /\ books = b
  <2>1. UpdateRow /\ s.id = id /\ s.record = record
    BY <1>1, WhichStatement DEF Put
  <2>2. CASE CanUpdate(b, id, record.desc)
    <3>1. books' = entered /\ Proceed(<<Put("InsertRecord", id, record)>>)
      BY <1>1, <2>1, <2>2 DEF UpdateRow, Entered
    <3> QED
      BY <2>2, <3>1 DEF UpdateAt
  <2>3. CASE ~CanUpdate(b, id, record.desc)
    <3>1. books' = b /\ Throw
      BY <1>1, <2>1, <2>3 DEF UpdateRow
    <3> QED
      BY <2>3, <3>1 DEF Updated, UpdateReturns
  <2> QED
    BY <2>2, <2>3
<1>2. CASE /\ CanUpdate(b, id, record.desc)
           /\ s = Put("InsertRecord", id, record) /\ books = entered
  <2>1. InsertRecord /\ s.id = id /\ s.record = record
    BY <1>2, WhichStatement DEF Put
  <2>2. /\ books' = Logged(entered, record)
        /\ Proceed(<<Named("NameRecord", id, entered.daily.nextId)>>)
    BY <1>2, <2>1 DEF InsertRecord, Logged
  <2> QED
    BY <1>2, <2>2 DEF UpdateAt
<1>3. CASE /\ CanUpdate(b, id, record.desc)
           /\ s = Named("NameRecord", id, entered.daily.nextId)
           /\ books = Logged(entered, record)
  <2>1. NameRecord /\ s.id = id /\ s.r = entered.daily.nextId
    BY <1>3, WhichStatement DEF Named
  <2>2. /\ IsBooks(entered) /\ entered.entryIds = b.entryIds /\ entered.recs = b.recs
        /\ Updated(b, id, record) = Recorded(entered, id, record)
    BY <1>3, EnteredFacts DEF Keeps
  <2> HIDE DEF entered
  <2>6. entered = [cycle |-> entered.cycle, daily |-> entered.daily,
                   entryIds |-> entered.entryIds, recs |-> entered.recs,
                   cached |-> entered.cached, damage |-> entered.damage]
    BY <2>2 DEF IsBooks
  <2>3. books.entryIds = b.entryIds /\ books.recs = b.recs
    BY <1>3, <2>2, <2>6, LoggedFacts
  <2>4. CASE id \in b.entryIds \cap DOMAIN b.recs
    <3>1. books' = [books EXCEPT !.recs[id] = @ \cup {entered.daily.nextId}] /\ Proceed(<<>>)
      BY <2>1, <2>3, <2>4 DEF NameRecord
    <3>2. Recorded(entered, id, record) = [books EXCEPT !.recs[id] = @ \cup {entered.daily.nextId}]
      BY <1>3, <2>2, <2>4, <2>6, LoggedFacts
    <3> QED
      BY <1>3, <2>2, <2>4, <3>1, <3>2 DEF UpdateReturns
  <2>5. CASE id \notin b.entryIds \cap DOMAIN b.recs
    <3>1. books' = books /\ Throw
      BY <2>1, <2>3, <2>5 DEF NameRecord
    <3>2. Recorded(entered, id, record) = books
      BY <1>3, <2>2, <2>5, <2>6, LoggedFacts
    <3> QED
      BY <2>2, <2>5, <3>1, <3>2 DEF UpdateReturns
  <2> QED
    BY <2>4, <2>5
<1> QED
  BY <1>1, <1>2, <1>3 DEF UpdateAt

-----------------------------------------------------------------------------
\* Queues of at most three statements.
LEMMA OneAndOne == ASSUME NEW x, NEW z PROVE <<x>> \o <<z>> = <<x, z>>
<1> DEFINE S == {x, z}
<1> DEFINE s == <<x>> \o <<z>>
<1> DEFINE t == <<x, z>>
<1>1. <<x>> \in Seq(S) /\ <<z>> \in Seq(S) /\ t \in Seq(S)
  OBVIOUS
<1>2. s \in Seq(S) /\ Len(s) = 2 /\ Len(t) = 2
  BY <1>1
<1>3. s[1] = x /\ s[2] = z /\ t[1] = x /\ t[2] = z
  BY <1>1
<1> HIDE DEF S, s, t
<1>4. \A i \in 1 .. Len(s) : s[i] = t[i]
  <2>1. \A i \in 1 .. 2 : i = 1 \/ i = 2
    OBVIOUS
  <2> QED
    BY <1>2, <1>3, <2>1
<1>5. s = t
  BY <1>1, <1>2, <1>4, SeqEqual
<1> QED
  BY <1>5 DEF s, t

LEMMA TwoAndOne == ASSUME NEW x, NEW y, NEW z PROVE <<x, y>> \o <<z>> = <<x, y, z>>
<1> DEFINE S == {x, y, z}
<1> DEFINE s == <<x, y>> \o <<z>>
<1> DEFINE t == <<x, y, z>>
<1>1. <<x, y>> \in Seq(S) /\ <<z>> \in Seq(S) /\ t \in Seq(S)
  OBVIOUS
<1>2. s \in Seq(S) /\ Len(s) = 3 /\ Len(t) = 3
  BY <1>1
<1>3. s[1] = x /\ s[2] = y /\ s[3] = z /\ t[1] = x /\ t[2] = y /\ t[3] = z
  BY <1>1
<1> HIDE DEF S, s, t
<1>4. \A i \in 1 .. Len(s) : s[i] = t[i]
  <2>1. \A i \in 1 .. 3 : i = 1 \/ i = 2 \/ i = 3
    OBVIOUS
  <2> QED
    BY <1>2, <1>3, <2>1
<1>5. s = t
  BY <1>1, <1>2, <1>4, SeqEqual
<1> QED
  BY <1>5 DEF s, t

\* What waits while a part of a call is executed: nothing, or the other part.
AtMostOne(rest) == rest = <<>> \/ \E z : rest = <<z>>

LEMMA Queue ==
  ASSUME NEW rest, AtMostOne(rest), NEW x, NEW y
  PROVE  /\ <<>> \o rest = rest /\ <<>> \o (<<x>> \o rest) = <<x>> \o rest
         /\ <<x>> \o rest # <<>> /\ <<x, y>> \o rest # <<>>
         /\ Head(<<x>> \o rest) = x /\ Head(<<x, y>> \o rest) = x
         /\ Tail(<<x>> \o rest) = rest /\ Tail(<<x, y>> \o rest) = <<y>> \o rest
<1>1. CASE rest = <<>>
  BY <1>1
<1>2. ASSUME NEW z, rest = <<z>>
      PROVE  /\ <<>> \o rest = rest /\ <<>> \o (<<x>> \o rest) = <<x>> \o rest
             /\ <<x>> \o rest # <<>> /\ <<x, y>> \o rest # <<>>
             /\ Head(<<x>> \o rest) = x /\ Head(<<x, y>> \o rest) = x
             /\ Tail(<<x>> \o rest) = rest /\ Tail(<<x, y>> \o rest) = <<y>> \o rest
  <2>1. /\ <<x>> \o <<z>> = <<x, z>> /\ <<x, y>> \o <<z>> = <<x, y, z>>
        /\ <<y>> \o <<z>> = <<y, z>>
    BY OneAndOne, TwoAndOne
  <2>2. <<>> \o <<z>> = <<z>> /\ <<>> \o <<x, z>> = <<x, z>>
    OBVIOUS
  <2>3. /\ Head(<<x, z>>) = x /\ Tail(<<x, z>>) = <<z>> /\ <<x, z>> # <<>>
        /\ Head(<<x, y, z>>) = x /\ Tail(<<x, y, z>>) = <<y, z>> /\ <<x, y, z>> # <<>>
    OBVIOUS
  <2> QED
    BY <1>2, <2>1, <2>2, <2>3
<1> QED
  BY <1>1, <1>2 DEF AtMostOne

-----------------------------------------------------------------------------
\* undo, begun on the books b, has the statements t left, of which rest are not
\* its own.
Deleted(b, id) == [b EXCEPT !.daily = DeleteRow(@, LastRecord(b, id))]

Erased(b, id) ==
  [cycle |-> b.cycle,
   daily |-> DeleteRow(b.daily, LastRecord(b, id)),
   entryIds |-> b.entryIds,
   recs |-> [b.recs EXCEPT ![id] = @ \ {LastRecord(b, id)}],
   cached |-> b.cached,
   damage |-> b.damage]

UndoAt(b, id, t, rest, now) ==
  LET last == LastRecord(b, id)
      unname == Named("UnnameRecord", id, last)
      rollBack == RollBack(id, b.daily.rows[last].value, PreviousRecord(b, id))
  IN  \/ t = <<Do("DeleteRecord", id)>> \o rest /\ now = b
      \/ /\ CanUndo(b, id)
         /\ \/ t = <<unname, rollBack>> \o rest /\ now = Deleted(b, id)
            \/ t = <<rollBack>> \o rest /\ now = Erased(b, id)

LEMMA ErasedFacts ==
  ASSUME NEW b, IsBooks(b), Stored(b), NEW id, CanUndo(b, id)
  PROVE  /\ Deleted(b, id) =
              [cycle |-> b.cycle, daily |-> DeleteRow(b.daily, LastRecord(b, id)),
               entryIds |-> b.entryIds, recs |-> b.recs, cached |-> b.cached,
               damage |-> b.damage]
         /\ Erased(b, id).cycle = b.cycle
         /\ PreviousRecord(b, id) \in DOMAIN Erased(b, id).daily.rows
         /\ PreviousRecord(b, id) \in DOMAIN b.daily.rows
         /\ Erased(b, id).daily.rows[PreviousRecord(b, id)]
              = b.daily.rows[PreviousRecord(b, id)]
<1> DEFINE last == LastRecord(b, id)
<1> DEFINE previous == PreviousRecord(b, id)
<1>1. b = [cycle |-> b.cycle, daily |-> b.daily, entryIds |-> b.entryIds,
           recs |-> b.recs, cached |-> b.cached, damage |-> b.damage]
  BY DEF IsBooks
<1>2. Deleted(b, id) =
        [cycle |-> b.cycle, daily |-> DeleteRow(b.daily, last),
         entryIds |-> b.entryIds, recs |-> b.recs, cached |-> b.cached,
         damage |-> b.damage]
  BY <1>1 DEF Deleted
<1>3. Erased(b, id).cycle = b.cycle /\ Erased(b, id).daily = DeleteRow(b.daily, last)
  BY DEF Erased
<1>4. previous \in DOMAIN b.daily.rows /\ previous # last
  BY PreviousFacts DEF Stored
<1> HIDE DEF last, previous
<1>5. DeleteRow(b.daily, last).rows = WithoutRows(b.daily.rows, {last})
  BY DEF DeleteRow, AfterDelete
<1>6. /\ previous \in DOMAIN DeleteRow(b.daily, last).rows
      /\ DeleteRow(b.daily, last).rows[previous] = b.daily.rows[previous]
  BY <1>4, <1>5 DEF WithoutRows, Restrict
<1> QED
  BY <1>2, <1>3, <1>4, <1>6 DEF last, previous

\* The end of one part of a call: the other part begins, or the call returns.
Done == IF todo' = <<>> THEN Return(TRUE) ELSE UNCHANGED <<reply, call, before>>

LEMMA UndoGoesOn ==
  ASSUME NEW b, IsBooks(b), Stored(b), NEW id, NEW rest, AtMostOne(rest),
         UndoAt(b, id, todo, rest, books), Work
  PROVE  /\ UNCHANGED <<policy, cut>>
         /\ \/ /\ UndoAt(b, id, todo', rest, books') /\ todo' # <<>>
               /\ UNCHANGED <<reply, call, before>>
            \/ /\ UndoReturns(b, id) /\ books' = Undone(b, id)
               /\ todo' = rest /\ Done
            \/ /\ ~UndoReturns(b, id) /\ books' = Undone(b, id)
               /\ todo' = <<>> /\ Return(FALSE)
<1> DEFINE last == LastRecord(b, id)
<1> DEFINE previous == PreviousRecord(b, id)
<1> DEFINE value == b.daily.rows[last].value
<1> DEFINE unname == Named("UnnameRecord", id, last)
<1> DEFINE rollBack == RollBack(id, value, previous)
<1>1. CASE todo = <<Do("DeleteRecord", id)>> \o rest /\ books = b
  <2>1. Head(todo) = Do("DeleteRecord", id) /\ Tail(todo) = rest
    BY <1>1, Queue
  <2>2. (DeleteRecord \/ DeleteNoRecord) /\ Head(todo).id = id
    BY <2>1, WhichStatement DEF Do
  <2>3. CASE CanUndo(b, id)
    <3>1. DeleteRecord
      BY <1>1, <2>2, <2>3 DEF DeleteNoRecord
    <3>2. books' = Deleted(b, id) /\ Proceed(<<unname, rollBack>>)
      BY <1>1, <2>2, <3>1 DEF DeleteRecord, Deleted
    <3>3. todo' = <<unname, rollBack>> \o rest /\ todo' # <<>>
      <4> HIDE DEF unname, rollBack
      <4>1. todo' = <<unname, rollBack>> \o rest
        BY <2>1, <3>2 DEF Proceed
      <4> QED
        BY <4>1, Queue
    <3> QED
      BY <2>3, <3>2, <3>3 DEF UndoAt, Proceed
  <2>4. CASE ~CanUndo(b, id)
    <3>1. DeleteNoRecord
      BY <1>1, <2>2, <2>4 DEF DeleteRecord
    <3>2. books' = b /\ IF UndoReturns(b, id) THEN Proceed(<<>>) ELSE Throw
      BY <1>1, <2>2, <3>1 DEF DeleteNoRecord
    <3>3. Undone(b, id) = b
      BY <2>4 DEF Undone
    <3> QED
      BY <2>1, <3>2, <3>3, Queue DEF Proceed, Throw, Done
  <2> QED
    BY <2>3, <2>4
<1>2. CASE /\ CanUndo(b, id)
           /\ todo = <<unname, rollBack>> \o rest /\ books = Deleted(b, id)
  <2>1. Head(todo) = unname /\ Tail(todo) = <<rollBack>> \o rest
    BY <1>2, Queue
  <2>2. UnnameRecord /\ Head(todo).id = id /\ Head(todo).r = last
    BY <2>1, WhichStatement DEF Named
  <2>3. books' = [books EXCEPT !.recs[id] = @ \ {last}] /\ Proceed(<<>>)
    BY <2>2 DEF UnnameRecord
  <2>4. books' = Erased(b, id)
    <3>1. books = [cycle |-> b.cycle, daily |-> DeleteRow(b.daily, last),
                   entryIds |-> b.entryIds, recs |-> b.recs, cached |-> b.cached,
                   damage |-> b.damage]
      BY <1>2, ErasedFacts
    <3> HIDE DEF last
    <3>2. books' = [books EXCEPT !.recs = [books.recs EXCEPT ![id] = @ \ {last}]]
      BY <2>3
    <3> DEFINE recs == [b.recs EXCEPT ![id] = @ \ {last}]
    <3>3. books' = [books EXCEPT !.recs = recs]
      BY <3>1, <3>2
    <3> HIDE DEF recs
    <3> QED
      BY <3>1, <3>3 DEF Erased, recs, last
  <2>5. todo' = <<rollBack>> \o rest /\ todo' # <<>>
    <3> HIDE DEF rollBack
    <3>1. todo' = <<>> \o (<<rollBack>> \o rest)
      BY <2>1, <2>3 DEF Proceed
    <3> QED
      BY <3>1, Queue
  <2> QED
    BY <1>2, <2>3, <2>4, <2>5 DEF UndoAt, Proceed
<1>3. CASE CanUndo(b, id) /\ todo = <<rollBack>> \o rest /\ books = Erased(b, id)
  <2>1. Head(todo) = rollBack /\ Tail(todo) = rest
    BY <1>3, Queue
  <2>2. /\ RollBackRow /\ Head(todo).id = id /\ Head(todo).r = previous
        /\ Head(todo).value = value
    BY <2>1, WhichStatement DEF RollBack
  <2>3. /\ books.cycle = b.cycle
        /\ previous \in DOMAIN books.daily.rows /\ previous \in DOMAIN b.daily.rows
        /\ books.daily.rows[previous] = b.daily.rows[previous]
    BY <1>3, ErasedFacts
  <2>4. CanUpdate(books, id, books.daily.rows[previous].desc) <=> Restorable(b, id)
    BY <2>3 DEF CanUpdate, Restorable
  <2>5. UndoReturns(b, id) <=> Restorable(b, id)
    BY <1>3 DEF UndoReturns, CanUndo, Restorable, CanUpdate
  <2>6. CASE Restorable(b, id)
    <3>1. /\ books' = [books EXCEPT !.cycle.rows[id] =
                        RolledBack(@, value, b.daily.rows[previous])]
          /\ Proceed(<<>>)
      BY <2>2, <2>3, <2>4, <2>6 DEF RollBackRow
    <3>2. Undone(b, id) = [Erased(b, id) EXCEPT !.cycle.rows[id] =
                             RolledBack(@, value, b.daily.rows[previous])]
      BY <1>3, <2>6, Zenon DEF Undone, Erased
    <3> QED
      BY <1>3, <2>1, <2>5, <2>6, <3>1, <3>2, Queue DEF Proceed, Done
  <2>7. CASE ~Restorable(b, id)
    <3>1. books' = [books EXCEPT !.damage = @ \cup {"undo"}] /\ Throw
      BY <2>2, <2>3, <2>4, <2>7 DEF RollBackRow
    <3>2. Undone(b, id) = [Erased(b, id) EXCEPT !.damage = @ \cup {"undo"}]
      BY <1>3, <2>7, Zenon DEF Undone, Erased
    <3> QED
      BY <1>3, <2>5, <2>7, <3>1, <3>2 DEF Throw
  <2> QED
    BY <2>6, <2>7
<1> QED
  BY <1>1, <1>2, <1>3 DEF UndoAt

-----------------------------------------------------------------------------
\* Longer queues, from which statements are only taken.
LEMMA LongQueue ==
  ASSUME NEW x, NEW y, NEW z
  PROVE  /\ <<x, y, z>> \o <<>> = <<x, y, z>>
         /\ Head(<<x, y, z>>) = x /\ Tail(<<x, y, z>>) = <<y, z>>
         /\ Head(<<x, y>>) = x /\ Tail(<<x, y>>) = <<y>>
         /\ Head(<<x>>) = x /\ Tail(<<x>>) = <<>>
         /\ <<>> \o <<x, y>> = <<x, y>> /\ <<>> \o <<x>> = <<x>> /\ <<>> \o <<>> = <<>>
         /\ <<x>> \o <<>> = <<x>>
         /\ <<x, y, z>> # <<>> /\ <<x, y>> # <<>> /\ <<x>> # <<>>
OBVIOUS

\* add, begun on the books b, has the statements t left.
NewEntry(desc, balance) ==
  [balance |-> balance, last |-> 0, desc |-> desc, status |-> "UNKNOWN"]

\* b with the new entry, under these lists.
Listing(b, desc, balance, entryIds, recs) ==
  [cycle |-> AddRow(b.cycle, NewEntry(desc, balance)), daily |-> b.daily,
   entryIds |-> entryIds, recs |-> recs, cached |-> b.cached \cup {b.cycle.nextId},
   damage |-> b.damage \cup Collision(b.cycle, "cycle")]

Listed(b, desc, balance) ==
  Listing(b, desc, balance, b.entryIds \cup {b.cycle.nextId},
          WithTable(b.recs, b.cycle.nextId))

AddAt(b, desc, balance, t, now) ==
  LET id == b.cycle.nextId
      record == NewRecord(balance, desc, "NEW_ENTRY")
      list == Do("InsertEntryId", id)
      create == Do("CreateRecords", id)
      insert == Put("InsertRecord", id, record)
  IN  \/ t = <<Put("InsertEntry", id, record)>> /\ now = b
      \/ t = <<list, create, insert>> /\ now = Listing(b, desc, balance, b.entryIds, b.recs)
      \/ /\ t = <<create, insert>>
         /\ now = Listing(b, desc, balance, b.entryIds \cup {id}, b.recs)
      \/ t = <<insert>> /\ now = Listed(b, desc, balance)
      \/ /\ t = <<Named("NameRecord", id, b.daily.nextId)>>
         /\ now = Logged(Listed(b, desc, balance), record)

LEMMA AddGoesOn ==
  ASSUME NEW b, IsBooks(b), NEW desc, NEW balance,
         AddAt(b, desc, balance, todo, books), Work
  PROVE  /\ UNCHANGED <<policy, cut>>
         /\ \/ /\ AddAt(b, desc, balance, todo', books') /\ todo' # <<>>
               /\ UNCHANGED <<reply, call, before>>
            \/ books' = Added(b, desc, balance) /\ todo' = <<>> /\ Return(TRUE)
<1> DEFINE id == b.cycle.nextId
<1> DEFINE record == NewRecord(balance, desc, "NEW_ENTRY")
<1> DEFINE list == Do("InsertEntryId", id)
<1> DEFINE create == Do("CreateRecords", id)
<1> DEFINE insert == Put("InsertRecord", id, record)
<1> DEFINE name == Named("NameRecord", id, b.daily.nextId)
<1> DEFINE listed == Listed(b, desc, balance)
<1>0. b = [cycle |-> b.cycle, daily |-> b.daily, entryIds |-> b.entryIds,
           recs |-> b.recs, cached |-> b.cached, damage |-> b.damage]
  BY DEF IsBooks
<1>1. CASE todo = <<Put("InsertEntry", id, record)>> /\ books = b
  <2>1. Head(todo) = Put("InsertEntry", id, record) /\ Tail(todo) = <<>>
    BY <1>1, LongQueue
  <2>2. /\ InsertEntry /\ Head(todo).id = id /\ Head(todo).record = record
        /\ record.value = balance /\ record.desc = desc
    BY <2>1, WhichStatement DEF Put, NewRecord
  <2>3. /\ books' = [books EXCEPT !.cycle = AddRow(@, NewEntry(desc, balance)),
                                  !.cached = @ \cup {id},
                                  !.damage = @ \cup Collision(books.cycle, "cycle")]
        /\ Proceed(<<list, create, insert>>)
    BY <2>2 DEF InsertEntry, NewEntry
  <2>4. books' = Listing(b, desc, balance, b.entryIds, b.recs)
    <3> DEFINE cycle == AddRow(b.cycle, NewEntry(desc, balance))
    <3> DEFINE cached == b.cached \cup {id}
    <3> DEFINE damage == b.damage \cup Collision(b.cycle, "cycle")
    <3> DEFINE c1 == [b EXCEPT !.cycle = cycle]
    <3> DEFINE c2 == [c1 EXCEPT !.cached = cached]
    <3>1. c1 = [cycle |-> cycle, daily |-> b.daily, entryIds |-> b.entryIds,
                recs |-> b.recs, cached |-> b.cached, damage |-> b.damage]
      BY <1>0
    <3>2. books' = [c2 EXCEPT !.damage = damage]
      BY <1>1, <2>3, Zenon
    <3> HIDE DEF c1
    <3>3. c2 = [cycle |-> cycle, daily |-> b.daily, entryIds |-> b.entryIds,
                recs |-> b.recs, cached |-> cached, damage |-> b.damage]
      BY <3>1
    <3> HIDE DEF c2
    <3>4. books' = [cycle |-> cycle, daily |-> b.daily, entryIds |-> b.entryIds,
                    recs |-> b.recs, cached |-> cached, damage |-> damage]
      BY <3>2, <3>3
    <3> QED
      BY <3>4 DEF Listing
  <2>5. todo' = <<list, create, insert>> /\ todo' # <<>>
    <3> HIDE DEF list, create, insert
    <3>1. todo' = <<list, create, insert>> \o <<>>
      BY <2>1, <2>3 DEF Proceed
    <3> QED
      BY <3>1, LongQueue
  <2> QED
    BY <2>3, <2>4, <2>5 DEF AddAt, Proceed
<1>2. CASE /\ todo = <<list, create, insert>>
           /\ books = Listing(b, desc, balance, b.entryIds, b.recs)
  <2>1. Head(todo) = list /\ Tail(todo) = <<create, insert>>
    BY <1>2, LongQueue
  <2>2. InsertEntryId /\ Head(todo).id = id
    BY <2>1, WhichStatement DEF Do
  <2>3. books' = [books EXCEPT !.entryIds = @ \cup {id}] /\ Proceed(<<>>)
    BY <2>2 DEF InsertEntryId
  <2>4. books' = Listing(b, desc, balance, b.entryIds \cup {id}, b.recs)
    BY <1>2, <2>3 DEF Listing
  <2>5. todo' = <<create, insert>> /\ todo' # <<>>
    <3> HIDE DEF create, insert
    <3>1. todo' = <<>> \o <<create, insert>>
      BY <2>1, <2>3 DEF Proceed
    <3> QED
      BY <3>1, LongQueue
  <2> QED
    BY <2>3, <2>4, <2>5 DEF AddAt, Proceed
<1>3. CASE /\ todo = <<create, insert>>
           /\ books = Listing(b, desc, balance, b.entryIds \cup {id}, b.recs)
  <2>1. Head(todo) = create /\ Tail(todo) = <<insert>>
    BY <1>3, LongQueue
  <2>2. CreateRecords /\ Head(todo).id = id
    BY <2>1, WhichStatement DEF Do
  <2>3. books' = [books EXCEPT !.recs = WithTable(@, id)] /\ Proceed(<<>>)
    BY <2>2 DEF CreateRecords
  <2>4. books' = listed
    BY <1>3, <2>3 DEF Listing, Listed
  <2>5. todo' = <<insert>> /\ todo' # <<>>
    <3> HIDE DEF insert
    <3> QED
      BY <2>1, <2>3, LongQueue DEF Proceed
  <2> QED
    BY <2>3, <2>4, <2>5 DEF AddAt, Proceed
<1>4. CASE todo = <<insert>> /\ books = listed
  <2>1. Head(todo) = insert /\ Tail(todo) = <<>>
    BY <1>4, LongQueue
  <2>2. InsertRecord /\ Head(todo).id = id /\ Head(todo).record = record
    BY <2>1, WhichStatement DEF Put
  <2>3. books.daily.nextId = b.daily.nextId
    BY <1>4 DEF Listed, Listing
  <2>4. books' = Logged(listed, record) /\ Proceed(<<name>>)
    BY <1>4, <2>2, <2>3 DEF InsertRecord, Logged
  <2>5. todo' = <<name>> /\ todo' # <<>>
    <3> HIDE DEF name
    <3>1. todo' = <<name>> \o <<>>
      BY <2>1, <2>4 DEF Proceed
    <3> QED
      BY <3>1, LongQueue
  <2> QED
    BY <2>4, <2>5 DEF AddAt, Proceed
<1>5. CASE todo = <<name>> /\ books = Logged(listed, record)
  <2>1. Head(todo) = name /\ Tail(todo) = <<>>
    BY <1>5, LongQueue
  <2>2. NameRecord /\ Head(todo).id = id /\ Head(todo).r = b.daily.nextId
    BY <2>1, WhichStatement DEF Named
  <2>3. /\ listed = [cycle |-> listed.cycle, daily |-> listed.daily,
                     entryIds |-> listed.entryIds, recs |-> listed.recs,
                     cached |-> listed.cached, damage |-> listed.damage]
        /\ id \in listed.entryIds /\ id \in DOMAIN listed.recs
        /\ listed.daily = b.daily
    BY DEF Listed, Listing, WithTable
  <2>4. Added(b, desc, balance) = Recorded(listed, id, record)
    BY DEF Added, Listed, Listing, NewEntry
  <2> HIDE DEF listed, record
  <2>5. books.entryIds = listed.entryIds /\ books.recs = listed.recs
    BY <1>5, <2>3, LoggedFacts
  <2>6. books' = [books EXCEPT !.recs[id] = @ \cup {b.daily.nextId}] /\ Proceed(<<>>)
    BY <2>2, <2>3, <2>5 DEF NameRecord
  <2>7. books' = Added(b, desc, balance)
    BY <1>5, <2>3, <2>4, <2>6, LoggedFacts
  <2>8. todo' = <<>>
    BY <2>1, <2>6, LongQueue DEF Proceed
  <2> QED
    BY <2>6, <2>7, <2>8 DEF Proceed
<1> QED
  BY <1>1, <1>2, <1>3, <1>4, <1>5 DEF AddAt

-----------------------------------------------------------------------------
\* remove, begun on the books b, has the statements t left.
Gone(b, id, daily, recs) ==
  [cycle |-> DeleteRow(b.cycle, id), daily |-> daily, entryIds |-> b.entryIds,
   recs |-> recs, cached |-> b.cached \ {id}, damage |-> b.damage]

RemoveAt(b, id, t, now) ==
  LET deleteAll == Do("DeleteRecords", id)
      drop == Do("DropRecords", id)
      unlist == Do("DeleteEntryId", id)
      daily == DeleteRows(b.daily, b.recs[id], Cardinality(b.recs[id]))
  IN  \/ t = <<Do("DeleteEntry", id)>> /\ now = b
      \/ t = <<deleteAll, drop, unlist>> /\ now = Gone(b, id, b.daily, b.recs)
      \/ /\ id \in DOMAIN b.recs /\ CanDelete(b, id)
         /\ \/ t = <<drop, unlist>> /\ now = Gone(b, id, daily, b.recs)
            \/ /\ t = <<unlist>>
               /\ now = Gone(b, id, daily, Restrict(b.recs, DOMAIN b.recs \ {id}))

LEMMA RemovedAsGone ==
  ASSUME NEW b, NEW id,
         b = [cycle |-> b.cycle, daily |-> b.daily, entryIds |-> b.entryIds,
              recs |-> b.recs, cached |-> b.cached, damage |-> b.damage]
  PROVE  Removed(b, id) =
           LET gone == Gone(b, id, b.daily, b.recs)
           IN  IF id \notin DOMAIN b.recs THEN gone
               ELSE IF ~CanDelete(b, id) THEN [gone EXCEPT !.damage = @ \cup {"remove"}]
               ELSE [gone EXCEPT
                       !.daily = DeleteRows(@, b.recs[id], Cardinality(b.recs[id])),
                       !.recs = Restrict(@, DOMAIN @ \ {id}),
                       !.entryIds = @ \ {id}]
<1> DEFINE gone == [b EXCEPT !.cycle = DeleteRow(@, id), !.cached = @ \ {id}]
<1> DEFINE cycle == DeleteRow(b.cycle, id)
<1> DEFINE cached == b.cached \ {id}
<1>1. gone = Gone(b, id, b.daily, b.recs)
  <2> DEFINE c == [b EXCEPT !.cycle = cycle]
  <2>1. c = [cycle |-> cycle, daily |-> b.daily, entryIds |-> b.entryIds,
             recs |-> b.recs, cached |-> b.cached, damage |-> b.damage]
    OBVIOUS
  <2>2. gone = [c EXCEPT !.cached = cached]
    BY Zenon, <2>1
  <2> HIDE DEF c, gone
  <2>3. gone = [cycle |-> cycle, daily |-> b.daily, entryIds |-> b.entryIds,
                recs |-> b.recs, cached |-> cached, damage |-> b.damage]
    BY <2>1, <2>2
  <2> QED
    BY <2>3 DEF Gone
<1>2. Removed(b, id) =
        IF id \notin DOMAIN b.recs THEN gone
        ELSE IF ~CanDelete(b, id) THEN [gone EXCEPT !.damage = @ \cup {"remove"}]
        ELSE [gone EXCEPT
                !.daily = DeleteRows(@, b.recs[id], Cardinality(b.recs[id])),
                !.recs = Restrict(@, DOMAIN @ \ {id}),
                !.entryIds = @ \ {id}]
  BY Zenon DEF Removed
<1> HIDE DEF gone
<1> QED
  BY <1>1, <1>2, Zenon

LEMMA RemoveGoesOn ==
  ASSUME NEW b, IsBooks(b), NEW id, RemoveAt(b, id, todo, books), Work
  PROVE  /\ UNCHANGED <<policy, cut>>
         /\ \/ /\ RemoveAt(b, id, todo', books') /\ todo' # <<>>
               /\ UNCHANGED <<reply, call, before>>
            \/ /\ books' = Removed(b, id) /\ todo' = <<>>
               /\ Return(RemoveReturns(b, id))
<1> DEFINE deleteAll == Do("DeleteRecords", id)
<1> DEFINE drop == Do("DropRecords", id)
<1> DEFINE unlist == Do("DeleteEntryId", id)
<1> DEFINE daily == DeleteRows(b.daily, b.recs[id], Cardinality(b.recs[id]))
<1> DEFINE recs == Restrict(b.recs, DOMAIN b.recs \ {id})
<1> DEFINE gone == Gone(b, id, b.daily, b.recs)
<1>0. b = [cycle |-> b.cycle, daily |-> b.daily, entryIds |-> b.entryIds,
           recs |-> b.recs, cached |-> b.cached, damage |-> b.damage]
  BY DEF IsBooks
<1>1. CASE todo = <<Do("DeleteEntry", id)>> /\ books = b
  <2>1. Head(todo) = Do("DeleteEntry", id) /\ Tail(todo) = <<>>
    BY <1>1, LongQueue
  <2>2. DeleteEntry /\ Head(todo).id = id
    BY <2>1, WhichStatement DEF Do
  <2>3. /\ books' = [b EXCEPT !.cycle = DeleteRow(@, id), !.cached = @ \ {id}]
        /\ Proceed(<<deleteAll, drop, unlist>>)
    BY <1>1, <2>2 DEF DeleteEntry
  <2>4. books' = gone
    <3> DEFINE cycle == DeleteRow(b.cycle, id)
    <3> DEFINE cached == b.cached \ {id}
    <3> DEFINE c == [b EXCEPT !.cycle = cycle]
    <3>1. c = [cycle |-> cycle, daily |-> b.daily, entryIds |-> b.entryIds,
               recs |-> b.recs, cached |-> b.cached, damage |-> b.damage]
      BY <1>0
    <3>2. books' = [c EXCEPT !.cached = cached]
      BY Zenon, <2>3, <3>1
    <3> HIDE DEF c
    <3>3. books' = [cycle |-> cycle, daily |-> b.daily, entryIds |-> b.entryIds,
                    recs |-> b.recs, cached |-> cached, damage |-> b.damage]
      BY <3>1, <3>2
    <3> QED
      BY <3>3 DEF Gone
  <2>5. todo' = <<deleteAll, drop, unlist>> /\ todo' # <<>>
    <3> HIDE DEF deleteAll, drop, unlist
    <3>1. todo' = <<deleteAll, drop, unlist>> \o <<>>
      BY <2>1, <2>3 DEF Proceed
    <3> QED
      BY <3>1, LongQueue
  <2> QED
    BY <2>3, <2>4, <2>5 DEF RemoveAt, Proceed
<1>2. CASE todo = <<deleteAll, drop, unlist>> /\ books = gone
  <2>1. Head(todo) = deleteAll /\ Tail(todo) = <<drop, unlist>>
    BY <1>2, LongQueue
  <2>2. DeleteRecords /\ Head(todo).id = id
    BY <2>1, WhichStatement DEF Do
  <2>3. books.recs = b.recs /\ books.daily = b.daily /\ books.damage = b.damage
    BY <1>2 DEF Gone
  <2>4. CASE id \in DOMAIN b.recs /\ CanDelete(b, id)
    <3>1. /\ books' = [books EXCEPT !.daily = DeleteRows(@, books.recs[id],
                                                  Cardinality(books.recs[id]))]
          /\ Proceed(<<>>)
      BY <2>2, <2>3, <2>4 DEF DeleteRecords, CanDelete
    <3>2. books' = [books EXCEPT !.daily = daily]
      BY <2>3, <3>1
    <3>3. books' = Gone(b, id, daily, b.recs)
      <4> HIDE DEF daily
      <4> QED
        BY <1>2, <3>2 DEF Gone
    <3>4. todo' = <<drop, unlist>> /\ todo' # <<>>
      <4> HIDE DEF drop, unlist
      <4> QED
        BY <2>1, <3>1, LongQueue DEF Proceed
    <3> QED
      BY <2>4, <3>1, <3>3, <3>4 DEF RemoveAt, Proceed
  <2>5. CASE id \in DOMAIN b.recs /\ ~CanDelete(b, id)
    <3>1. books' = [books EXCEPT !.damage = @ \cup {"remove"}] /\ Throw
      BY <2>2, <2>3, <2>5 DEF DeleteRecords, CanDelete
    <3>2. Removed(b, id) = [gone EXCEPT !.damage = @ \cup {"remove"}]
      BY <1>0, <2>5, RemovedAsGone
    <3> HIDE DEF gone
    <3> QED
      BY <1>2, <2>5, <3>1, <3>2 DEF Throw, RemoveReturns
  <2>6. CASE id \notin DOMAIN b.recs
    <3>1. books' = books /\ Throw
      BY <2>2, <2>3, <2>6 DEF DeleteRecords
    <3>2. Removed(b, id) = gone
      BY <1>0, <2>6, RemovedAsGone
    <3> HIDE DEF gone
    <3> QED
      BY <1>2, <2>6, <3>1, <3>2 DEF Throw, RemoveReturns
  <2> QED
    BY <2>4, <2>5, <2>6
<1>3. CASE /\ id \in DOMAIN b.recs /\ CanDelete(b, id)
           /\ todo = <<drop, unlist>> /\ books = Gone(b, id, daily, b.recs)
  <2>1. Head(todo) = drop /\ Tail(todo) = <<unlist>>
    BY <1>3, LongQueue
  <2>2. DropRecords /\ Head(todo).id = id
    BY <2>1, WhichStatement DEF Do
  <2>3. books' = [books EXCEPT !.recs = Restrict(@, DOMAIN @ \ {id})] /\ Proceed(<<>>)
    BY <2>2 DEF DropRecords
  <2>4. books' = Gone(b, id, daily, recs)
    <3>1. books.recs = b.recs
      BY <1>3 DEF Gone
    <3>2. books' = [books EXCEPT !.recs = recs]
      BY <2>3, <3>1
    <3> HIDE DEF recs, daily
    <3> QED
      BY <1>3, <3>2 DEF Gone
  <2>5. todo' = <<unlist>> /\ todo' # <<>>
    <3> HIDE DEF unlist
    <3> QED
      BY <2>1, <2>3, LongQueue DEF Proceed
  <2> QED
    BY <1>3, <2>3, <2>4, <2>5 DEF RemoveAt, Proceed
<1>4. CASE /\ id \in DOMAIN b.recs /\ CanDelete(b, id)
           /\ todo = <<unlist>> /\ books = Gone(b, id, daily, recs)
  <2>1. Head(todo) = unlist /\ Tail(todo) = <<>>
    BY <1>4, LongQueue
  <2>2. DeleteEntryId /\ Head(todo).id = id
    BY <2>1, WhichStatement DEF Do
  <2>3. books' = [books EXCEPT !.entryIds = @ \ {id}] /\ Proceed(<<>>)
    BY <2>2 DEF DeleteEntryId
  <2>4. todo' = <<>>
    BY <2>1, <2>3, LongQueue DEF Proceed
  <2>5. books' = Removed(b, id)
    <3> DEFINE c1 == [gone EXCEPT !.daily = daily]
    <3> DEFINE c2 == [c1 EXCEPT !.recs = recs]
    <3>1. gone.daily = b.daily /\ gone.recs = b.recs /\ gone.entryIds = b.entryIds
      BY DEF Gone
    <3>2. Removed(b, id) =
            [gone EXCEPT
               !.daily = DeleteRows(@, b.recs[id], Cardinality(b.recs[id])),
               !.recs = Restrict(@, DOMAIN @ \ {id}),
               !.entryIds = @ \ {id}]
      BY <1>0, <1>4, RemovedAsGone
    <3>3. c1 = Gone(b, id, daily, b.recs)
      <4> HIDE DEF daily
      <4> QED
        BY DEF Gone
    <3>4. c2 = Gone(b, id, daily, recs)
      <4> HIDE DEF daily, recs, c1
      <4> QED
        BY <3>3 DEF Gone
    <3>5. Removed(b, id) = [c2 EXCEPT !.entryIds = b.entryIds \ {id}]
      <4> HIDE DEF gone
      <4> QED
        BY <3>1, <3>2, Zenon
    <3>6. books.entryIds = b.entryIds
      BY <1>4 DEF Gone
    <3> HIDE DEF c2
    <3> QED
      BY <1>4, <2>3, <3>4, <3>5, <3>6
  <2> QED
    BY <1>4, <2>3, <2>4, <2>5 DEF Proceed, RemoveReturns
<1> QED
  BY <1>1, <1>2, <1>3, <1>4 DEF RemoveAt

-----------------------------------------------------------------------------
\* Ledger under the refinement mapping has its own copy of every operator; the
\* copies of those that do not depend on the state are the same.
LEMMA SameSizes == \A S : Whole!Cardinality(S) = Cardinality(S)
  BY DEF Whole!Cardinality, Cardinality, Whole!IsFiniteSet, IsFiniteSet

LEMMA SameTables ==
  /\ \A f, s : Whole!Restrict(f, s) = Restrict(f, s)
  /\ \A rows : Whole!LastId(rows) = LastId(rows)
  /\ \A t, row : Whole!AddRow(t, row) = AddRow(t, row)
  /\ \A t, id : Whole!DeleteRow(t, id) = DeleteRow(t, id)
  /\ \A t, ids, n : Whole!DeleteRows(t, ids, n) = DeleteRows(t, ids, n)
  /\ \A rows : Whole!OpenTable(rows) = OpenTable(rows)
  /\ \A t, name : Whole!Collision(t, name) = Collision(t, name)
<1>1. \A f, s : Whole!Restrict(f, s) = Restrict(f, s)
  BY DEF Whole!Restrict, Restrict
<1>2. \A rows : Whole!LastId(rows) = LastId(rows)
  BY DEF Whole!LastId, LastId, Whole!Max, Max
<1>3. \A t, row : Whole!AddRow(t, row) = AddRow(t, row)
  BY DEF Whole!AddRow, AddRow, Whole!InsertRow, InsertRow
<1>4. \A rows, ids : Whole!WithoutRows(rows, ids) = WithoutRows(rows, ids)
  BY DEF Whole!WithoutRows, WithoutRows, Whole!Restrict, Restrict
<1>5. \A count, n : Whole!DecreaseRows(count, n) = DecreaseRows(count, n)
  BY DEF Whole!DecreaseRows, DecreaseRows
<1>6. \A rows, nextId, count :
        Whole!AfterDelete(rows, nextId, count) = AfterDelete(rows, nextId, count)
  BY DEF Whole!AfterDelete, AfterDelete
<1>7. \A t, id : Whole!DeleteRow(t, id) = DeleteRow(t, id)
  BY <1>2, <1>4, <1>5, <1>6 DEF Whole!DeleteRow, DeleteRow
<1>8. \A t, ids, n : Whole!DeleteRows(t, ids, n) = DeleteRows(t, ids, n)
  BY <1>2, <1>4, <1>5, <1>6 DEF Whole!DeleteRows, DeleteRows
<1>9. \A rows : Whole!OpenTable(rows) = OpenTable(rows)
  BY <1>2, SameSizes DEF Whole!OpenTable, OpenTable
<1>10. \A t, name : Whole!Collision(t, name) = Collision(t, name)
  BY DEF Whole!Collision, Collision, Whole!WillCollide, WillCollide
<1> QED
  BY <1>1, <1>2, <1>3, <1>7, <1>8, <1>9, <1>10

LEMMA SameParts ==
  /\ \A b, id, record : Whole!Recorded(b, id, record) = Recorded(b, id, record)
  /\ \A b, id, desc : Whole!CanUpdate(b, id, desc) = CanUpdate(b, id, desc)
  /\ \A entry, record : Whole!UpdatedEntry(entry, record) = UpdatedEntry(entry, record)
  /\ \A b, id : Whole!LastRecord(b, id) = LastRecord(b, id)
  /\ \A b, id : Whole!PreviousRecord(b, id) = PreviousRecord(b, id)
  /\ \A entry, value, record :
       Whole!RolledBack(entry, value, record) = RolledBack(entry, value, record)
  /\ \A b, id : Whole!CanDelete(b, id) = CanDelete(b, id)
  /\ \A b, id : Whole!CanUndo(b, id) = CanUndo(b, id)
  /\ \A b, id : Whole!Restorable(b, id) = Restorable(b, id)
  /\ \A value, desc, status :
       Whole!NewRecord(value, desc, status) = NewRecord(value, desc, status)
<1>1. \A b, id, record : Whole!Recorded(b, id, record) = Recorded(b, id, record)
  BY SMTT(20) DEF Whole!Recorded, Recorded, Whole!Collision, Collision, Whole!AddRow, AddRow,
    Whole!WillCollide, WillCollide, Whole!InsertRow, InsertRow
<1>2. \A b, id, desc : Whole!CanUpdate(b, id, desc) = CanUpdate(b, id, desc)
  BY DEF Whole!CanUpdate, CanUpdate
<1>3. \A entry, record : Whole!UpdatedEntry(entry, record) = UpdatedEntry(entry, record)
  BY DEF Whole!UpdatedEntry, UpdatedEntry, Whole!Wrap, Wrap
<1>4. \A b, id : Whole!LastRecord(b, id) = LastRecord(b, id)
  BY DEF Whole!LastRecord, LastRecord, Whole!Max, Max
<1>5. \A b, id : Whole!PreviousRecord(b, id) = PreviousRecord(b, id)
  BY <1>4 DEF Whole!PreviousRecord, PreviousRecord, Whole!Max, Max
<1>6. \A entry, value, record :
        Whole!RolledBack(entry, value, record) = RolledBack(entry, value, record)
  BY DEF Whole!RolledBack, RolledBack, Whole!Wrap, Wrap
<1>7. \A b, id : Whole!CanDelete(b, id) = CanDelete(b, id)
  BY SameSizes DEF Whole!CanDelete, CanDelete
<1>8. \A b, id : Whole!CanUndo(b, id) = CanUndo(b, id)
  BY <1>4, SameSizes DEF Whole!CanUndo, CanUndo
<1>9. \A b, id : Whole!Restorable(b, id) = Restorable(b, id)
  BY <1>2, <1>5 DEF Whole!Restorable, Restorable
<1>10. \A value, desc, status :
         Whole!NewRecord(value, desc, status) = NewRecord(value, desc, status)
  BY DEF Whole!NewRecord, NewRecord
<1> QED
  BY <1>1, <1>2, <1>3, <1>4, <1>5, <1>6, <1>7, <1>8, <1>9, <1>10

LEMMA SameCalls ==
  ASSUME NEW b
  PROVE  /\ \A desc, balance : Whole!Added(b, desc, balance) = Added(b, desc, balance)
         /\ \A id, record : Whole!Updated(b, id, record) = Updated(b, id, record)
         /\ \A id : Whole!Removed(b, id) = Removed(b, id)
         /\ \A id : Whole!Undone(b, id) = Undone(b, id)
         /\ Whole!Reopened(b) = Reopened(b)
         /\ \A id, desc : Whole!UpdateReturns(b, id, desc) <=> UpdateReturns(b, id, desc)
         /\ \A id : Whole!RemoveReturns(b, id) <=> RemoveReturns(b, id)
         /\ \A id : Whole!UndoReturns(b, id) <=> UndoReturns(b, id)
<1>1. ASSUME NEW desc, NEW balance
      PROVE  Whole!Added(b, desc, balance) = Added(b, desc, balance)
  <2>1. Whole!WithTable(b.recs, b.cycle.nextId) = WithTable(b.recs, b.cycle.nextId)
    BY DEF Whole!WithTable, WithTable
  <2> QED
    BY <2>1, SameTables, SameParts DEF Whole!Added, Added
<1>2. ASSUME NEW id, NEW record
      PROVE  Whole!Updated(b, id, record) = Updated(b, id, record)
  <2> DEFINE entered == [b EXCEPT !.cycle.rows[id] = UpdatedEntry(@, record)]
  <2>1. CASE CanUpdate(b, id, record.desc)
    <3>1. entered = [b EXCEPT !.cycle.rows[id] = Whole!UpdatedEntry(@, record)]
      <4>1. UpdatedEntry(b.cycle.rows[id], record)
              = Whole!UpdatedEntry(b.cycle.rows[id], record)
        BY SameParts
      <4> QED
        BY <4>1, Zenon
    <3>2. Updated(b, id, record) = Recorded(entered, id, record)
      BY <2>1, Zenon DEF Updated
    <3> HIDE DEF entered
    <3>3. Whole!CanUpdate(b, id, record.desc)
      BY <2>1, SameParts
    <3>4. Whole!Updated(b, id, record) = Whole!Recorded(entered, id, record)
      BY <3>1, <3>3, Zenon DEF Whole!Updated
    <3> QED
      BY <3>2, <3>4, SameParts
  <2>2. CASE ~CanUpdate(b, id, record.desc)
    BY <2>2, SameParts DEF Whole!Updated, Updated
  <2> QED
    BY <2>1, <2>2
<1>3. ASSUME NEW id PROVE Whole!Removed(b, id) = Removed(b, id)
  BY SameTables, SameParts, SameSizes, Zenon DEF Whole!Removed, Removed
<1>4. ASSUME NEW id PROVE Whole!Undone(b, id) = Undone(b, id)
  BY SameTables, SameParts, Zenon DEF Whole!Undone, Undone
<1>5. Whole!Reopened(b) = Reopened(b)
  BY SameTables DEF Whole!Reopened, Reopened
<1>6. \A id, desc : Whole!UpdateReturns(b, id, desc) <=> UpdateReturns(b, id, desc)
  BY SameParts DEF Whole!UpdateReturns, UpdateReturns
<1>7. \A id : Whole!RemoveReturns(b, id) <=> RemoveReturns(b, id)
  BY SameParts DEF Whole!RemoveReturns, RemoveReturns
<1>8. \A id : Whole!UndoReturns(b, id) <=> UndoReturns(b, id)
  BY SameParts, SameSizes DEF Whole!UndoReturns, UndoReturns
<1> QED
  BY <1>1, <1>2, <1>3, <1>4, <1>5, <1>6, <1>7, <1>8

LEMMA SamePolicyCalls ==
  ASSUME NEW b, NEW p
  PROVE  /\ Whole!Portion(b, p) = Portion(b, p)
         /\ \A value : Whole!PolicyRecord(p, value) = PolicyRecord(p, value)
         /\ Whole!Applied(b, p) = Applied(b, p)
         /\ Whole!ApplyReturns(b, p) <=> ApplyReturns(b, p)
         /\ Whole!PolicyUndone(b, p) = PolicyUndone(b, p)
         /\ Whole!PolicyUndoReturns(b, p) <=> PolicyUndoReturns(b, p)
<1>1. Whole!Portion(b, p) = Portion(b, p)
  BY DEF Whole!Portion, Portion, Whole!Hundredth, Hundredth, Whole!Wrap, Wrap
<1>2. \A value : Whole!PolicyRecord(p, value) = PolicyRecord(p, value)
  BY DEF Whole!PolicyRecord, PolicyRecord, Whole!NewRecord, NewRecord
<1>3. Whole!Applied(b, p) = Applied(b, p)
  <2> DEFINE debited == Updated(b, p.source, PolicyRecord(p, -Portion(b, p)))
  <2> DEFINE paid == Updated(debited, p.destination, PolicyRecord(p, Portion(b, p)))
  <2>1. /\ Whole!Updated(b, p.source, Whole!PolicyRecord(p, -Whole!Portion(b, p))) = debited
        /\ Whole!UpdateReturns(b, p.source, p.desc) <=> UpdateReturns(b, p.source, p.desc)
    BY <1>1, <1>2, SameCalls
  <2>2. Whole!Updated(debited, p.destination, Whole!PolicyRecord(p, Whole!Portion(b, p))) = paid
    <3> HIDE DEF debited
    <3> QED
      BY <1>1, <1>2, SameCalls
  <2>3. Applied(b, p) = IF UpdateReturns(b, p.source, p.desc) THEN paid ELSE debited
    BY DEF Applied
  <2> QED
    BY <2>1, <2>2, <2>3, Zenon DEF Whole!Applied
<1>4. Whole!ApplyReturns(b, p) <=> ApplyReturns(b, p)
  BY SameCalls DEF Whole!ApplyReturns, ApplyReturns
<1>5. /\ Whole!Undone(b, p.source) = Undone(b, p.source)
      /\ Whole!UndoReturns(b, p.source) <=> UndoReturns(b, p.source)
  BY SameCalls
<1>6. /\ Whole!Undone(Undone(b, p.source), p.destination)
           = Undone(Undone(b, p.source), p.destination)
      /\ Whole!UndoReturns(Undone(b, p.source), p.destination)
           <=> UndoReturns(Undone(b, p.source), p.destination)
  BY SameCalls
<1>7. Whole!PolicyUndone(b, p) = PolicyUndone(b, p)
  BY <1>5, <1>6, Zenon DEF Whole!PolicyUndone, PolicyUndone
<1>8. Whole!PolicyUndoReturns(b, p) <=> PolicyUndoReturns(b, p)
  BY <1>5, <1>6, Zenon DEF Whole!PolicyUndoReturns, PolicyUndoReturns
<1> QED
  BY <1>1, <1>2, <1>3, <1>4, <1>7, <1>8

-----------------------------------------------------------------------------
\* applyPolicy is an update of the source, followed by one of the destination
\* that waits for it; undoPolicy is two undos.
Credit(b, p) == PolicyRecord(p, Portion(b, p))
Debit(b, p) == PolicyRecord(p, -Portion(b, p))
Debited(b, p) == Updated(b, p.source, Debit(b, p))

ApplyAt(b, p, t, now) ==
  \/ \E s : /\ t = <<s, Put("UpdateRow", p.destination, Credit(b, p))>>
            /\ UpdateAt(b, p.source, Debit(b, p), s, now)
  \/ /\ UpdateReturns(b, p.source, p.desc)
     /\ \E s : /\ t = <<s>>
               /\ UpdateAt(Debited(b, p), p.destination, Credit(b, p), s, now)

UndoPolicyAt(b, p, t, now) ==
  \/ UndoAt(b, p.source, t, <<Do("DeleteRecord", p.destination)>>, now)
  \/ /\ UndoReturns(b, p.source)
     /\ UndoAt(Undone(b, p.source), p.destination, t, <<>>, now)

\* Whether an update stores its record depends on nothing another one changes.
LEMMA UpdateReturnsAfter ==
  ASSUME NEW b, WellFormed(b), NEW id, NEW record \in Record,
         CanUpdate(b, id, record.desc), NEW other, NEW desc
  PROVE  UpdateReturns(Updated(b, id, record), other, desc)
           <=> UpdateReturns(b, other, desc)
<1> DEFINE a == Entered(b, id, record)
<1> DEFINE c == Updated(b, id, record)
<1>1. /\ IsBooks(a) /\ a.entryIds = b.entryIds /\ a.recs = b.recs
      /\ c = Recorded(a, id, record)
      /\ DOMAIN a.cycle.rows = DOMAIN b.cycle.rows
  BY EnteredFacts DEF WellFormed, Keeps
<1> HIDE DEF a, c
<1>2. /\ c.entryIds = a.entryIds /\ c.cycle = a.cycle
      /\ DOMAIN c.recs = DOMAIN a.recs
  <2> DEFINE logged == Logged(a, record)
  <2> DEFINE r == a.daily.nextId
  <2>1. a = [cycle |-> a.cycle, daily |-> a.daily, entryIds |-> a.entryIds,
             recs |-> a.recs, cached |-> a.cached, damage |-> a.damage]
    BY <1>1 DEF IsBooks
  <2>2. /\ logged = [cycle |-> a.cycle, daily |-> AddRow(a.daily, record),
                     entryIds |-> a.entryIds, recs |-> a.recs, cached |-> a.cached,
                     damage |-> a.damage \cup Collision(a.daily, "daily")]
        /\ c = IF id \in a.entryIds \cap DOMAIN a.recs
                 THEN [logged EXCEPT !.recs[id] = @ \cup {r}]
                 ELSE logged
    BY <1>1, <2>1, LoggedFacts
  <2> HIDE DEF logged, r
  <2> QED
    BY <2>2
<1>3. UpdateReturns(c, other, desc) <=> UpdateReturns(b, other, desc)
  BY <1>1, <1>2 DEF UpdateReturns, CanUpdate
<1> QED
  BY <1>3 DEF c

LEMMA ApplyReturning ==
  ASSUME NEW b, NEW p
  PROVE  /\ ApplyReturns(b, p) /\ Return(TRUE) => Return(ApplyReturns(b, p))
         /\ ~ApplyReturns(b, p) /\ Return(FALSE) => Return(ApplyReturns(b, p))
  BY DEF Return, Reply

LEMMA ApplyGoesOn ==
  ASSUME NEW b, WellFormed(b), NEW p \in Policy, p.source \in DOMAIN b.cycle.rows,
         ApplyAt(b, p, todo, books), Work
  PROVE  /\ UNCHANGED <<policy, cut>>
         /\ \/ /\ ApplyAt(b, p, todo', books') /\ todo' # <<>>
               /\ UNCHANGED <<reply, call, before>>
            \/ /\ books' = Applied(b, p) /\ todo' = <<>>
               /\ Return(ApplyReturns(b, p))
<1> DEFINE source == p.source
<1> DEFINE destination == p.destination
<1> DEFINE credit == Credit(b, p)
<1> DEFINE debit == Debit(b, p)
<1> DEFINE debited == Debited(b, p)
<1> DEFINE next == Put("UpdateRow", destination, credit)
<1>1. credit \in Record /\ debit \in Record
  BY PolicyRecordType DEF Credit, Debit
<1>2. credit.desc = p.desc /\ debit.desc = p.desc
  BY DEF Credit, Debit, PolicyRecord, NewRecord
<1>3. debited = Updated(b, source, debit)
  BY DEF Debited
<1>4. Applied(b, p) = IF UpdateReturns(b, source, p.desc)
                        THEN Updated(debited, destination, credit)
                        ELSE debited
  BY DEF Applied, Debited, Debit, Credit
<1>5. ApplyReturns(b, p) <=> /\ UpdateReturns(b, source, p.desc)
                             /\ UpdateReturns(b, destination, p.desc)
  BY DEF ApplyReturns
<1>6. \A t, now : ApplyAt(b, p, t, now) <=>
        \/ \E s : t = <<s, next>> /\ UpdateAt(b, source, debit, s, now)
        \/ /\ UpdateReturns(b, source, p.desc)
           /\ \E s : t = <<s>> /\ UpdateAt(debited, destination, credit, s, now)
  BY DEF ApplyAt
<1> HIDE DEF source, destination, credit, debit, debited, next
<1>7. next = Put("UpdateRow", destination, credit)
  BY DEF next
<1>8. ASSUME NEW s, todo = <<s, next>>, UpdateAt(b, source, debit, s, books)
      PROVE  /\ UNCHANGED <<policy, cut>>
             /\ \/ /\ ApplyAt(b, p, todo', books') /\ todo' # <<>>
                   /\ UNCHANGED <<reply, call, before>>
                \/ /\ books' = Applied(b, p) /\ todo' = <<>>
                   /\ Return(ApplyReturns(b, p))
  <2>1. Head(todo) = s /\ Tail(todo) = <<next>>
    BY <1>8
  <2>2. \/ \E t : UpdateAt(b, source, debit, t, books') /\ Proceed(<<t>>)
        \/ /\ UpdateReturns(b, source, p.desc)
           /\ books' = debited /\ Proceed(<<>>)
        \/ /\ ~UpdateReturns(b, source, p.desc)
           /\ books' = debited /\ Throw
    BY <1>1, <1>2, <1>3, <1>8, <2>1, UpdateGoesOn DEF WellFormed
  <2>3. ASSUME NEW t, UpdateAt(b, source, debit, t, books'), Proceed(<<t>>)
        PROVE  /\ UNCHANGED <<policy, cut>>
               /\ ApplyAt(b, p, todo', books') /\ todo' # <<>>
               /\ UNCHANGED <<reply, call, before>>
    <3>1. todo' = <<t>> \o <<next>>
      BY <2>1, <2>3 DEF Proceed
    <3>2. todo' = <<t, next>>
      BY <3>1, OneAndOne
    <3>3. todo' # <<>>
      BY <3>2
    <3>4. ApplyAt(b, p, todo', books')
      BY <1>6, <2>3, <3>2
    <3> QED
      BY <2>3, <3>3, <3>4 DEF Proceed
  <2>4. ASSUME UpdateReturns(b, source, p.desc), books' = debited, Proceed(<<>>)
        PROVE  /\ UNCHANGED <<policy, cut>>
               /\ ApplyAt(b, p, todo', books') /\ todo' # <<>>
               /\ UNCHANGED <<reply, call, before>>
    <3>1. todo' = <<>> \o <<next>>
      BY <2>1, <2>4 DEF Proceed
    <3>2. todo' = <<next>> /\ todo' # <<>>
      BY <3>1
    <3>3. UpdateAt(debited, destination, credit, next, books')
      BY <1>7, <2>4 DEF UpdateAt
    <3>4. ApplyAt(b, p, todo', books')
      BY <1>6, <2>4, <3>2, <3>3
    <3> QED
      BY <2>4, <3>2, <3>4 DEF Proceed
  <2> QED
    BY <1>4, <1>5, <2>2, <2>3, <2>4, ApplyReturning DEF Throw
<1>9. ASSUME NEW s, todo = <<s>>, UpdateReturns(b, source, p.desc),
             UpdateAt(debited, destination, credit, s, books)
      PROVE  /\ UNCHANGED <<policy, cut>>
             /\ \/ /\ ApplyAt(b, p, todo', books') /\ todo' # <<>>
                   /\ UNCHANGED <<reply, call, before>>
                \/ /\ books' = Applied(b, p) /\ todo' = <<>>
                   /\ Return(ApplyReturns(b, p))
  <2>1. Head(todo) = s /\ Tail(todo) = <<>>
    BY <1>9
  <2>2. CanUpdate(b, source, debit.desc)
    BY <1>2, <1>9 DEF UpdateReturns
  <2>3. WellFormed(debited)
    BY <1>1, <1>3, UpdatedFacts DEF Keeps, WellFormed
  <2>4. UpdateReturns(debited, destination, p.desc)
          <=> UpdateReturns(b, destination, p.desc)
    BY <1>1, <1>3, <2>2, UpdateReturnsAfter
  <2>5. \/ \E t : UpdateAt(debited, destination, credit, t, books') /\ Proceed(<<t>>)
        \/ /\ UpdateReturns(debited, destination, p.desc)
           /\ books' = Updated(debited, destination, credit) /\ Proceed(<<>>)
        \/ /\ ~UpdateReturns(debited, destination, p.desc)
           /\ books' = Updated(debited, destination, credit) /\ Throw
    BY <1>1, <1>2, <1>9, <2>1, <2>3, UpdateGoesOn DEF WellFormed
  <2>6. ASSUME NEW t, UpdateAt(debited, destination, credit, t, books'), Proceed(<<t>>)
        PROVE  /\ UNCHANGED <<policy, cut>>
               /\ ApplyAt(b, p, todo', books') /\ todo' # <<>>
               /\ UNCHANGED <<reply, call, before>>
    <3>1. todo' = <<t>>
      <4>1. todo' = <<t>> \o Tail(todo)
        BY <2>6 DEF Proceed
      <4>2. <<t>> \o <<>> = <<t>>
        OBVIOUS
      <4> QED
        BY <2>1, <4>1, <4>2
    <3>2. todo' # <<>>
      BY <3>1
    <3>3. ApplyAt(b, p, todo', books')
      BY <1>6, <1>9, <2>6, <3>1
    <3> QED
      BY <2>6, <3>2, <3>3 DEF Proceed
  <2>7. ASSUME Proceed(<<>>)
        PROVE  UNCHANGED <<policy, cut>> /\ todo' = <<>> /\ Return(TRUE)
    <3>1. todo' = <<>> \o Tail(todo)
      BY <2>7 DEF Proceed
    <3>2. todo' = <<>>
      BY <2>1, <3>1
    <3> QED
      BY <2>7, <3>2 DEF Proceed
  <2> QED
    BY <1>4, <1>5, <1>9, <2>4, <2>5, <2>6, <2>7, ApplyReturning DEF Throw
<1> QED
  BY <1>6, <1>8, <1>9

\* An undo that returns has not been struck by a flaw.
LEMMA UndoneReturned ==
  ASSUME NEW b, Kept(b), NEW id, UndoReturns(b, id)
  PROVE  Kept(Undone(b, id))
<1> DEFINE entry == RolledBack(b.cycle.rows[id], b.daily.rows[LastRecord(b, id)].value,
                               b.daily.rows[PreviousRecord(b, id)])
<1>1. Undone(b, id).damage = {}
  <2>1. CASE ~CanUndo(b, id)
    BY <2>1 DEF Undone, Kept
  <2>2. CASE CanUndo(b, id)
    <3>1. Restorable(b, id)
      BY <2>2 DEF UndoReturns, CanUndo
    <3>2. Undone(b, id) = [Erased(b, id) EXCEPT !.cycle.rows[id] = entry]
      BY <2>2, <3>1, Zenon DEF Undone, Erased
    <3>3. DOMAIN Erased(b, id) =
            {"cycle", "daily", "entryIds", "recs", "cached", "damage"}
      BY DEF Erased
    <3>4. Erased(b, id).damage = {}
      BY DEF Erased, Kept
    <3> HIDE DEF entry
    <3> QED
      BY <3>2, <3>3, <3>4
  <2> QED
    BY <2>1, <2>2
<1> QED
  BY <1>1, UndoneKeeps

LEMMA UndoPolicyReturning ==
  ASSUME NEW b, NEW p
  PROVE  /\ PolicyUndoReturns(b, p) /\ Return(TRUE) => Return(PolicyUndoReturns(b, p))
         /\ ~PolicyUndoReturns(b, p) /\ Return(FALSE) => Return(PolicyUndoReturns(b, p))
  BY DEF Return, Reply

LEMMA UndoPolicyGoesOn ==
  ASSUME NEW b, Kept(b), NEW p, UndoPolicyAt(b, p, todo, books), Work
  PROVE  /\ UNCHANGED <<policy, cut>>
         /\ \/ /\ UndoPolicyAt(b, p, todo', books') /\ todo' # <<>>
               /\ UNCHANGED <<reply, call, before>>
            \/ /\ books' = PolicyUndone(b, p) /\ todo' = <<>>
               /\ Return(PolicyUndoReturns(b, p))
<1> DEFINE source == p.source
<1> DEFINE destination == p.destination
<1> DEFINE next == Do("DeleteRecord", destination)
<1> DEFINE first == Undone(b, source)
<1>1. PolicyUndone(b, p) = IF UndoReturns(b, source)
                             THEN Undone(first, destination) ELSE first
  BY DEF PolicyUndone
<1>2. PolicyUndoReturns(b, p) <=> /\ UndoReturns(b, source)
                                  /\ UndoReturns(first, destination)
  BY DEF PolicyUndoReturns
<1>3. \A t, now : UndoPolicyAt(b, p, t, now) <=>
        \/ UndoAt(b, source, t, <<next>>, now)
        \/ UndoReturns(b, source) /\ UndoAt(first, destination, t, <<>>, now)
  BY DEF UndoPolicyAt
<1> HIDE DEF source, destination, first, next
<1>4. AtMostOne(<<next>>) /\ AtMostOne(<<>>)
  BY DEF AtMostOne
<1>5. CASE UndoAt(b, source, todo, <<next>>, books)
  <2>1. /\ UNCHANGED <<policy, cut>>
        /\ \/ /\ UndoAt(b, source, todo', <<next>>, books') /\ todo' # <<>>
              /\ UNCHANGED <<reply, call, before>>
           \/ /\ UndoReturns(b, source) /\ books' = first
              /\ todo' = <<next>> /\ Done
           \/ /\ ~UndoReturns(b, source) /\ books' = first
              /\ todo' = <<>> /\ Return(FALSE)
    BY <1>4, <1>5, KeptFacts, UndoGoesOn DEF Kept, WellFormed, Stored, first
  <2>2. ASSUME UndoReturns(b, source), books' = first, todo' = <<next>>, Done
        PROVE  /\ UndoPolicyAt(b, p, todo', books') /\ todo' # <<>>
               /\ UNCHANGED <<reply, call, before>>
    <3>1. <<next>> # <<>> /\ <<next>> = <<next>> \o <<>>
      OBVIOUS
    <3>2. UndoAt(first, destination, todo', <<>>, books')
      BY <2>2, <3>1 DEF UndoAt, next
    <3> QED
      BY <1>3, <2>2, <3>1, <3>2 DEF Done
  <2> QED
    BY <1>1, <1>2, <1>3, <2>1, <2>2, UndoPolicyReturning
<1>6. CASE UndoReturns(b, source) /\ UndoAt(first, destination, todo, <<>>, books)
  <2>1. Kept(first)
    BY <1>6, UndoneReturned DEF first
  <2>2. /\ UNCHANGED <<policy, cut>>
        /\ \/ /\ UndoAt(first, destination, todo', <<>>, books') /\ todo' # <<>>
              /\ UNCHANGED <<reply, call, before>>
           \/ /\ UndoReturns(first, destination) /\ books' = Undone(first, destination)
              /\ todo' = <<>> /\ Done
           \/ /\ ~UndoReturns(first, destination)
              /\ books' = Undone(first, destination)
              /\ todo' = <<>> /\ Return(FALSE)
    BY <1>4, <1>6, <2>1, KeptFacts, UndoGoesOn DEF Kept, WellFormed, Stored
  <2>3. ASSUME todo' = <<>>, Done PROVE Return(TRUE)
    BY <2>3 DEF Done
  <2> QED
    BY <1>1, <1>2, <1>3, <1>6, <2>2, <2>3, UndoPolicyReturning
<1> QED
  BY <1>3, <1>5, <1>6

-----------------------------------------------------------------------------
\* The call c, begun on the books b, has the statements t left.
AddRuns(c, t, b, now) ==
  \E desc \in Descriptions, balance \in Openings :
    /\ b.cycle.nextId < MaxEntry /\ b.daily.nextId + 1 <= MaxRecord
    /\ c = [op |-> "add", id |-> b.cycle.nextId]
    /\ AddAt(b, desc, balance, t, now)

\* The records callers of update ask for, with a status and without.
Sign(value) == IF value < 0 THEN "EXPENSE" ELSE "INCOME"
Updates == {NewRecord(value, desc, status) :
              value \in Values, desc \in Descriptions, status \in GivenStatus}
           \cup {NewRecord(value, desc, Sign(value)) :
                   value \in Values, desc \in Descriptions}

UpdateRuns(c, t, b, now) ==
  \E id \in EntryId, record \in Updates : \E s :
    /\ b.daily.nextId + 1 <= MaxRecord
    /\ c = [op |-> "update", id |-> id]
    /\ t = <<s>> /\ UpdateAt(b, id, record, s, now)

RemoveRuns(c, t, b, now) ==
  \E id \in EntryId : c = [op |-> "remove", id |-> id] /\ RemoveAt(b, id, t, now)

UndoRuns(c, t, b, now) ==
  \E id \in EntryId : c = [op |-> "undo", id |-> id] /\ UndoAt(b, id, t, <<>>, now)

ApplyRuns(c, t, b, now, rows) ==
  \E pid \in PolicyId \cap DOMAIN rows :
    /\ rows[pid].source \in DOMAIN b.cycle.rows
    /\ b.daily.nextId + 2 <= MaxRecord
    /\ c = [op |-> "applyPolicy", id |-> pid]
    /\ ApplyAt(b, rows[pid], t, now)

UndoPolicyRuns(c, t, b, now, rows) ==
  \E pid \in PolicyId \cap DOMAIN rows :
    c = [op |-> "undoPolicy", id |-> pid] /\ UndoPolicyAt(b, rows[pid], t, now)

Runs(c, t, b, now, rows) ==
  \/ AddRuns(c, t, b, now) \/ UpdateRuns(c, t, b, now)
  \/ RemoveRuns(c, t, b, now) \/ UndoRuns(c, t, b, now)
  \/ ApplyRuns(c, t, b, now, rows) \/ UndoPolicyRuns(c, t, b, now, rows)

\* A call has turned the books b into c and replied r.
Made(b, c, r, rows) ==
  \/ \E desc \in Descriptions, balance \in Openings :
       /\ b.cycle.nextId < MaxEntry /\ b.daily.nextId + 1 <= MaxRecord
       /\ c = Added(b, desc, balance) /\ r = Reply("add", b.cycle.nextId, TRUE)
  \/ \E id \in EntryId, record \in Updates :
       /\ b.daily.nextId + 1 <= MaxRecord
       /\ c = Updated(b, id, record)
       /\ r = Reply("update", id, UpdateReturns(b, id, record.desc))
  \/ \E id \in EntryId :
       c = Removed(b, id) /\ r = Reply("remove", id, RemoveReturns(b, id))
  \/ \E id \in EntryId :
       c = Undone(b, id) /\ r = Reply("undo", id, UndoReturns(b, id))
  \/ \E pid \in PolicyId \cap DOMAIN rows :
       /\ rows[pid].source \in DOMAIN b.cycle.rows
       /\ b.daily.nextId + 2 <= MaxRecord
       /\ c = Applied(b, rows[pid])
       /\ r = Reply("applyPolicy", pid, ApplyReturns(b, rows[pid]))
  \/ \E pid \in PolicyId \cap DOMAIN rows :
       /\ c = PolicyUndone(b, rows[pid])
       /\ r = Reply("undoPolicy", pid, PolicyUndoReturns(b, rows[pid]))

\* Every statement leaves the call running or is its last one.
Goes ==
  /\ UNCHANGED <<policy, cut>>
  /\ \/ /\ Runs(call', todo', before', books', policy.rows) /\ todo' # <<>>
        /\ UNCHANGED <<before, reply>>
     \/ /\ Made(before, books', reply', policy.rows) /\ todo' = <<>>
        /\ before' = books'

LEMMA UpdatesAreRecords ==
  ASSUME NEW record \in Updates
  PROVE  /\ record \in Record
         /\ "NEW_ENTRY" \notin GivenStatus => record.status # "NEW_ENTRY"
<1>1. \A value : Sign(value) \in Statuses \ {"NEW_ENTRY"}
  BY DEF Sign, Statuses
<1> QED
  BY <1>1, LedgerAssumption DEF Updates, NewRecord, Record

LEMMA AddGoes ==
  ASSUME IsBooks(before), AddRuns(call, todo, before, books), Work
  PROVE  Goes
<1>1. PICK desc \in Descriptions, balance \in Openings :
        /\ before.cycle.nextId < MaxEntry /\ before.daily.nextId + 1 <= MaxRecord
        /\ call = [op |-> "add", id |-> before.cycle.nextId]
        /\ AddAt(before, desc, balance, todo, books)
  BY DEF AddRuns
<1>2. /\ UNCHANGED <<policy, cut>>
      /\ \/ /\ AddAt(before, desc, balance, todo', books') /\ todo' # <<>>
            /\ UNCHANGED <<reply, call, before>>
         \/ books' = Added(before, desc, balance) /\ todo' = <<>> /\ Return(TRUE)
  BY <1>1, AddGoesOn
<1>3. ASSUME AddAt(before, desc, balance, todo', books'), UNCHANGED <<reply, call, before>>
      PROVE  AddRuns(call', todo', before', books')
  BY <1>1, <1>3 DEF AddRuns
<1>4. ASSUME books' = Added(before, desc, balance), Return(TRUE)
      PROVE  Made(before, books', reply', policy.rows) /\ before' = books'
  BY <1>1, <1>4 DEF Made, Return
<1> QED
  BY <1>2, <1>3, <1>4 DEF Goes, Runs

LEMMA UpdateGoes ==
  ASSUME IsBooks(before), UpdateRuns(call, todo, before, books), Work
  PROVE  Goes
<1> DEFINE Under(id, record, s) ==
             /\ before.daily.nextId + 1 <= MaxRecord
             /\ call = [op |-> "update", id |-> id]
             /\ todo = <<s>> /\ UpdateAt(before, id, record, s, books)
<1>0. PICK id \in EntryId, record \in Updates : \E s : Under(id, record, s)
  BY DEF UpdateRuns
<1>1. PICK s : Under(id, record, s)
  BY <1>0
<1>2. Head(todo) = s /\ Tail(todo) = <<>>
  BY <1>1
<1>3. \/ \E t : UpdateAt(before, id, record, t, books') /\ Proceed(<<t>>)
      \/ /\ UpdateReturns(before, id, record.desc)
         /\ books' = Updated(before, id, record) /\ Proceed(<<>>)
      \/ /\ ~UpdateReturns(before, id, record.desc)
         /\ books' = Updated(before, id, record) /\ Throw
  BY <1>1, <1>2, UpdateGoesOn, UpdatesAreRecords
<1>4. ASSUME NEW t, UpdateAt(before, id, record, t, books'), Proceed(<<t>>)
      PROVE  Goes
  <2>1. todo' = <<t>>
    <3>1. todo' = <<t>> \o Tail(todo)
      BY <1>4 DEF Proceed
    <3>2. <<t>> \o <<>> = <<t>>
      OBVIOUS
    <3> QED
      BY <1>2, <3>1, <3>2
  <2>2. todo' # <<>>
    BY <2>1
  <2>3. UNCHANGED <<policy, cut, reply, call, before>>
    BY <1>4, <2>2 DEF Proceed
  <2>4. UpdateRuns(call', todo', before', books')
    BY <1>1, <1>4, <2>1, <2>3 DEF UpdateRuns
  <2> QED
    BY <2>2, <2>3, <2>4 DEF Goes, Runs
<1>5. ASSUME books' = Updated(before, id, record), NEW returns,
             returns <=> UpdateReturns(before, id, record.desc), Return(returns)
      PROVE  Made(before, books', reply', policy.rows) /\ before' = books'
  <2>1. reply' = Reply("update", id, UpdateReturns(before, id, record.desc))
    BY <1>1, <1>5 DEF Return, Reply
  <2> QED
    BY <1>1, <1>5, <2>1 DEF Made, Return
<1>6. ASSUME Proceed(<<>>)
      PROVE  UNCHANGED <<policy, cut>> /\ todo' = <<>> /\ Return(TRUE)
  <2>1. todo' = <<>> \o Tail(todo)
    BY <1>6 DEF Proceed
  <2>2. todo' = <<>>
    BY <1>2, <2>1
  <2> QED
    BY <1>6, <2>2 DEF Proceed
<1> QED
  BY <1>3, <1>4, <1>5, <1>6 DEF Goes, Throw

LEMMA RemoveGoes ==
  ASSUME IsBooks(before), RemoveRuns(call, todo, before, books), Work
  PROVE  Goes
<1>1. PICK id \in EntryId :
        call = [op |-> "remove", id |-> id] /\ RemoveAt(before, id, todo, books)
  BY DEF RemoveRuns
<1>2. /\ UNCHANGED <<policy, cut>>
      /\ \/ /\ RemoveAt(before, id, todo', books') /\ todo' # <<>>
            /\ UNCHANGED <<reply, call, before>>
         \/ /\ books' = Removed(before, id) /\ todo' = <<>>
            /\ Return(RemoveReturns(before, id))
  BY <1>1, RemoveGoesOn
<1>3. ASSUME RemoveAt(before, id, todo', books'), UNCHANGED <<reply, call, before>>
      PROVE  RemoveRuns(call', todo', before', books')
  BY <1>1, <1>3 DEF RemoveRuns
<1>4. ASSUME books' = Removed(before, id), Return(RemoveReturns(before, id))
      PROVE  Made(before, books', reply', policy.rows) /\ before' = books'
  BY <1>1, <1>4 DEF Made, Return
<1> QED
  BY <1>2, <1>3, <1>4 DEF Goes, Runs

LEMMA UndoGoes ==
  ASSUME IsBooks(before), Stored(before), UndoRuns(call, todo, before, books), Work
  PROVE  Goes
<1>1. PICK id \in EntryId :
        call = [op |-> "undo", id |-> id] /\ UndoAt(before, id, todo, <<>>, books)
  BY DEF UndoRuns
<1>2. /\ UNCHANGED <<policy, cut>>
      /\ \/ /\ UndoAt(before, id, todo', <<>>, books') /\ todo' # <<>>
            /\ UNCHANGED <<reply, call, before>>
         \/ /\ UndoReturns(before, id) /\ books' = Undone(before, id)
            /\ todo' = <<>> /\ Done
         \/ /\ ~UndoReturns(before, id) /\ books' = Undone(before, id)
            /\ todo' = <<>> /\ Return(FALSE)
  <2>1. AtMostOne(<<>>)
    BY DEF AtMostOne
  <2> QED
    BY <1>1, <2>1, UndoGoesOn
<1>3. ASSUME UndoAt(before, id, todo', <<>>, books'), UNCHANGED <<reply, call, before>>
      PROVE  UndoRuns(call', todo', before', books')
  BY <1>1, <1>3 DEF UndoRuns
<1>4. ASSUME books' = Undone(before, id), NEW returns,
             returns <=> UndoReturns(before, id), Return(returns)
      PROVE  Made(before, books', reply', policy.rows) /\ before' = books'
  <2>1. reply' = Reply("undo", id, UndoReturns(before, id))
    BY <1>1, <1>4 DEF Return, Reply
  <2> QED
    BY <1>1, <1>4, <2>1 DEF Made, Return
<1> QED
  BY <1>2, <1>3, <1>4 DEF Goes, Runs, Done

LEMMA ApplyGoes ==
  ASSUME WellFormed(before), IsTable(policy, Policy),
         ApplyRuns(call, todo, before, books, policy.rows), Work
  PROVE  Goes
<1>1. PICK pid \in PolicyId \cap DOMAIN policy.rows :
        /\ policy.rows[pid].source \in DOMAIN before.cycle.rows
        /\ before.daily.nextId + 2 <= MaxRecord
        /\ call = [op |-> "applyPolicy", id |-> pid]
        /\ ApplyAt(before, policy.rows[pid], todo, books)
  BY DEF ApplyRuns
<1> DEFINE p == policy.rows[pid]
<1>2. p \in Policy
  BY DEF IsTable, IsRows
<1>3. /\ UNCHANGED <<policy, cut>>
      /\ \/ /\ ApplyAt(before, p, todo', books') /\ todo' # <<>>
            /\ UNCHANGED <<reply, call, before>>
         \/ /\ books' = Applied(before, p) /\ todo' = <<>>
            /\ Return(ApplyReturns(before, p))
  BY <1>1, <1>2, ApplyGoesOn
<1>4. ASSUME ApplyAt(before, p, todo', books'), UNCHANGED <<policy, reply, call, before>>
      PROVE  ApplyRuns(call', todo', before', books', policy.rows)
  BY <1>1, <1>4 DEF ApplyRuns
<1>5. ASSUME books' = Applied(before, p), Return(ApplyReturns(before, p))
      PROVE  Made(before, books', reply', policy.rows) /\ before' = books'
  BY <1>1, <1>5 DEF Made, Return
<1> QED
  BY <1>3, <1>4, <1>5 DEF Goes, Runs

LEMMA UndoPolicyGoes ==
  ASSUME Kept(before), UndoPolicyRuns(call, todo, before, books, policy.rows), Work
  PROVE  Goes
<1>1. PICK pid \in PolicyId \cap DOMAIN policy.rows :
        /\ call = [op |-> "undoPolicy", id |-> pid]
        /\ UndoPolicyAt(before, policy.rows[pid], todo, books)
  BY DEF UndoPolicyRuns
<1> DEFINE p == policy.rows[pid]
<1>2. /\ UNCHANGED <<policy, cut>>
      /\ \/ /\ UndoPolicyAt(before, p, todo', books') /\ todo' # <<>>
            /\ UNCHANGED <<reply, call, before>>
         \/ /\ books' = PolicyUndone(before, p) /\ todo' = <<>>
            /\ Return(PolicyUndoReturns(before, p))
  BY <1>1, UndoPolicyGoesOn
<1>3. ASSUME UndoPolicyAt(before, p, todo', books'), UNCHANGED <<reply, call, before>>
      PROVE  UndoPolicyRuns(call', todo', before', books', policy.rows)
  BY <1>1, <1>3 DEF UndoPolicyRuns
<1>4. ASSUME books' = PolicyUndone(before, p), Return(PolicyUndoReturns(before, p))
      PROVE  Made(before, books', reply', policy.rows) /\ before' = books'
  BY <1>1, <1>4 DEF Made, Return
<1> QED
  BY <1>2, <1>3, <1>4 DEF Goes, Runs

LEMMA WorkGoes ==
  ASSUME Kept(before), IsTable(policy, Policy),
         Runs(call, todo, before, books, policy.rows), Work
  PROVE  Goes
BY KeptFacts, AddGoes, UpdateGoes, RemoveGoes, UndoGoes, ApplyGoes, UndoPolicyGoes
DEF Runs, Kept, WellFormed, Stored

\* What a call makes of the books is a step of the ledger.
LEMMA MadeIsCall ==
  ASSUME NEW b, NEW c, NEW r, IsTable(policy, Policy), Made(b, c, r, policy.rows)
  PROVE  CallOf(b, c)
<1>1. \A pid \in DOMAIN policy.rows : policy.rows[pid] \in Policy
  BY DEF IsTable, IsRows
<1>2. Openings \subseteq Money
  BY LedgerAssumption
<1> QED
  BY <1>1, <1>2, UpdatesAreRecords DEF Made, CallOf

-----------------------------------------------------------------------------
\* The books the ledger sees: while a call runs, those it found.
Seen == IF Idle THEN books ELSE before

LEMMA MadeIsStep ==
  ASSUME NEW b, NEW c, Seen = b, Seen' = c, UNCHANGED policy,
         Made(b, c, reply', policy.rows), c.damage \subseteq Flaws
  PROVE  Whole!Next
<1>1. (IF Idle THEN books ELSE before) = b /\ (IF Idle THEN books ELSE before)' = c
  BY DEF Seen
<1>2. \A op, id, returns : Whole!Reply(op, id, returns) = Reply(op, id, returns)
  BY DEF Whole!Reply, Reply
<1>3. ASSUME NEW desc \in Descriptions, NEW balance \in Openings,
             b.cycle.nextId < MaxEntry, b.daily.nextId + 1 <= MaxRecord,
             c = Added(b, desc, balance), reply' = Reply("add", b.cycle.nextId, TRUE)
      PROVE  Whole!Next
  <2>1. Whole!Added(b, desc, balance) = Added(b, desc, balance)
    BY SameCalls
  <2>2. Whole!Add(desc, balance)
    BY <1>1, <1>2, <1>3, <2>1 DEF Whole!Add, Whole!RoomFor, Whole!WithinFlaws
  <2> QED
    BY <2>2 DEF Whole!Next
<1>4. ASSUME NEW id \in EntryId, NEW record \in Updates,
             b.daily.nextId + 1 <= MaxRecord, c = Updated(b, id, record),
             reply' = Reply("update", id, UpdateReturns(b, id, record.desc))
      PROVE  Whole!Next
  <2>1. \A value, desc, status :
          /\ record = NewRecord(value, desc, status)
          => Whole!UpdateAs(id, value, desc, status)
    <3> SUFFICES ASSUME NEW value, NEW desc, NEW status,
                        record = NewRecord(value, desc, status)
                 PROVE  Whole!UpdateAs(id, value, desc, status)
      OBVIOUS
    <3>1. record.desc = desc
      BY DEF NewRecord
    <3>2. Whole!Updated(b, id, Whole!NewRecord(value, desc, status)) = c
      BY <1>4, SameCalls, SameParts
    <3>3. Whole!Reply("update", id, Whole!UpdateReturns(b, id, desc)) = reply'
      <4>1. Whole!UpdateReturns(b, id, desc) <=> UpdateReturns(b, id, desc)
        BY SameCalls
      <4> QED
        BY <1>4, <3>1, <4>1 DEF Whole!Reply, Reply
    <3> QED
      BY <1>1, <1>4, <3>2, <3>3
      DEF Whole!UpdateAs, Whole!RoomFor, Whole!WithinFlaws
  <2>2. CASE \E value \in Values, desc \in Descriptions, status \in GivenStatus :
               record = NewRecord(value, desc, status)
    BY <2>1, <2>2 DEF Whole!Next, Whole!EntryId, EntryId
  <2>3. CASE \E value \in Values, desc \in Descriptions :
               record = NewRecord(value, desc, Sign(value))
    BY <2>1, <2>3 DEF Whole!Next, Whole!EntryId, EntryId, Whole!Update, Sign
  <2> QED
    BY <2>2, <2>3 DEF Updates
<1>5. ASSUME NEW id \in EntryId, c = Removed(b, id),
             reply' = Reply("remove", id, RemoveReturns(b, id))
      PROVE  Whole!Next
  <2>1. Whole!Removed(b, id) = Removed(b, id)
    BY SameCalls
  <2>2. Whole!Reply("remove", id, Whole!RemoveReturns(b, id)) = reply'
    <3>1. Whole!RemoveReturns(b, id) <=> RemoveReturns(b, id)
      BY SameCalls
    <3> QED
      BY <1>5, <3>1 DEF Whole!Reply, Reply
  <2>3. Whole!Remove(id)
    BY <1>1, <1>5, <2>1, <2>2 DEF Whole!Remove, Whole!WithinFlaws
  <2> QED
    BY <2>3 DEF Whole!Next, Whole!EntryId, EntryId
<1>6. ASSUME NEW id \in EntryId, c = Undone(b, id),
             reply' = Reply("undo", id, UndoReturns(b, id))
      PROVE  Whole!Next
  <2>1. Whole!Undone(b, id) = Undone(b, id)
    BY SameCalls
  <2>2. Whole!Reply("undo", id, Whole!UndoReturns(b, id)) = reply'
    <3>1. Whole!UndoReturns(b, id) <=> UndoReturns(b, id)
      BY SameCalls
    <3> QED
      BY <1>6, <3>1 DEF Whole!Reply, Reply
  <2>3. Whole!Undo(id)
    BY <1>1, <1>6, <2>1, <2>2 DEF Whole!Undo, Whole!WithinFlaws
  <2> QED
    BY <2>3 DEF Whole!Next, Whole!EntryId, EntryId
<1>7. ASSUME NEW pid \in PolicyId \cap DOMAIN policy.rows,
             policy.rows[pid].source \in DOMAIN b.cycle.rows,
             b.daily.nextId + 2 <= MaxRecord, c = Applied(b, policy.rows[pid]),
             reply' = Reply("applyPolicy", pid, ApplyReturns(b, policy.rows[pid]))
      PROVE  Whole!Next
  <2> DEFINE p == policy.rows[pid]
  <2>1. Whole!Applied(b, p) = Applied(b, p)
    BY SamePolicyCalls
  <2>2. Whole!Reply("applyPolicy", pid, Whole!ApplyReturns(b, p)) = reply'
    <3>1. Whole!ApplyReturns(b, p) <=> ApplyReturns(b, p)
      BY SamePolicyCalls
    <3> QED
      BY <1>7, <3>1 DEF Whole!Reply, Reply
  <2>3. Whole!ApplyPolicy(pid)
    BY <1>1, <1>7, <2>1, <2>2 DEF Whole!ApplyPolicy, Whole!RoomFor, Whole!WithinFlaws
  <2> QED
    BY <2>3 DEF Whole!Next, Whole!PolicyId, PolicyId
<1>8. ASSUME NEW pid \in PolicyId \cap DOMAIN policy.rows,
             c = PolicyUndone(b, policy.rows[pid]),
             reply' = Reply("undoPolicy", pid, PolicyUndoReturns(b, policy.rows[pid]))
      PROVE  Whole!Next
  <2> DEFINE p == policy.rows[pid]
  <2>1. Whole!PolicyUndone(b, p) = PolicyUndone(b, p)
    BY SamePolicyCalls
  <2>2. Whole!Reply("undoPolicy", pid, Whole!PolicyUndoReturns(b, p)) = reply'
    <3>1. Whole!PolicyUndoReturns(b, p) <=> PolicyUndoReturns(b, p)
      BY SamePolicyCalls
    <3> QED
      BY <1>8, <3>1 DEF Whole!Reply, Reply
  <2>3. Whole!UndoPolicy(pid)
    BY <1>1, <1>8, <2>1, <2>2 DEF Whole!UndoPolicy, Whole!WithinFlaws
  <2> QED
    BY <2>3 DEF Whole!Next, Whole!PolicyId, PolicyId
<1> QED
  BY <1>3, <1>4, <1>5, <1>6, <1>7, <1>8 DEF Made

-----------------------------------------------------------------------------
\* The invariant: until a crash the books are those of the ledger between
\* calls, and during one they are what its statements so far have made of them.
CutIsCrash ==
  \/ cut = Uncut
  \/ /\ cut = [op |-> cut.op, do |-> cut.do, id |-> cut.id, after |-> cut.after]
     /\ cut.op # "none"

InStep ==
  /\ IsTable(policy, Policy) /\ policy.count >= 0
  /\ IF Idle THEN WellFormed(books) /\ OrderUntilDamage
     ELSE InOrder(before) /\ Runs(call, todo, before, books, policy.rows)

StepsInv == CutIsCrash /\ (~Crashed => InStep)

AllFlaws == {"cycle", "daily", "undo", "remove"}

LEMMA CallIsWellFormed ==
  ASSUME NEW b, WellFormed(b), NEW c, CallOf(b, c)
  PROVE  WellFormed(c)
<1>1. ASSUME NEW desc \in Descriptions, NEW balance \in Money, c = Added(b, desc, balance)
      PROVE  WellFormed(c)
  BY <1>1, AddedFacts DEF Keeps, WellFormed
<1>2. ASSUME NEW id \in EntryId, NEW record \in Record, c = Updated(b, id, record)
      PROVE  WellFormed(c)
  BY <1>2, UpdatedFacts DEF Keeps, WellFormed
<1>3. ASSUME NEW id \in EntryId, c = Removed(b, id) PROVE WellFormed(c)
  <2>1. id \in Nat
    BY LedgerAssumption DEF EntryId
  <2> QED
    BY <1>3, <2>1, RemovedFacts DEF Keeps, WellFormed
<1>4. ASSUME NEW id \in EntryId, c = Undone(b, id) PROVE WellFormed(c)
  BY <1>4, UndoneFacts DEF Keeps, WellFormed
<1>5. ASSUME NEW p \in Policy, p.source \in DOMAIN b.cycle.rows, c = Applied(b, p)
      PROVE  WellFormed(c)
  BY <1>5, AppliedFacts
<1>6. ASSUME NEW p \in Policy, c = PolicyUndone(b, p) PROVE WellFormed(c)
  BY <1>6, PolicyUndoneFacts
<1>7. WellFormed(Reopened(b))
  BY ReopenedFacts DEF Keeps, WellFormed
<1> QED
  BY <1>1, <1>2, <1>3, <1>4, <1>5, <1>6, <1>7 DEF CallOf

\* After a call the books are those of the ledger.
LEMMA CallLeavesOrder ==
  ASSUME NEW b, WellFormed(b), b.damage = {} => InOrder(b), CallOf(b, books')
  PROVE  WellFormed(books') /\ OrderUntilDamage' /\ books'.damage \subseteq AllFlaws
<1>1. WellFormed(books')
  BY CallIsWellFormed
<1>2. books'.damage \subseteq AllFlaws
  BY <1>1 DEF WellFormed, IsBooks, AllFlaws
<1>3. ASSUME books'.damage = {} PROVE InOrder(books')
  <2>1. b.damage = {}
    BY <1>3, CallKeepsDamage
  <2> QED
    BY <1>3, <2>1, CallKeepsOrder
<1> QED
  BY <1>1, <1>2, <1>3 DEF OrderUntilDamage

LEMMA WhoRuns ==
  ASSUME NEW c, NEW t, NEW b, NEW now, NEW rows, Runs(c, t, b, now, rows)
  PROVE  c.op # "none"
BY DEF Runs, AddRuns, UpdateRuns, RemoveRuns, UndoRuns, ApplyRuns, UndoPolicyRuns

\* A crash is never forgotten, nor where it fell.
CutKept ==
  /\ CutIsCrash'
  /\ Crashed => Crashed' /\ cut'.do = cut.do /\ cut'.id = cut.id

LEMMA CutStays ==
  ASSUME StepsInv, StepsNext
  PROVE  CutKept
<1>1. ASSUME UNCHANGED cut PROVE CutKept
  BY <1>1 DEF StepsInv, CutIsCrash, CutKept, Crashed, Uncut, Cut
<1>2. ASSUME NEW op, NEW id, NEW statements, Begin(op, id, statements)
      PROVE  CutKept
  <2>1. CASE ~Crashed
    BY <1>1, <1>2, <2>1 DEF Begin
  <2>2. CASE Crashed
    <3>1. /\ cut = [op |-> cut.op, do |-> cut.do, id |-> cut.id, after |-> cut.after]
          /\ cut.op # "none"
      BY <2>2 DEF StepsInv, CutIsCrash, Crashed
    <3>2. cut' = [cut EXCEPT !.after = @ + 1]
      BY <1>2, <2>2 DEF Begin
    <3> DEFINE n == cut.after + 1
    <3>3. cut' = [cut EXCEPT !.after = n]
      BY <3>2
    <3> HIDE DEF n
    <3>4. cut' = [op |-> cut.op, do |-> cut.do, id |-> cut.id, after |-> n]
      BY <3>1, <3>3
    <3>5. cut' = [op |-> cut'.op, do |-> cut'.do, id |-> cut'.id, after |-> cut'.after]
          /\ cut'.op # "none" /\ cut'.do = cut.do /\ cut'.id = cut.id
      BY <3>1, <3>4
    <3> QED
      BY <3>5 DEF CutIsCrash, CutKept, Crashed, Uncut, Cut
  <2> QED
    BY <2>1, <2>2
<1>3. ASSUME Crash PROVE CutKept
  <2>1. call.op # "none"
    BY <1>3, WhoRuns DEF Crash, StepsInv, InStep
  <2>2. cut' = [op |-> call.op, do |-> Head(todo).do, id |-> Head(todo).id, after |-> 0]
    BY <1>3 DEF Crash, Cut
  <2>3. cut' = [op |-> cut'.op, do |-> cut'.do, id |-> cut'.id, after |-> cut'.after]
        /\ cut'.op # "none"
    BY <2>1, <2>2
  <2> QED
    BY <1>3, <2>3 DEF Crash, CutIsCrash, CutKept
<1>4. ASSUME Work PROVE UNCHANGED cut
  BY <1>4 DEF Work, InsertEntry, InsertEntryId, CreateRecords, InsertRecord, NameRecord,
    UpdateRow, DeleteEntry, DeleteRecords, DropRecords, DeleteEntryId, DeleteRecord,
    DeleteNoRecord, UnnameRecord, RollBackRow, Proceed, Throw
<1>5. ASSUME NEW p, CreatePolicyStep(p) PROVE UNCHANGED cut
  BY <1>5 DEF CreatePolicyStep, progress
<1>6. ASSUME NEW pid, DeletePolicyStep(pid) \/ PolicyCallFailsStep(pid)
      PROVE  UNCHANGED cut
  BY <1>6 DEF DeletePolicyStep, PolicyCallFailsStep, progress
<1>7. ASSUME ReopenStep PROVE UNCHANGED cut
  BY <1>7 DEF ReopenStep
<1>8. ASSUME NEW pid, BeginApplyPolicy(pid) \/ BeginUndoPolicy(pid)
      PROVE  CutKept
  BY <1>2, <1>8 DEF BeginApplyPolicy, BeginUndoPolicy
<1>9. ASSUME NEW id, BeginRemove(id) \/ BeginUndo(id)
      PROVE  CutKept
  BY <1>2, <1>9 DEF BeginRemove, BeginUndo
<1>10. ASSUME NEW desc, NEW balance, BeginAdd(desc, balance)
       PROVE  CutKept
  BY <1>2, <1>10 DEF BeginAdd
<1>11. ASSUME NEW desc, NEW id, NEW value, NEW status, BeginUpdateAs(id, value, desc, status)
       PROVE  CutKept
  BY <1>2, <1>11 DEF BeginUpdateAs
<1> QED
  BY <1>1, <1>3, <1>4, <1>5, <1>6, <1>7, <1>8, <1>9, <1>10, <1>11
  DEF StepsNext, Work, BeginUpdate

\* A call begins, with all its statements left.
BeginCall ==
  \/ \E desc \in Descriptions, balance \in Openings : BeginAdd(desc, balance)
  \/ \E id \in EntryId, value \in Values, desc \in Descriptions :
       BeginUpdate(id, value, desc)
  \/ \E id \in EntryId, value \in Values, desc \in Descriptions,
        status \in GivenStatus : BeginUpdateAs(id, value, desc, status)
  \/ \E id \in EntryId : BeginRemove(id) \/ BeginUndo(id)
  \/ \E pid \in PolicyId : BeginApplyPolicy(pid) \/ BeginUndoPolicy(pid)

Begun ==
  \E op, id, t : /\ Begin(op, id, t) /\ t # <<>>
                 /\ Runs([op |-> op, id |-> id], t, books, books, policy.rows)

LEMMA BeginIsBegun == BeginCall => Begun
<1>1. ASSUME NEW desc \in Descriptions, NEW balance \in Openings, BeginAdd(desc, balance)
      PROVE  Begun
  <2> DEFINE id == books.cycle.nextId
  <2> DEFINE t == <<Put("InsertEntry", id, NewRecord(balance, desc, "NEW_ENTRY"))>>
  <2>1. Begin("add", id, t) /\ id < MaxEntry /\ books.daily.nextId + 1 <= MaxRecord
    BY <1>1 DEF BeginAdd, RoomFor
  <2>2. AddAt(books, desc, balance, t, books) /\ t # <<>>
    BY DEF AddAt
  <2> HIDE DEF t
  <2>3. Runs([op |-> "add", id |-> id], t, books, books, policy.rows)
    BY <2>1, <2>2 DEF Runs, AddRuns
  <2> QED
    BY <2>1, <2>2, <2>3, Zenon DEF Begun
<1>2. ASSUME NEW id \in EntryId, NEW value, NEW desc, NEW status,
             NewRecord(value, desc, status) \in Updates,
             BeginUpdateAs(id, value, desc, status)
      PROVE  Begun
  <2> DEFINE record == NewRecord(value, desc, status)
  <2> DEFINE s == Put("UpdateRow", id, record)
  <2> DEFINE t == <<s>>
  <2>1. Begin("update", id, t) /\ books.daily.nextId + 1 <= MaxRecord
    BY <1>2 DEF BeginUpdateAs, RoomFor
  <2>2. UpdateAt(books, id, record, s, books) /\ t # <<>>
    BY DEF UpdateAt
  <2>3. Runs([op |-> "update", id |-> id], t, books, books, policy.rows)
    <3> HIDE DEF record, s
    <3> QED
      BY <1>2, <2>1, <2>2 DEF Runs, UpdateRuns, record
  <2> HIDE DEF t
  <2> QED
    BY <2>1, <2>2, <2>3, Zenon DEF Begun
<1>3. ASSUME NEW id \in EntryId, BeginRemove(id)
      PROVE  Begun
  <2> DEFINE t == <<Do("DeleteEntry", id)>>
  <2>1. Begin("remove", id, t)
    BY <1>3 DEF BeginRemove
  <2>2. RemoveAt(books, id, t, books) /\ t # <<>>
    BY DEF RemoveAt
  <2> HIDE DEF t
  <2>3. Runs([op |-> "remove", id |-> id], t, books, books, policy.rows)
    BY <2>2 DEF Runs, RemoveRuns
  <2> QED
    BY <2>1, <2>2, <2>3, Zenon DEF Begun
<1>4. ASSUME NEW id \in EntryId, BeginUndo(id)
      PROVE  Begun
  <2> DEFINE t == <<Do("DeleteRecord", id)>>
  <2>1. Begin("undo", id, t) /\ t # <<>> /\ t \o <<>> = t
    BY <1>4 DEF BeginUndo
  <2>2. UndoAt(books, id, t, <<>>, books)
    BY <2>1 DEF UndoAt
  <2> HIDE DEF t
  <2>3. Runs([op |-> "undo", id |-> id], t, books, books, policy.rows)
    BY <2>2 DEF Runs, UndoRuns
  <2> QED
    BY <2>1, <2>2, <2>3, Zenon DEF Begun
<1>5. ASSUME NEW pid \in PolicyId, BeginApplyPolicy(pid)
      PROVE  Begun
  <2> DEFINE p == policy.rows[pid]
  <2> DEFINE s == Put("UpdateRow", p.source, Debit(books, p))
  <2> DEFINE next == Put("UpdateRow", p.destination, Credit(books, p))
  <2> DEFINE t == <<s, next>>
  <2>1. /\ pid \in DOMAIN policy.rows /\ p.source \in DOMAIN books.cycle.rows
        /\ books.daily.nextId + 2 <= MaxRecord
        /\ Begin("applyPolicy", pid, t)
    BY <1>5 DEF BeginApplyPolicy, RoomFor, Debit, Credit
  <2>2. UpdateAt(books, p.source, Debit(books, p), s, books)
    BY DEF UpdateAt
  <2>3. ApplyAt(books, p, t, books)
    <3> HIDE DEF s
    <3> QED
      BY <2>2 DEF ApplyAt
  <2>4. t # <<>>
    OBVIOUS
  <2> HIDE DEF t
  <2>5. Runs([op |-> "applyPolicy", id |-> pid], t, books, books, policy.rows)
    BY <2>1, <2>3 DEF Runs, ApplyRuns
  <2> QED
    BY <2>1, <2>4, <2>5, Zenon DEF Begun
<1>6. ASSUME NEW pid \in PolicyId, BeginUndoPolicy(pid)
      PROVE  Begun
  <2> DEFINE p == policy.rows[pid]
  <2> DEFINE s == Do("DeleteRecord", p.source)
  <2> DEFINE next == Do("DeleteRecord", p.destination)
  <2> DEFINE t == <<s, next>>
  <2>1. pid \in DOMAIN policy.rows /\ Begin("undoPolicy", pid, t)
    BY <1>6 DEF BeginUndoPolicy
  <2>2. t = <<s>> \o <<next>>
    <3> HIDE DEF s, next
    <3> QED
      BY OneAndOne
  <2>3. UndoPolicyAt(books, p, t, books)
    <3> HIDE DEF t
    <3> QED
      BY <2>2 DEF UndoPolicyAt, UndoAt
  <2>4. t # <<>>
    OBVIOUS
  <2> HIDE DEF t
  <2>5. Runs([op |-> "undoPolicy", id |-> pid], t, books, books, policy.rows)
    BY <2>1, <2>3 DEF Runs, UndoPolicyRuns
  <2> QED
    BY <2>1, <2>4, <2>5, Zenon DEF Begun
<1>7. \A value \in Values, desc \in Descriptions :
        /\ NewRecord(value, desc, Sign(value)) \in Updates
        /\ \A status \in GivenStatus : NewRecord(value, desc, status) \in Updates
  BY DEF Updates
<1> QED
  BY <1>1, <1>2, <1>3, <1>4, <1>5, <1>6, <1>7 DEF BeginCall, BeginUpdate, Sign

\* A call that begins finds the books as the ledger has them.
LEMMA BeginRuns ==
  ASSUME InStep, BeginCall
  PROVE  InStep' /\ UNCHANGED <<Seen, policy, reply>>
<1>0. PICK op, id, t : /\ Begin(op, id, t) /\ t # <<>>
                       /\ Runs([op |-> op, id |-> id], t, books, books, policy.rows)
  BY BeginIsBegun DEF Begun
<1>1. /\ Idle /\ ~Idle' /\ before' = books /\ UNCHANGED <<books, policy, reply>>
      /\ call' = [op |-> op, id |-> id] /\ todo' = t
  BY <1>0 DEF Begin, Idle, vars
<1>2. InOrder(books)
  BY <1>0, <1>1 DEF InStep, OrderUntilDamage, Begin
<1> QED
  BY <1>0, <1>1, <1>2 DEF InStep, Seen

LEMMA WorkImplements ==
  ASSUME InStep, Work, Crashed' <=> Crashed, ~Crashed
  PROVE  /\ InStep'
         /\ AllFlaws \subseteq Flaws => Whole!Next \/ UNCHANGED <<Seen, policy, reply>>
<1>1. /\ ~Idle /\ InOrder(before) /\ Runs(call, todo, before, books, policy.rows)
  BY WhichStatement DEF InStep, Idle
<1>2. Kept(before) /\ WellFormed(before) /\ IsTable(policy, Policy)
  BY <1>1 DEF InOrder, Kept, InStep
<1>3. Goes
  BY <1>1, <1>2, WorkGoes
<1>4. CASE /\ Runs(call', todo', before', books', policy.rows) /\ todo' # <<>>
           /\ UNCHANGED <<before, reply>>
  <2>1. ~Idle' /\ UNCHANGED policy
    BY <1>3, <1>4 DEF Idle, Goes
  <2>2. InStep'
    BY <1>1, <1>4, <2>1 DEF InStep
  <2>3. UNCHANGED <<Seen, policy, reply>>
    BY <1>1, <1>4, <2>1 DEF Seen
  <2> QED
    BY <2>2, <2>3
<1>5. CASE /\ Made(before, books', reply', policy.rows) /\ todo' = <<>>
           /\ before' = books'
  <2>1. Idle' /\ UNCHANGED policy
    BY <1>3, <1>5 DEF Idle, Goes
  <2>2. CallOf(before, books')
    BY <1>2, <1>5, MadeIsCall
  <2>3. WellFormed(books') /\ OrderUntilDamage' /\ books'.damage \subseteq AllFlaws
    BY <1>1, <1>2, <2>2, CallLeavesOrder
  <2>4. InStep'
    BY <2>1, <2>3 DEF InStep
  <2>5. Seen = before /\ Seen' = books'
    BY <1>1, <2>1 DEF Seen
  <2>6. AllFlaws \subseteq Flaws => Whole!Next
    BY <1>5, <2>1, <2>3, <2>5, MadeIsStep
  <2> QED
    BY <2>4, <2>6
<1> QED
  BY <1>3, <1>4, <1>5 DEF Goes

\* Calls of one statement, and reopening.
LEMMA OtherImplements ==
  ASSUME InStep,
         \/ \E p \in Policy : CreatePolicyStep(p)
         \/ \E pid \in PolicyId : DeletePolicyStep(pid) \/ PolicyCallFailsStep(pid)
         \/ ReopenStep
  PROVE  InStep' /\ Whole!Next
<1>1. /\ WellFormed(books) /\ OrderUntilDamage /\ Idle
      /\ IsTable(policy, Policy) /\ policy.count >= 0
  BY DEF InStep, CreatePolicyStep, DeletePolicyStep, PolicyCallFailsStep, ReopenStep
<1>2. \A op, id, returns : Whole!Reply(op, id, returns) = Reply(op, id, returns)
  BY DEF Whole!Reply, Reply
<1>3. Whole!Policy = Policy /\ Whole!PolicyId = PolicyId
  BY DEF Whole!Policy, Policy, Whole!PolicyId, PolicyId, Whole!EntryId, EntryId
<1>4. ASSUME Idle', UNCHANGED books
      PROVE  /\ (IF Idle THEN books ELSE before)' = (IF Idle THEN books ELSE before)
             /\ WellFormed(books') /\ OrderUntilDamage'
  BY <1>1, <1>4 DEF OrderUntilDamage
<1>5. ASSUME NEW p \in Policy, CreatePolicyStep(p) PROVE InStep' /\ Whole!Next
  <2>1. CreatePolicy(p) /\ Idle' /\ UNCHANGED books
    BY <1>1, <1>5 DEF CreatePolicyStep, CreatePolicy, progress, Idle
  <2>2. Whole!CreatePolicy(p)
    BY <1>2, <1>4, <2>1, SameTables DEF CreatePolicy, Whole!CreatePolicy
  <2>3. IsTable(policy', Policy) /\ policy'.count >= 0
    BY <1>1, <2>1, AddRowFacts DEF CreatePolicy
  <2>4. InStep'
    BY <1>4, <2>1, <2>3 DEF InStep
  <2> QED
    BY <1>3, <2>2, <2>4 DEF Whole!Next
<1>6. ASSUME NEW pid \in PolicyId, DeletePolicyStep(pid) PROVE InStep' /\ Whole!Next
  <2>1. DeletePolicy(pid) /\ Idle' /\ UNCHANGED books
    BY <1>1, <1>6 DEF DeletePolicyStep, DeletePolicy, progress, Idle
  <2>2. Whole!DeletePolicy(pid)
    BY <1>2, <1>4, <2>1, SameTables DEF DeletePolicy, Whole!DeletePolicy
  <2>3. pid \in Nat
    BY LedgerAssumption DEF PolicyId
  <2>4. IsTable(policy', Policy) /\ policy'.count >= 0
    BY <1>1, <2>1, <2>3, DeleteRowFacts DEF DeletePolicy
  <2>5. InStep'
    BY <1>4, <2>1, <2>4 DEF InStep
  <2> QED
    BY <1>3, <2>2, <2>5 DEF Whole!Next
<1>7. ASSUME NEW pid \in PolicyId, PolicyCallFailsStep(pid) PROVE InStep' /\ Whole!Next
  <2>1. PolicyCallFails(pid) /\ Idle' /\ UNCHANGED <<books, policy>>
    BY <1>1, <1>7 DEF PolicyCallFailsStep, PolicyCallFails, progress, Idle
  <2>2. Whole!PolicyCallFails(pid)
    BY <1>1, <1>2, <1>4, <2>1 DEF PolicyCallFails, Whole!PolicyCallFails
  <2>3. InStep'
    BY <1>1, <1>4, <2>1 DEF InStep
  <2> QED
    BY <1>3, <2>2, <2>3 DEF Whole!Next
<1>8. CASE ReopenStep
  <2>1. Reopen /\ Idle'
    BY <1>1, <1>8 DEF ReopenStep, Idle
  <2>2. (IF Idle THEN books ELSE before) = books
        /\ (IF Idle THEN books ELSE before)' = books'
    BY <1>1, <2>1
  <2>3. Whole!Reopened(books) = Reopened(books)
    BY SameCalls
  <2>4. Whole!Reopen
    BY <1>2, <2>1, <2>2, <2>3, SameTables DEF Reopen, Whole!Reopen
  <2>5. WellFormed(books') /\ OrderUntilDamage'
    BY <1>1, <2>1, CallLeavesOrder DEF Reopen, CallOf, OrderUntilDamage
  <2>6. IsTable(policy', Policy) /\ policy'.count >= 0
    BY <1>1, <2>1, OpenTableFacts DEF Reopen, IsTable
  <2>7. InStep'
    BY <2>1, <2>5, <2>6 DEF InStep
  <2> QED
    BY <2>4, <2>7 DEF Whole!Next
<1> QED
  BY <1>5, <1>6, <1>7, <1>8

LEMMA StepImplements ==
  ASSUME StepsInv, [StepsNext]_stepVars
  PROVE  /\ StepsInv'
         /\ AllFlaws \subseteq Flaws =>
              [~Crashed' => Whole!Next]_<<IF Idle THEN books ELSE before, policy, reply>>
<1>1. CASE UNCHANGED stepVars
  <2>1. UNCHANGED <<books, policy, reply, call, todo, before, cut>>
    BY <1>1 DEF stepVars, vars, progress
  <2>2. UNCHANGED <<Idle, OrderUntilDamage, Crashed, CutIsCrash>>
    BY <2>1 DEF Idle, OrderUntilDamage, Crashed, CutIsCrash
  <2> QED
    BY <2>1, <2>2 DEF StepsInv, InStep
<1>2. CASE StepsNext
  <2>1. CutIsCrash' /\ (Crashed => Crashed')
    BY <1>2, CutStays DEF CutKept
  <2>2. CASE Crashed'
    BY <2>1, <2>2 DEF StepsInv
  <2>3. CASE ~Crashed'
    <3>1. ~Crashed /\ InStep
      BY <2>1, <2>3 DEF StepsInv
    <3>2. /\ InStep'
          /\ AllFlaws \subseteq Flaws => Whole!Next \/ UNCHANGED <<Seen, policy, reply>>
      <4>1. CASE Work
        BY <2>3, <3>1, <4>1, WorkImplements
      <4>2. CASE BeginCall
        BY <3>1, <4>2, BeginRuns
      <4>3. CASE \/ \E p \in Policy : CreatePolicyStep(p)
                 \/ \E pid \in PolicyId :
                      DeletePolicyStep(pid) \/ PolicyCallFailsStep(pid)
                 \/ ReopenStep
        BY <3>1, <4>3, OtherImplements
      <4>4. CASE Crash
        <5>1. cut' = Cut(call.op, Head(todo).do, Head(todo).id) /\ call.op # "none"
          BY <3>1, <4>4, WhoRuns DEF Crash, InStep
        <5> QED
          BY <2>3, <5>1 DEF Crashed, Uncut, Cut
      <4> QED
        BY <1>2, <4>1, <4>2, <4>3, <4>4 DEF StepsNext, Work, BeginCall
    <3> QED
      BY <2>1, <3>2 DEF StepsInv, Seen
  <2> QED
    BY <2>2, <2>3
<1> QED
  BY <1>1, <1>2

LEMMA StepsStart == StepsInit => StepsInv /\ Whole!Init
<1> SUFFICES ASSUME StepsInit PROVE StepsInv /\ Whole!Init
  OBVIOUS
<1>1. Init /\ Idle /\ cut = Uncut
  BY DEF StepsInit, Idle
<1>2. WellFormed(books) /\ IsTable(policy, Policy) /\ policy.count >= 0
  BY <1>1, InitIsWellFormed DEF TypeOK, SameEntries, WellFormed
<1>3. OrderUntilDamage
  BY <1>1, OrderAtStart DEF OrderUntilDamage
<1>4. StepsInv
  BY <1>1, <1>2, <1>3 DEF StepsInv, InStep, CutIsCrash
<1>5. Whole!NoRows = NoRows /\ Whole!Reply("open", 0, TRUE) = Reply("open", 0, TRUE)
  BY DEF Whole!NoRows, NoRows, Whole!Reply, Reply
<1>6. Whole!Init
  BY <1>1, <1>5, SameTables DEF Init, Whole!Init
<1> QED
  BY <1>4, <1>6

\* Until a crash, the statements of every call, executed one by one, together
\* do what Ledger says the call does: whatever is called, whichever flaws
\* strike, and wherever in the call an exception ends it.  Ledger is to allow
\* all flaws, for the statements do.
THEOREM StepsImplementLedger ==
  ASSUME AllFlaws \subseteq Flaws
  PROVE  StepsSpec => ImplementsLedger
<1>1. StepsInv /\ [StepsNext]_stepVars
      => /\ StepsInv'
         /\ [~Crashed' => Whole!Next]_<<IF Idle THEN books ELSE before, policy, reply>>
  BY StepImplements
<1> QED
  BY <1>1, StepsStart, PTL DEF StepsSpec, ImplementsLedger

-----------------------------------------------------------------------------
\* Right after a crash the file holds what the statements of one call had made
\* of books in order when they were cut short.
CallIsNamed == ~Idle => call.op # "crash"

CutShort(c, t, now) ==
  /\ IsTable(policy, Policy)
  /\ InOrder(before) /\ Runs(c, t, before, now, policy.rows)
  /\ cut = Cut(c.op, Head(t).do, Head(t).id)
  /\ books = Reopened(now)

CrashInv == StepsInv /\ CallIsNamed /\ (JustCrashed => \E c, t, now : CutShort(c, t, now))

LEMMA BeginIsNoCrash ==
  ASSUME NEW op, NEW id, NEW t, Begin(op, id, t), t # <<>>, op # "crash"
  PROVE  CallIsNamed' /\ ~JustCrashed'
BY DEF Begin, CallIsNamed, JustCrashed, Idle

LEMMA WorkReturns ==
  ASSUME Work
  PROVE  \/ ~Idle /\ ~Idle' /\ call' = call
         \/ ~Idle /\ Idle' /\ reply'.op = call.op
<1>1. ~Idle
  BY WhichStatement DEF Idle
<1>2. ASSUME NEW more, Proceed(more)
      PROVE  (~Idle' /\ call' = call) \/ (Idle' /\ reply'.op = call.op)
  <2>1. IF todo' = <<>> THEN Return(TRUE) ELSE UNCHANGED <<reply, call, before>>
    BY <1>2 DEF Proceed
  <2>2. Return(TRUE) => reply'.op = call.op
    BY DEF Return, Reply
  <2>3. CASE todo' = <<>>
    BY <2>1, <2>2, <2>3 DEF Idle
  <2>4. CASE todo' # <<>>
    BY <2>1, <2>4 DEF Idle
  <2> QED
    BY <2>3, <2>4
<1>3. ASSUME Throw PROVE Idle' /\ reply'.op = call.op
  BY <1>3 DEF Throw, Return, Reply, Idle
<1> QED
  BY <1>1, <1>2, <1>3
  DEF Work, InsertEntry, InsertEntryId, CreateRecords, InsertRecord, NameRecord,
    UpdateRow, DeleteEntry, DeleteRecords, DropRecords, DeleteEntryId, DeleteRecord,
    DeleteNoRecord, UnnameRecord, RollBackRow

LEMMA CrashStep ==
  ASSUME CrashInv, [StepsNext]_stepVars
  PROVE  CrashInv'
<1>1. StepsInv'
  BY StepImplements DEF CrashInv
<1>2. CASE UNCHANGED stepVars
  <2>1. UNCHANGED <<books, policy, reply, call, todo, before, cut>>
    BY <1>2 DEF stepVars, vars, progress
  <2>2. UNCHANGED <<CallIsNamed, JustCrashed>>
    BY <2>1 DEF CallIsNamed, JustCrashed, Idle
  <2>3. ASSUME NEW c, NEW t, NEW now, CutShort(c, t, now) PROVE CutShort(c, t, now)'
    BY <2>1, <2>3 DEF CutShort, InOrder
  <2> QED
    BY <1>1, <2>2, <2>3 DEF CrashInv
<1>3. CASE Work
  <2>1. CallIsNamed' /\ ~JustCrashed'
    BY <1>3, WorkReturns DEF CrashInv, CallIsNamed, JustCrashed
  <2> QED
    BY <1>1, <2>1 DEF CrashInv
<1>4. CASE Crash
  <2>1. Idle'
    BY <1>4 DEF Crash, Idle
  <2>2. InStep /\ ~Idle
    BY <1>4 DEF Crash, CrashInv, StepsInv
  <2>3. policy'.rows = policy.rows /\ before' = before /\ IsTable(policy', Policy)
    BY <1>4, <2>2, OpenTableFacts DEF Crash, InStep, IsTable
  <2>4. PICK c, t, now : c = call /\ t = todo /\ now = books
    OBVIOUS
  <2>5. CutShort(c, t, now)'
    BY <1>4, <2>2, <2>3, <2>4 DEF CutShort, Crash, InStep
  <2> QED
    BY <1>1, <2>1, <2>5 DEF CrashInv, CallIsNamed
<1>5. CASE \/ \E p \in Policy : CreatePolicyStep(p)
           \/ \E pid \in PolicyId : DeletePolicyStep(pid) \/ PolicyCallFailsStep(pid)
           \/ ReopenStep
  <2>1. Idle'
    BY <1>5 DEF CreatePolicyStep, DeletePolicyStep, PolicyCallFailsStep, ReopenStep,
      progress, Idle
  <2>2. reply'.op # "crash"
    BY <1>5 DEF CreatePolicyStep, DeletePolicyStep, PolicyCallFailsStep, ReopenStep,
      CreatePolicy, DeletePolicy, PolicyCallFails, Reopen, Reply
  <2> QED
    BY <1>1, <2>1, <2>2 DEF CrashInv, CallIsNamed, JustCrashed
<1>6. ASSUME CallIsNamed' /\ ~JustCrashed' PROVE CrashInv'
  BY <1>1, <1>6 DEF CrashInv
<1>7. ASSUME NEW desc, NEW balance, BeginAdd(desc, balance) PROVE CrashInv'
  BY <1>6, <1>7, BeginIsNoCrash DEF BeginAdd
<1>8. ASSUME NEW desc, NEW id, NEW value, NEW status, BeginUpdateAs(id, value, desc, status)
      PROVE  CrashInv'
  BY <1>6, <1>8, BeginIsNoCrash DEF BeginUpdateAs
<1>9. ASSUME NEW id, BeginRemove(id) \/ BeginUndo(id) PROVE CrashInv'
  BY <1>6, <1>9, BeginIsNoCrash DEF BeginRemove, BeginUndo
<1>10. ASSUME NEW pid, BeginApplyPolicy(pid) \/ BeginUndoPolicy(pid) PROVE CrashInv'
  BY <1>6, <1>10, BeginIsNoCrash DEF BeginApplyPolicy, BeginUndoPolicy
<1> QED
  BY <1>2, <1>3, <1>4, <1>5, <1>7, <1>8, <1>9, <1>10 DEF StepsNext, Work, BeginUpdate

LEMMA CrashInvariance == StepsSpec => []CrashInv
<1>1. StepsInit => CrashInv
  <2>1. StepsInit => Idle /\ reply.op = "open"
    BY DEF StepsInit, Idle, Init, Reply
  <2> QED
    BY <2>1, StepsStart DEF CrashInv, CallIsNamed, JustCrashed
<1>2. CrashInv /\ [StepsNext]_stepVars => CrashInv'
  BY CrashStep
<1> QED
  BY <1>1, <1>2, PTL DEF StepsSpec

-----------------------------------------------------------------------------
\* What remove makes of the file, from what is in the file.
AfterRemove(cycle, daily, recs, entryIds, id) ==
  IF id \in DOMAIN recs /\ Cardinality(recs[id]) <= MaxListed
    THEN <<WithoutRows(cycle, {id}), WithoutRows(daily, recs[id]),
           Restrict(recs, DOMAIN recs \ {id}), entryIds \ {id}>>
    ELSE <<WithoutRows(cycle, {id}), daily, recs, entryIds>>

LEMMA WhatRemoveLeaves ==
  ASSUME NEW b, NEW id,
         b = [cycle |-> b.cycle, daily |-> b.daily, entryIds |-> b.entryIds,
              recs |-> b.recs, cached |-> b.cached, damage |-> b.damage]
  PROVE  Contents(Removed(b, id)) =
           AfterRemove(b.cycle.rows, b.daily.rows, b.recs, b.entryIds, id)
<1> DEFINE gone == Gone(b, id, b.daily, b.recs)
<1> DEFINE daily == DeleteRows(b.daily, b.recs[id], Cardinality(b.recs[id]))
<1> DEFINE recs == Restrict(b.recs, DOMAIN b.recs \ {id})
<1>1. gone.cycle.rows = WithoutRows(b.cycle.rows, {id})
  BY DEF Gone, DeleteRow, AfterDelete
<1>2. /\ DOMAIN gone = {"cycle", "daily", "entryIds", "recs", "cached", "damage"}
      /\ gone.daily = b.daily /\ gone.recs = b.recs /\ gone.entryIds = b.entryIds
  BY DEF Gone
<1>3. daily.rows = WithoutRows(b.daily.rows, b.recs[id])
  BY DEF DeleteRows, AfterDelete
<1>4. CASE id \notin DOMAIN b.recs
  <2>1. Removed(b, id) = gone
    BY <1>4, RemovedAsGone
  <2> HIDE DEF gone
  <2> QED
    BY <1>1, <1>2, <1>4, <2>1 DEF Contents, AfterRemove
<1>5. CASE id \in DOMAIN b.recs /\ ~CanDelete(b, id)
  <2>1. Removed(b, id) = [gone EXCEPT !.damage = @ \cup {"remove"}]
    BY <1>5, RemovedAsGone
  <2> HIDE DEF gone
  <2>2. /\ Removed(b, id).cycle = gone.cycle /\ Removed(b, id).daily = gone.daily
        /\ Removed(b, id).recs = gone.recs /\ Removed(b, id).entryIds = gone.entryIds
    BY <1>2, <2>1
  <2> QED
    BY <1>1, <1>2, <1>5, <2>2 DEF Contents, AfterRemove, CanDelete
<1>6. CASE id \in DOMAIN b.recs /\ CanDelete(b, id)
  <2> DEFINE c1 == [gone EXCEPT !.daily = daily]
  <2> DEFINE c2 == [c1 EXCEPT !.recs = recs]
  <2>1. Removed(b, id) =
          [gone EXCEPT
             !.daily = DeleteRows(@, b.recs[id], Cardinality(b.recs[id])),
             !.recs = Restrict(@, DOMAIN @ \ {id}),
             !.entryIds = @ \ {id}]
    BY <1>6, RemovedAsGone
  <2> HIDE DEF gone
  <2>2. Removed(b, id) = [c2 EXCEPT !.entryIds = b.entryIds \ {id}]
    BY <1>2, <2>1, Zenon
  <2> HIDE DEF daily, recs
  <2>3. /\ DOMAIN c1 = {"cycle", "daily", "entryIds", "recs", "cached", "damage"}
        /\ c1.cycle = gone.cycle /\ c1.daily = daily
    BY <1>2
  <2> HIDE DEF c1
  <2>4. /\ DOMAIN c2 = {"cycle", "daily", "entryIds", "recs", "cached", "damage"}
        /\ c2.cycle = gone.cycle /\ c2.daily = daily /\ c2.recs = recs
    BY <2>3
  <2> HIDE DEF c2
  <2>5. /\ Removed(b, id).cycle = gone.cycle /\ Removed(b, id).daily = daily
        /\ Removed(b, id).recs = recs /\ Removed(b, id).entryIds = b.entryIds \ {id}
    BY <2>2, <2>4
  <2> QED
    BY <1>1, <1>3, <1>6, <2>5 DEF Contents, AfterRemove, CanDelete, recs
<1> QED
  BY <1>4, <1>5, <1>6

LEMMA WhatRemoveLeavesReopened ==
  ASSUME NEW b, NEW id
  PROVE  Contents(Removed(Reopened(b), id)) =
           AfterRemove(b.cycle.rows, b.daily.rows, b.recs, b.entryIds, id)
<1> DEFINE c == Reopened(b)
<1>1. /\ c = [cycle |-> c.cycle, daily |-> c.daily, entryIds |-> c.entryIds,
              recs |-> c.recs, cached |-> c.cached, damage |-> c.damage]
      /\ c.cycle.rows = b.cycle.rows /\ c.daily.rows = b.daily.rows
      /\ c.recs = b.recs /\ c.entryIds = b.entryIds
  BY DEF Reopened, OpenTable
<1> HIDE DEF c
<1>2. Contents(Removed(c, id)) =
        AfterRemove(b.cycle.rows, b.daily.rows, b.recs, b.entryIds, id)
  BY <1>1, WhatRemoveLeaves
<1> QED
  BY <1>2 DEF c

LEMMA RemovedTwice ==
  ASSUME NEW rows, NEW ids
  PROVE  WithoutRows(WithoutRows(rows, ids), ids) = WithoutRows(rows, ids)
BY DEF WithoutRows, Restrict

LEMMA InsertedAndRemoved ==
  ASSUME NEW rows, NEW id, NEW row
  PROVE  WithoutRows(InsertRow(rows, id, row), {id}) = WithoutRows(rows, {id})
BY DEF WithoutRows, Restrict, InsertRow

\* Where add leaves nothing that remove would not find.
LEMMA AddHeals ==
  ASSUME NEW b, Kept(b), NEW desc, NEW balance, NEW t, NEW now,
         AddAt(b, desc, balance, t, now),
         Head(t).do \notin {"CreateRecords", "NameRecord"}
  PROVE  LET id == b.cycle.nextId
         IN  /\ Head(t).id = id
             /\ Contents(Removed(Reopened(now), id)) = Contents(Removed(b, id))
<1> DEFINE id == b.cycle.nextId
<1> DEFINE record == NewRecord(balance, desc, "NEW_ENTRY")
<1> DEFINE list == Do("InsertEntryId", id)
<1> DEFINE create == Do("CreateRecords", id)
<1> DEFINE insert == Put("InsertRecord", id, record)
<1> DEFINE entry == NewEntry(desc, balance)
<1>1. /\ b = [cycle |-> b.cycle, daily |-> b.daily, entryIds |-> b.entryIds,
              recs |-> b.recs, cached |-> b.cached, damage |-> b.damage]
      /\ b.entryIds = DOMAIN b.recs /\ b.recs = [k \in DOMAIN b.recs |-> b.recs[k]]
      /\ b.daily.rows = [r \in DOMAIN b.daily.rows |-> b.daily.rows[r]]
  BY DEF Kept, WellFormed, IsBooks, EntriesAgree, IsTable, IsRows
<1>2. Contents(Removed(b, id)) =
        AfterRemove(b.cycle.rows, b.daily.rows, b.recs, b.entryIds, id)
  BY <1>1, WhatRemoveLeaves
<1>3. Contents(Removed(Reopened(now), id)) =
        AfterRemove(now.cycle.rows, now.daily.rows, now.recs, now.entryIds, id)
  BY WhatRemoveLeavesReopened
<1>4. WithoutRows(AddRow(b.cycle, entry).rows, {id}) = WithoutRows(b.cycle.rows, {id})
  BY InsertedAndRemoved DEF AddRow
<1>5. CASE t = <<Put("InsertEntry", id, record)>> /\ now = b
  BY <1>2, <1>3, <1>5 DEF Put
<1>6. CASE t = <<list, create, insert>> /\ now = Listing(b, desc, balance, b.entryIds, b.recs)
  <2>1. /\ now.cycle.rows = AddRow(b.cycle, entry).rows /\ now.daily = b.daily
        /\ now.recs = b.recs /\ now.entryIds = b.entryIds
    BY <1>6 DEF Listing
  <2>2. Head(t).id = id
    BY <1>6 DEF Do
  <2>3. AfterRemove(now.cycle.rows, now.daily.rows, now.recs, now.entryIds, id)
          = AfterRemove(b.cycle.rows, b.daily.rows, b.recs, b.entryIds, id)
    BY <1>4, <2>1 DEF AfterRemove
  <2> QED
    BY <1>2, <1>3, <2>2, <2>3
<1>7. CASE t = <<insert>> /\ now = Listed(b, desc, balance)
  <2>1. /\ now.cycle.rows = AddRow(b.cycle, entry).rows /\ now.daily = b.daily
        /\ now.recs = WithTable(b.recs, id) /\ now.entryIds = b.entryIds \cup {id}
    BY <1>7 DEF Listed, Listing
  <2>2. Head(t).id = id
    BY <1>7 DEF Put
  <2>3. CASE id \in DOMAIN b.recs
    <3>1. DOMAIN b.recs \cup {id} = DOMAIN b.recs /\ b.entryIds \cup {id} = b.entryIds
      BY <1>1, <2>3
    <3>2. WithTable(b.recs, id) = [k \in DOMAIN b.recs |-> b.recs[k]]
      BY <3>1 DEF WithTable
    <3>3. now.recs = b.recs /\ now.entryIds = b.entryIds
      BY <1>1, <2>1, <3>1, <3>2
    <3>4. /\ now.cycle.rows = AddRow(b.cycle, entry).rows
          /\ now.daily.rows = b.daily.rows
      BY <2>1
    <3> HIDE DEF entry
    <3>5. AfterRemove(now.cycle.rows, now.daily.rows, now.recs, now.entryIds, id)
            = AfterRemove(b.cycle.rows, b.daily.rows, b.recs, b.entryIds, id)
      BY <1>4, <3>3, <3>4 DEF AfterRemove
    <3> QED
      BY <1>2, <1>3, <2>2, <3>5
  <2>4. CASE id \notin DOMAIN b.recs
    <3> DEFINE recs == WithTable(b.recs, id)
    <3>1. DOMAIN recs = DOMAIN b.recs \cup {id} /\ recs[id] = {}
      BY <2>4 DEF WithTable
    <3>2. Restrict(recs, DOMAIN recs \ {id}) = b.recs
      BY <1>1, <2>4 DEF WithTable, Restrict
    <3>3. WithoutRows(b.daily.rows, {}) = b.daily.rows
      BY <1>1 DEF WithoutRows, Restrict
    <3>4. Cardinality({}) <= MaxListed
      BY FS_EmptySet, LedgerAssumption
    <3>5. (b.entryIds \cup {id}) \ {id} = b.entryIds
      BY <1>1, <2>4
    <3> HIDE DEF recs, entry
    <3>6. AfterRemove(now.cycle.rows, now.daily.rows, now.recs, now.entryIds, id) =
            <<WithoutRows(AddRow(b.cycle, entry).rows, {id}),
              WithoutRows(b.daily.rows, recs[id]),
              Restrict(recs, DOMAIN recs \ {id}), (b.entryIds \cup {id}) \ {id}>>
      BY <2>1, <3>1, <3>4 DEF AfterRemove, recs
    <3>7. AfterRemove(b.cycle.rows, b.daily.rows, b.recs, b.entryIds, id) =
            <<WithoutRows(b.cycle.rows, {id}), b.daily.rows, b.recs, b.entryIds>>
      BY <2>4 DEF AfterRemove
    <3> QED
      BY <1>2, <1>3, <1>4, <2>2, <3>1, <3>2, <3>3, <3>5, <3>6, <3>7
  <2> QED
    BY <2>3, <2>4
<1>8. CASE t = <<create, insert>>
  BY <1>8 DEF Do
<1>9. CASE t = <<Named("NameRecord", id, b.daily.nextId)>>
  BY <1>9 DEF Named
<1> QED
  BY <1>5, <1>6, <1>7, <1>8, <1>9 DEF AddAt

\* Where remove has not yet dropped the records table.
LEMMA HalfRemoveHeals ==
  ASSUME NEW b, Kept(b), NEW id, NEW t, NEW now, RemoveAt(b, id, t, now),
         Head(t).do # "DeleteEntryId"
  PROVE  /\ Head(t).id = id
         /\ Contents(Removed(Reopened(now), id)) = Contents(Removed(b, id))
<1> DEFINE deleteAll == Do("DeleteRecords", id)
<1> DEFINE drop == Do("DropRecords", id)
<1> DEFINE unlist == Do("DeleteEntryId", id)
<1> DEFINE daily == DeleteRows(b.daily, b.recs[id], Cardinality(b.recs[id]))
<1>1. b = [cycle |-> b.cycle, daily |-> b.daily, entryIds |-> b.entryIds,
           recs |-> b.recs, cached |-> b.cached, damage |-> b.damage]
  BY DEF Kept, WellFormed, IsBooks
<1>2. Contents(Removed(b, id)) =
        AfterRemove(b.cycle.rows, b.daily.rows, b.recs, b.entryIds, id)
  BY <1>1, WhatRemoveLeaves
<1>3. Contents(Removed(Reopened(now), id)) =
        AfterRemove(now.cycle.rows, now.daily.rows, now.recs, now.entryIds, id)
  BY WhatRemoveLeavesReopened
<1>4. WithoutRows(DeleteRow(b.cycle, id).rows, {id}) = WithoutRows(b.cycle.rows, {id})
  BY RemovedTwice DEF DeleteRow, AfterDelete
<1>5. WithoutRows(daily.rows, b.recs[id]) = WithoutRows(b.daily.rows, b.recs[id])
  BY RemovedTwice DEF DeleteRows, AfterDelete
<1>6. CASE t = <<Do("DeleteEntry", id)>> /\ now = b
  BY <1>2, <1>3, <1>6 DEF Do
<1>7. CASE t = <<deleteAll, drop, unlist>> /\ now = Gone(b, id, b.daily, b.recs)
  <2>1. /\ now.cycle = DeleteRow(b.cycle, id) /\ now.daily = b.daily
        /\ now.recs = b.recs /\ now.entryIds = b.entryIds
    BY <1>7 DEF Gone
  <2>2. Head(t).id = id
    BY <1>7 DEF Do
  <2> QED
    BY <1>2, <1>3, <1>4, <2>1, <2>2 DEF AfterRemove
<1>8. CASE /\ id \in DOMAIN b.recs /\ CanDelete(b, id)
           /\ t = <<drop, unlist>> /\ now = Gone(b, id, daily, b.recs)
  <2>1. Head(t).id = id
    BY <1>8 DEF Do
  <2> HIDE DEF daily
  <2>2. /\ now.cycle = DeleteRow(b.cycle, id) /\ now.daily = daily
        /\ now.recs = b.recs /\ now.entryIds = b.entryIds
    BY <1>8 DEF Gone
  <2> QED
    BY <1>2, <1>3, <1>4, <1>5, <1>8, <2>1, <2>2 DEF AfterRemove, CanDelete
<1>9. CASE t = <<unlist>>
  BY <1>9 DEF Do
<1> QED
  BY <1>6, <1>7, <1>8, <1>9 DEF RemoveAt

\* A crash inside add or remove is healed by one more remove, whatever the
\* books held when the call began, unless something is left that no records
\* table leads to.
THEOREM RemoveAlwaysHeals == StepsSpec => []RemoveHeals
<1>1. CrashInv => RemoveHeals
  <2> SUFFICES ASSUME CrashInv, JustCrashed, cut.op \in {"add", "remove"},
                      cut.do \notin {"CreateRecords", "NameRecord", "DeleteEntryId"}
               PROVE  Contents(Removed(books, cut.id)) = Contents(Removed(before, cut.id))
    BY DEF RemoveHeals
  <2>1. PICK c, t, now : CutShort(c, t, now)
    BY DEF CrashInv
  <2>2. /\ cut.op = c.op /\ cut.do = Head(t).do /\ cut.id = Head(t).id
        /\ books = Reopened(now) /\ Kept(before)
        /\ Runs(c, t, before, now, policy.rows)
    BY <2>1 DEF CutShort, Cut, InOrder
  <2>3. CASE c.op = "add"
    <3>1. PICK desc, balance : AddAt(before, desc, balance, t, now)
      BY <2>2, <2>3 DEF Runs, AddRuns, UpdateRuns, RemoveRuns, UndoRuns, ApplyRuns,
        UndoPolicyRuns
    <3> QED
      BY <2>2, <3>1, AddHeals
  <2>4. CASE c.op = "remove"
    <3>1. PICK id : RemoveAt(before, id, t, now)
      BY <2>2, <2>4 DEF Runs, AddRuns, UpdateRuns, RemoveRuns, UndoRuns, ApplyRuns,
        UndoPolicyRuns
    <3> QED
      BY <2>2, <3>1, HalfRemoveHeals
  <2> QED
    BY <2>2, <2>3, <2>4
<1> QED
  BY <1>1, CrashInvariance, PTL

\* Where the source has been debited and the destination has not been paid.
LEMMA DebitHeals ==
  ASSUME NEW b, Kept(b), Mirrored(b), NEW source, NEW debit \in Record,
         CanUpdate(b, source, debit.desc), NEW id,
         LET c == Reopened(Updated(b, source, debit))
         IN  id \in DOMAIN c.recs /\ LastRecord(c, id) \notin DOMAIN b.daily.rows,
         LastIsPlain(b, id)
  PROVE  Contents(Undone(Reopened(Updated(b, source, debit)), id)) = Contents(b)
<1> DEFINE x == Updated(b, source, debit)
<1> DEFINE c == Reopened(x)
<1> DEFINE r == b.daily.nextId
<1>1. /\ \A k \in DOMAIN b.recs : b.recs[k] \subseteq DOMAIN b.daily.rows
      /\ DOMAIN b.daily.rows \subseteq Nat
      /\ DOMAIN b.recs = b.entryIds /\ source \in DOMAIN b.recs
  BY KeptFacts DEF CanUpdate
<1>2. c.recs = x.recs /\ LastRecord(c, id) = LastRecord(x, id)
  BY DEF Reopened, LastRecord
<1>3. id \in DOMAIN x.recs /\ LastRecord(x, id) \notin DOMAIN b.daily.rows
  BY <1>2
<1>4. x.damage = {}
  <2> SUFFICES ASSUME x.damage # {} PROVE FALSE
    OBVIOUS
  <2> DEFINE a == Entered(b, source, debit)
  <2> DEFINE logged == Logged(a, debit)
  <2>1. /\ WellFormed(a) /\ a.entryIds = b.entryIds /\ a.recs = b.recs
        /\ x = Recorded(a, source, debit)
    BY EnteredFacts DEF Keeps, Kept, WellFormed
  <2>2. a.daily = b.daily /\ a.damage = b.damage
    <3> DEFINE entry == UpdatedEntry(b.cycle.rows[source], debit)
    <3>1. a = [b EXCEPT !.cycle.rows[source] = entry]
      BY DEF Entered
    <3> HIDE DEF entry
    <3>2. /\ DOMAIN b = {"cycle", "daily", "entryIds", "recs", "cached", "damage"}
          /\ a = [b EXCEPT !.cycle = [b.cycle EXCEPT !.rows[source] = entry]]
      BY <3>1 DEF Kept, WellFormed, IsBooks
    <3> HIDE DEF a
    <3> QED
      BY <3>2
  <2> HIDE DEF a, x
  <2>3. /\ logged = [cycle |-> a.cycle, daily |-> AddRow(a.daily, debit),
                     entryIds |-> a.entryIds, recs |-> a.recs, cached |-> a.cached,
                     damage |-> a.damage \cup Collision(a.daily, "daily")]
        /\ x = [logged EXCEPT !.recs[source] = @ \cup {r}]
    <3>1. a = [cycle |-> a.cycle, daily |-> a.daily, entryIds |-> a.entryIds,
               recs |-> a.recs, cached |-> a.cached, damage |-> a.damage]
      BY <2>1 DEF WellFormed, IsBooks
    <3> QED
      BY <1>1, <2>1, <2>2, <3>1, LoggedFacts
  <2> HIDE DEF logged, r
  <2>4. /\ x.damage = b.damage \cup Collision(b.daily, "daily")
        /\ DOMAIN x.recs = DOMAIN b.recs /\ x.recs[source] = b.recs[source] \cup {r}
        /\ \A k \in DOMAIN b.recs \ {source} : x.recs[k] = b.recs[k]
    BY <1>1, <2>1, <2>2, <2>3
  <2>5. r \in DOMAIN b.daily.rows
    BY <2>4 DEF Kept, Collision, WillCollide, r
  <2>6. x.recs[id] \subseteq DOMAIN b.daily.rows
    BY <1>1, <1>3, <2>4, <2>5
  <2>7. IsFiniteSet(x.recs[id]) /\ x.recs[id] # {}
    <3>1. IsFiniteSet(b.recs[id]) /\ b.recs[id] # {}
      BY <1>3, <2>4 DEF Kept, WellFormed, IsBooks
    <3>2. IsFiniteSet(b.recs[id] \cup {r})
      BY <3>1, FS_AddElement
    <3> QED
      BY <1>3, <2>4, <3>1, <3>2
  <2>8. LastRecord(x, id) \in x.recs[id]
    BY <1>1, <2>6, <2>7, MaxOfNaturals DEF LastRecord
  <2> QED
    BY <1>3, <2>6, <2>8
<1>5. /\ Kept(x) /\ Grown(b, x, source, debit)
      /\ x.cycle.rows = [b.cycle.rows EXCEPT
                          ![source] = UpdatedEntry(b.cycle.rows[source], debit)]
  BY <1>4, UpdatedKeeps
<1> HIDE DEF x
<1>6. id = source
  <2>1. LastRecord(x, id) \in x.recs[id]
    BY <1>3, <1>5, KeptFacts
  <2> QED
    BY <1>1, <1>3, <1>5, <2>1 DEF Grown
<1>7. /\ Kept(c) /\ c.cycle.rows = x.cycle.rows /\ c.recs = x.recs
      /\ c.daily.rows = x.daily.rows
  BY <1>5, ReopenedKeeps
<1> HIDE DEF c
<1>8. Grown(b, c, source, debit)
  BY <1>5, <1>7 DEF Grown
<1>9. Contents(Undone(c, source)) = Contents(b)
  BY <1>5, <1>6, <1>7, <1>8, UndoInvertsGrowth
<1> QED
  BY <1>6, <1>9 DEF c, x

\* A crash between the two halves of applyPolicy is healed by one undo of the
\* source, in whatever state the policy found the books.
THEOREM UndoAlwaysHeals ==
  ASSUME "NEW_ENTRY" \notin GivenStatus
  PROVE  StepsSpec => []UndoHeals
<1>1. CrashInv => UndoHeals
  <2> SUFFICES ASSUME CrashInv, NEW id \in EntryId, JustCrashed,
                      cut.op = "applyPolicy", cut.do = "UpdateRow",
                      books.daily.rows # before.daily.rows,
                      id \in DOMAIN books.recs,
                      LastRecord(books, id) \notin DOMAIN before.daily.rows,
                      LastIsPlain(before, id)
               PROVE  Contents(Undone(books, id)) = Contents(before)
    BY DEF UndoHeals
  <2>1. PICK c, t, now : CutShort(c, t, now)
    BY DEF CrashInv
  <2>2. /\ cut.op = c.op /\ cut.do = Head(t).do
        /\ books = Reopened(now) /\ Kept(before) /\ Mirrored(before)
        /\ Runs(c, t, before, now, policy.rows) /\ IsTable(policy, Policy)
    BY <2>1 DEF CutShort, Cut, InOrder
  <2>3. PICK pid \in DOMAIN policy.rows :
          /\ policy.rows[pid].source \in DOMAIN before.cycle.rows
          /\ ApplyAt(before, policy.rows[pid], t, now)
    BY <2>2 DEF Runs, AddRuns, UpdateRuns, RemoveRuns, UndoRuns, ApplyRuns,
      UndoPolicyRuns
  <2> DEFINE p == policy.rows[pid]
  <2> DEFINE source == p.source
  <2> DEFINE debit == Debit(before, p)
  <2>4. p \in Policy
    BY <2>2 DEF IsTable, IsRows
  <2>5. debit \in Record /\ debit.desc = p.desc
    <3>1. debit \in Record
      BY <2>2, <2>3, <2>4, PolicyRecordType DEF Debit, Kept
    <3> QED
      BY <3>1 DEF Debit, PolicyRecord, NewRecord
  <2>6. books.daily.rows = now.daily.rows
    BY <2>2 DEF Reopened, OpenTable
  <2>7. \A b, e, record, s, then : UpdateAt(b, e, record, s, then) /\ s.do = "UpdateRow"
                                   => then = b
    BY DEF UpdateAt, Put, Named
  <2>8. now # before
    BY <2>6
  <2>9. /\ UpdateReturns(before, source, p.desc)
        /\ now = Updated(before, source, debit)
    <3>1. ASSUME NEW s, t = <<s, Put("UpdateRow", p.destination, Credit(before, p))>>,
                 UpdateAt(before, source, debit, s, now)
          PROVE  FALSE
      <4>1. Head(t) = s
        BY <3>1
      <4> QED
        BY <2>2, <2>7, <2>8, <3>1, <4>1
    <3>2. ASSUME NEW s, t = <<s>>,
                 UpdateAt(Debited(before, p), p.destination, Credit(before, p), s, now)
          PROVE  now = Debited(before, p)
      <4>1. Head(t) = s
        BY <3>2
      <4> QED
        BY <2>2, <2>7, <3>2, <4>1
    <3> QED
      BY <2>3, <3>1, <3>2 DEF ApplyAt, Debited
  <2> HIDE DEF source, debit
  <2>10. CanUpdate(before, source, debit.desc)
    BY <2>5, <2>9 DEF UpdateReturns
  <2> QED
    BY <2>2, <2>5, <2>9, <2>10, DebitHeals
<1> QED
  BY <1>1, CrashInvariance, PTL
-----------------------------------------------------------------------------
\* What a crash leaves of the order.  An entry stands if it is in all the lists
\* and its row follows from its records.
Stands(b, id) ==
  /\ id \in DOMAIN b.cycle.rows /\ id \in b.entryIds /\ id \in DOMAIN b.recs
  /\ b.recs[id] # {}
  /\ b.cycle.rows[id].balance = Wrap(RecordSum(b, id))
  /\ "NEW_ENTRY" \notin GivenStatus =>
       Follows(b.cycle.rows[id], b.daily.rows[LastRecord(b, id)])

Absent(b, id) ==
  id \notin DOMAIN b.cycle.rows /\ id \notin b.entryIds /\ id \notin DOMAIN b.recs

\* No two records tables name the same record.
Disjoint(b) ==
  \A id, other \in DOMAIN b.recs : id # other => b.recs[id] \cap b.recs[other] = {}

\* All entries but those of X stand, or are not there at all; and no entry, of
\* X or not, names a record that is gone or that another one names.
Apart(b, X) ==
  /\ IsBooks(b) /\ b.damage = {} /\ SoundTable(b.daily)
  /\ Stored(b) /\ Disjoint(b)
  /\ \A id : id \in X \/ Stands(b, id) \/ Absent(b, id)

\* c is b but for entry id.
SameBut(b, c, id) ==
  /\ \A k : k # id => /\ k \in DOMAIN c.cycle.rows <=> k \in DOMAIN b.cycle.rows
                      /\ k \in c.entryIds <=> k \in b.entryIds
                      /\ k \in DOMAIN c.recs <=> k \in DOMAIN b.recs
  /\ \A k \in DOMAIN b.cycle.rows \ {id} : c.cycle.rows[k] = b.cycle.rows[k]
  /\ \A k \in DOMAIN b.recs \ {id} :
       /\ c.recs[k] = b.recs[k]
       /\ \A r \in b.recs[k] : r \in DOMAIN c.daily.rows
                               /\ c.daily.rows[r] = b.daily.rows[r]

\* What happens to an entry does not touch those that are apart from it, as
\* long as it takes none of their records.
LEMMA Elsewhere ==
  ASSUME NEW b, NEW X, Apart(b, X), NEW id \in X,
         NEW c, IsBooks(c), c.damage = {}, SoundTable(c.daily), SameBut(b, c, id),
         id \in DOMAIN c.recs =>
           /\ c.recs[id] \subseteq DOMAIN c.daily.rows
           /\ \A k \in DOMAIN b.recs \ {id} : c.recs[id] \cap b.recs[k] = {}
  PROVE  Apart(c, X)
<1>1. IsBooks(b) /\ Stored(b) /\ Disjoint(b)
  BY DEF Apart
<1>2. Stored(c)
  <2> SUFFICES ASSUME NEW k \in DOMAIN c.recs PROVE c.recs[k] \subseteq DOMAIN c.daily.rows
    BY DEF Stored
  <2> QED
    BY DEF SameBut
<1>3. Disjoint(c)
  <2> SUFFICES ASSUME NEW k \in DOMAIN c.recs, NEW other \in DOMAIN c.recs, k # other
               PROVE  c.recs[k] \cap c.recs[other] = {}
    BY DEF Disjoint
  <2>1. CASE k # id /\ other # id
    BY <1>1, <2>1 DEF SameBut, Disjoint
  <2>2. CASE k = id \/ other = id
    BY <2>2 DEF SameBut
  <2> QED
    BY <2>1, <2>2
<1>4. ASSUME NEW k, k # id, Stands(b, k) PROVE Stands(c, k)
  <2>1. /\ k \in DOMAIN b.cycle.rows /\ k \in b.entryIds /\ k \in DOMAIN b.recs
        /\ b.recs[k] # {}
    BY <1>4 DEF Stands
  <2>2. /\ k \in DOMAIN c.cycle.rows /\ k \in c.entryIds /\ k \in DOMAIN c.recs
        /\ c.cycle.rows[k] = b.cycle.rows[k] /\ c.recs[k] = b.recs[k]
        /\ \A r \in b.recs[k] : c.daily.rows[r] = b.daily.rows[r]
    BY <1>4, <2>1 DEF SameBut
  <2>3. RecordSum(c, k) = RecordSum(b, k)
    BY <1>1, <1>2, <2>1, <2>2, SameAmountsSameSum DEF Stored
  <2>4. LastRecord(c, k) = LastRecord(b, k) /\ LastRecord(b, k) \in b.recs[k]
    <3>1. IsFiniteSet(b.recs[k]) /\ b.recs[k] \subseteq Nat
      BY <1>1, <2>1 DEF IsBooks
    <3> QED
      BY <2>1, <2>2, <3>1, MaxOfNaturals DEF LastRecord
  <2> QED
    BY <1>4, <2>1, <2>2, <2>3, <2>4 DEF Stands
<1>5. ASSUME NEW k, k # id, Absent(b, k) PROVE Absent(c, k)
  BY <1>5 DEF Absent, SameBut
<1> QED
  BY <1>2, <1>3, <1>4, <1>5 DEF Apart

LEMMA OrderIsApart == ASSUME NEW b, InOrder(b), NEW X PROVE Apart(b, X)
<1>1. Kept(b) /\ Balanced(b) /\ ("NEW_ENTRY" \notin GivenStatus => Mirrored(b))
  BY DEF InOrder
<1>2. /\ IsBooks(b) /\ b.damage = {} /\ SoundTable(b.daily)
      /\ DOMAIN b.cycle.rows = DOMAIN b.recs /\ b.entryIds = DOMAIN b.recs
      /\ Stored(b) /\ Disjoint(b)
  BY <1>1, KeptFacts DEF Kept, WellFormed, Stored, Disjoint, Partitioned
<1>3. ASSUME NEW id \in DOMAIN b.recs PROVE Stands(b, id)
  BY <1>1, <1>2, MirroredFacts DEF Kept, Balanced, RecordSum, Stands
<1>4. ASSUME NEW id, id \notin DOMAIN b.recs PROVE Absent(b, id)
  BY <1>2, <1>4 DEF Absent
<1> QED
  BY <1>2, <1>3, <1>4 DEF Apart

LEMMA Widened == ASSUME NEW b, NEW X, Apart(b, X), NEW id PROVE Apart(b, X \cup {id})
BY DEF Apart

LEMMA Rejoined ==
  ASSUME NEW c, NEW X, NEW id, Apart(c, X \cup {id}),
         id \in X \/ Stands(c, id) \/ Absent(c, id)
  PROVE  Apart(c, X)
BY DEF Apart

-----------------------------------------------------------------------------
\* Each statement that writes, whichever call it is from and whatever it finds
\* of its own entry, leaves the others as they are.
LEMMA RewrittenApart ==
  ASSUME NEW b, NEW X, Apart(b, X), NEW id \in X, id \in DOMAIN b.cycle.rows,
         NEW entry \in Entry
  PROVE  Apart([b EXCEPT !.cycle.rows[id] = entry], X)
<1> DEFINE c == [b EXCEPT !.cycle.rows[id] = entry]
<1>1. /\ IsBooks(b) /\ b.damage = {} /\ SoundTable(b.daily)
      /\ Stored(b) /\ Disjoint(b)
  BY DEF Apart
<1>2. IsBooks(c)
  BY <1>1, RewriteFacts DEF Keeps
<1>3. /\ c.daily = b.daily /\ c.recs = b.recs /\ c.damage = b.damage
      /\ c.entryIds = b.entryIds
      /\ c.cycle.rows = [b.cycle.rows EXCEPT ![id] = entry]
  BY <1>1, RewriteKeeps
<1> HIDE DEF c
<1>4. SameBut(b, c, id)
  <2>1. /\ DOMAIN c.cycle.rows = DOMAIN b.cycle.rows
        /\ \A k \in DOMAIN b.cycle.rows \ {id} : c.cycle.rows[k] = b.cycle.rows[k]
    BY <1>3
  <2> QED
    BY <1>1, <1>3, <2>1 DEF SameBut, Stored
<1>5. id \in DOMAIN c.recs =>
        /\ c.recs[id] \subseteq DOMAIN c.daily.rows
        /\ \A k \in DOMAIN b.recs \ {id} : c.recs[id] \cap b.recs[k] = {}
  BY <1>1, <1>3 DEF Stored, Disjoint
<1>6. Apart(c, X)
  BY <1>1, <1>2, <1>3, <1>4, <1>5, Elsewhere
<1> QED
  BY <1>6 DEF c

\* c is b with one more row in DailyTable, a record nobody names.
More(b, c, record) ==
  LET r == b.daily.nextId
  IN  /\ r \notin DOMAIN b.daily.rows
      /\ \A k \in DOMAIN b.daily.rows : k < r /\ c.daily.rows[k] = b.daily.rows[k]
      /\ DOMAIN c.daily.rows = DOMAIN b.daily.rows \cup {r}
      /\ c.daily.rows[r] = record
      /\ c.cycle = b.cycle /\ c.entryIds = b.entryIds /\ c.recs = b.recs

LEMMA LoggedApart ==
  ASSUME NEW b, NEW X, Apart(b, X), X # {}, NEW record \in Record,
         Logged(b, record).damage = {}
  PROVE  Apart(Logged(b, record), X) /\ More(b, Logged(b, record), record)
<1> DEFINE c == Logged(b, record)
<1> DEFINE r == b.daily.nextId
<1>1. /\ IsBooks(b) /\ b.damage = {} /\ SoundTable(b.daily)
      /\ Stored(b) /\ Disjoint(b)
  BY DEF Apart
<1>2. c = [cycle |-> b.cycle, daily |-> AddRow(b.daily, record),
           entryIds |-> b.entryIds, recs |-> b.recs, cached |-> b.cached,
           damage |-> b.damage \cup Collision(b.daily, "daily")]
  BY <1>1, LoggedFacts DEF IsBooks
<1>3. IsBooks(c)
  <2>1. Recorded(b, -1, record) = c
    BY <1>1, LoggedFacts DEF IsBooks
  <2> QED
    BY <1>1, <2>1, RecordedFacts DEF Keeps
<1>4. c.damage = {}
  OBVIOUS
<1> HIDE DEF c
<1>5. /\ c.cycle = b.cycle /\ c.entryIds = b.entryIds /\ c.recs = b.recs
      /\ c.daily = AddRow(b.daily, record) /\ Collision(b.daily, "daily") = {}
  BY <1>2, <1>4
<1>6. /\ IsTable(b.daily, Record) /\ b.daily.count >= 0 /\ b.daily.nextId \in Nat
      /\ DOMAIN b.daily.rows \subseteq Nat
  BY <1>1 DEF IsBooks, IsTable, IsRows
<1>7. ~WillCollide(b.daily)
  BY <1>5 DEF Collision
<1>8. r \in Nat /\ r \notin DOMAIN b.daily.rows /\ \A k \in DOMAIN b.daily.rows : k < r
  BY <1>1, <1>6, <1>7 DEF SoundTable, WillCollide, IdsAhead, MistakenForEmpty
<1>9. SoundTable(c.daily)
  BY <1>1, <1>5, <1>6, AddRowFacts
<1>10. More(b, c, record)
  <2>1. c.daily.rows = InsertRow(b.daily.rows, r, record)
    BY <1>5 DEF AddRow
  <2> HIDE DEF r
  <2>2. /\ DOMAIN c.daily.rows = DOMAIN b.daily.rows \cup {r}
        /\ c.daily.rows[r] = record
        /\ \A k \in DOMAIN b.daily.rows : c.daily.rows[k] = b.daily.rows[k]
    BY <1>8, <2>1 DEF InsertRow
  <2> QED
    BY <1>5, <1>8, <2>2 DEF More, r
<1>11. PICK id \in X : TRUE
  OBVIOUS
<1>12. SameBut(b, c, id)
  BY <1>1, <1>5, <1>10 DEF SameBut, More, Stored
<1>13. id \in DOMAIN c.recs =>
        /\ c.recs[id] \subseteq DOMAIN c.daily.rows
        /\ \A k \in DOMAIN b.recs \ {id} : c.recs[id] \cap b.recs[k] = {}
  BY <1>1, <1>5, <1>10 DEF Stored, Disjoint, More
<1>14. Apart(c, X)
  BY <1>3, <1>4, <1>9, <1>12, <1>13, Elsewhere
<1> QED
  BY <1>10, <1>14 DEF c

LEMMA NamedApart ==
  ASSUME NEW b, NEW X, Apart(b, X), NEW id \in X, id \in DOMAIN b.recs,
         NEW r \in DOMAIN b.daily.rows, \A k \in DOMAIN b.recs : r \notin b.recs[k]
  PROVE  LET c == [b EXCEPT !.recs[id] = @ \cup {r}]
         IN  /\ Apart(c, X)
             /\ c.cycle = b.cycle /\ c.daily = b.daily /\ c.entryIds = b.entryIds
             /\ DOMAIN c.recs = DOMAIN b.recs /\ c.recs[id] = b.recs[id] \cup {r}
<1> DEFINE c == [b EXCEPT !.recs[id] = @ \cup {r}]
<1> DEFINE recs == [b.recs EXCEPT ![id] = @ \cup {r}]
<1>1. /\ IsBooks(b) /\ b.damage = {} /\ SoundTable(b.daily)
      /\ Stored(b) /\ Disjoint(b)
  BY DEF Apart
<1>2. c = [cycle |-> b.cycle, daily |-> b.daily, entryIds |-> b.entryIds,
           recs |-> recs, cached |-> b.cached, damage |-> b.damage]
  BY <1>1, SMTT(20) DEF IsBooks
<1>3. /\ DOMAIN recs = DOMAIN b.recs /\ recs[id] = b.recs[id] \cup {r}
      /\ \A k \in DOMAIN b.recs \ {id} : recs[k] = b.recs[k]
  BY <1>1 DEF IsBooks
<1> HIDE DEF recs
<1>4. /\ c.cycle = b.cycle /\ c.daily = b.daily /\ c.entryIds = b.entryIds
      /\ c.recs = recs /\ c.cached = b.cached /\ c.damage = {}
  BY <1>1, <1>2
<1>5. IsBooks(c)
  <2>1. IsFiniteSet(b.recs[id] \cup {r}) /\ b.recs[id] \cup {r} \subseteq Nat
    BY <1>1, FS_AddElement DEF IsBooks, IsTable, IsRows
  <2>2. \A k \in DOMAIN recs : IsFiniteSet(recs[k]) /\ recs[k] \subseteq Nat
    BY <1>1, <1>3, <2>1 DEF IsBooks
  <2>3. recs \in [DOMAIN recs -> SUBSET Nat]
    <3>1. recs = [k \in DOMAIN recs |-> recs[k]]
      BY DEF recs
    <3> QED
      BY <2>2, <3>1
  <2> HIDE DEF c
  <2> QED
    BY <1>1, <1>2, <1>4, <2>2, <2>3 DEF IsBooks
<1> HIDE DEF c
<1>6. SameBut(b, c, id)
  BY <1>1, <1>3, <1>4 DEF SameBut, Stored
<1>7. /\ c.recs[id] \subseteq DOMAIN c.daily.rows
      /\ \A k \in DOMAIN b.recs \ {id} : c.recs[id] \cap b.recs[k] = {}
  BY <1>1, <1>3, <1>4 DEF Stored, Disjoint
<1>8. Apart(c, X)
  BY <1>1, <1>4, <1>5, <1>6, <1>7, Elsewhere
<1> QED
  BY <1>3, <1>4, <1>8 DEF c

LEMMA RecordedApart ==
  ASSUME NEW b, NEW X, Apart(b, X), NEW id \in X, NEW record \in Record,
         Recorded(b, id, record).damage = {}
  PROVE  LET c == Recorded(b, id, record)
             r == b.daily.nextId
         IN  /\ Apart(c, X) /\ c.cycle = b.cycle /\ c.entryIds = b.entryIds
             /\ \A k \in DOMAIN b.daily.rows : k < r /\ c.daily.rows[k] = b.daily.rows[k]
             /\ c.daily.rows[r] = record
             /\ id \in b.entryIds \cap DOMAIN b.recs =>
                  id \in DOMAIN c.recs /\ c.recs[id] = b.recs[id] \cup {r}
<1> DEFINE c == Recorded(b, id, record)
<1> DEFINE d == Logged(b, record)
<1> DEFINE r == b.daily.nextId
<1>1. IsBooks(b) /\ b.damage = {} /\ Stored(b)
  BY DEF Apart
<1>2. /\ d = [cycle |-> b.cycle, daily |-> AddRow(b.daily, record),
              entryIds |-> b.entryIds, recs |-> b.recs, cached |-> b.cached,
              damage |-> b.damage \cup Collision(b.daily, "daily")]
      /\ c = IF id \in b.entryIds \cap DOMAIN b.recs
               THEN [d EXCEPT !.recs[id] = @ \cup {r}] ELSE d
  BY <1>1, LoggedFacts DEF IsBooks
<1>3. c.damage = d.damage
  <2> HIDE DEF c, d
  <2> QED
    BY <1>2
<1>4. Apart(d, X) /\ More(b, d, record)
  BY <1>3, LoggedApart
<1> HIDE DEF c, d
<1>5. CASE id \notin b.entryIds \cap DOMAIN b.recs
  <2>1. c = d
    BY <1>2, <1>5
  <2> QED
    BY <1>4, <1>5, <2>1 DEF More, c
<1>6. CASE id \in b.entryIds \cap DOMAIN b.recs
  <2> DEFINE e == [d EXCEPT !.recs[id] = @ \cup {r}]
  <2>1. c = e
    BY <1>2, <1>6
  <2>2. id \in DOMAIN d.recs /\ r \in DOMAIN d.daily.rows
        /\ \A k \in DOMAIN d.recs : r \notin d.recs[k]
    BY <1>1, <1>4, <1>6 DEF More, Stored
  <2> HIDE DEF r
  <2>3. /\ Apart(e, X)
        /\ e.cycle = d.cycle /\ e.daily = d.daily /\ e.entryIds = d.entryIds
        /\ DOMAIN e.recs = DOMAIN d.recs /\ e.recs[id] = d.recs[id] \cup {r}
    BY <1>4, <2>2, NamedApart
  <2> HIDE DEF e
  <2> QED
    BY <1>4, <1>6, <2>1, <2>2, <2>3 DEF More, c, r
<1> QED
  BY <1>5, <1>6

LEMMA UpdatedApart ==
  ASSUME NEW b, NEW X, Apart(b, X), NEW id \in X, NEW record \in Record,
         CanUpdate(b, id, record.desc), Updated(b, id, record).damage = {}
  PROVE  LET c == Updated(b, id, record)
         IN  /\ Apart(c, X) /\ c.entryIds = b.entryIds
             /\ id \in DOMAIN c.cycle.rows
             /\ id \in b.entryIds \cap DOMAIN b.recs =>
                  Ahead(b, c, id, b.daily.nextId, record)
<1> DEFINE c == Updated(b, id, record)
<1> DEFINE entry == UpdatedEntry(b.cycle.rows[id], record)
<1> DEFINE a == [b EXCEPT !.cycle.rows[id] = entry]
<1>1. IsBooks(b) /\ id \in DOMAIN b.cycle.rows /\ b.cycle.rows[id] \in Entry
      /\ Stored(b)
  BY DEF Apart, CanUpdate, IsBooks, IsTable, IsRows
<1>2. entry \in Entry
  BY <1>1, UpdatedEntryType
<1>3. c = Recorded(a, id, record)
  BY DEF Updated
<1> HIDE DEF entry
<1>4. /\ Apart(a, X) /\ a.daily = b.daily /\ a.recs = b.recs
      /\ a.entryIds = b.entryIds
      /\ a.cycle.rows = [b.cycle.rows EXCEPT ![id] = entry]
  <2>1. Apart(a, X)
    BY <1>1, <1>2, RewrittenApart
  <2>2. /\ a.daily = b.daily /\ a.recs = b.recs /\ a.entryIds = b.entryIds
        /\ a.cycle.rows = [b.cycle.rows EXCEPT ![id] = entry]
    BY <1>1, <1>2, RewriteKeeps
  <2> QED
    BY <2>1, <2>2
<1> HIDE DEF a
<1>5. LET r == a.daily.nextId
      IN  /\ Apart(c, X) /\ c.cycle = a.cycle /\ c.entryIds = a.entryIds
          /\ \A k \in DOMAIN a.daily.rows : k < r /\ c.daily.rows[k] = a.daily.rows[k]
          /\ c.daily.rows[r] = record
          /\ id \in a.entryIds \cap DOMAIN a.recs =>
               id \in DOMAIN c.recs /\ c.recs[id] = a.recs[id] \cup {r}
  BY <1>3, <1>4, RecordedApart
<1> HIDE DEF c
<1>6. c.cycle.rows[id] = entry /\ id \in DOMAIN c.cycle.rows
  BY <1>1, <1>4, <1>5
<1>7. id \in b.entryIds \cap DOMAIN b.recs => Ahead(b, c, id, b.daily.nextId, record)
  BY <1>1, <1>4, <1>5, <1>6 DEF Ahead, Stored, entry
<1> QED
  BY <1>4, <1>5, <1>6, <1>7 DEF c

\* update keeps an entry standing.
LEMMA UpdateKeepsApart ==
  ASSUME NEW b, NEW X, Apart(b, X), NEW id, NEW record \in Record,
         "NEW_ENTRY" \notin GivenStatus => record.status # "NEW_ENTRY",
         Updated(b, id, record).damage = {}
  PROVE  Apart(Updated(b, id, record), X)
<1> DEFINE c == Updated(b, id, record)
<1> DEFINE r == b.daily.nextId
<1>1. CASE ~CanUpdate(b, id, record.desc)
  BY <1>1 DEF Updated
<1>2. CASE CanUpdate(b, id, record.desc)
  <2>1. Apart(b, X \cup {id})
    BY Widened
  <2>2. /\ Apart(c, X \cup {id}) /\ c.entryIds = b.entryIds
        /\ id \in DOMAIN c.cycle.rows
        /\ id \in b.entryIds \cap DOMAIN b.recs => Ahead(b, c, id, r, record)
    BY <1>2, <2>1, UpdatedApart
  <2> HIDE DEF c, r
  <2>3. ASSUME Stands(b, id) PROVE Stands(c, id)
    <3>1. /\ id \in DOMAIN b.recs /\ id \in b.entryIds
          /\ b.cycle.rows[id].balance = Wrap(RecordSum(b, id))
          /\ b.recs[id] # {}
      BY <2>3 DEF Stands
    <3>2. Ahead(b, c, id, r, record)
      BY <2>2, <3>1
    <3>3. /\ id \in DOMAIN c.recs /\ c.recs[id] = b.recs[id] \cup {r}
          /\ c.cycle.rows[id] = UpdatedEntry(b.cycle.rows[id], record)
          /\ c.daily.rows[r] = record /\ \A k \in b.recs[id] : k < r
      BY <3>2 DEF Ahead
    <3>4. /\ IsBooks(b) /\ IsBooks(c)
          /\ b.recs[id] \subseteq DOMAIN b.daily.rows
          /\ c.recs[id] \subseteq DOMAIN c.daily.rows
      BY <2>2, <3>1, <3>3 DEF Apart, Stored
    <3>5. c.cycle.rows[id].balance = Wrap(RecordSum(c, id))
      BY <3>1, <3>2, <3>4, AheadBalances
    <3>6. LastRecord(c, id) = r
      <4>1. IsFiniteSet(c.recs[id]) /\ c.recs[id] \subseteq Nat
        BY <3>3, <3>4 DEF IsBooks
      <4>2. LastRecord(c, id) \in c.recs[id] /\ r <= LastRecord(c, id)
        BY <3>3, <4>1, MaxOfNaturals DEF LastRecord
      <4> QED
        BY <3>3, <4>1, <4>2
    <3>7. "NEW_ENTRY" \notin GivenStatus =>
            Follows(c.cycle.rows[id], c.daily.rows[LastRecord(c, id)])
      BY <3>3, <3>6 DEF UpdatedEntry, Follows
    <3> QED
      BY <2>2, <3>1, <3>3, <3>5, <3>7 DEF Stands
  <2>4. id \in X \/ Stands(b, id)
    BY <1>2 DEF Apart, Absent, CanUpdate
  <2>5. Apart(c, X)
    BY <2>2, <2>3, <2>4, Rejoined
  <2> QED
    BY <2>5 DEF c
<1> QED
  BY <1>1, <1>2

LEMMA ErasedApart ==
  ASSUME NEW b, NEW X, Apart(b, X), NEW id \in X, CanUndo(b, id)
  PROVE  LET c == Erased(b, id)
             last == LastRecord(b, id)
         IN  /\ Apart(c, X) /\ c.cycle = b.cycle /\ c.entryIds = b.entryIds
             /\ DOMAIN c.recs = DOMAIN b.recs /\ c.recs[id] = b.recs[id] \ {last}
             /\ DOMAIN c.daily.rows = DOMAIN b.daily.rows \ {last}
             /\ \A k \in DOMAIN c.daily.rows : c.daily.rows[k] = b.daily.rows[k]
<1> DEFINE last == LastRecord(b, id)
<1> DEFINE daily == DeleteRow(b.daily, last)
<1> DEFINE recs == [b.recs EXCEPT ![id] = b.recs[id] \ {last}]
<1> DEFINE c == Erased(b, id)
<1>1. /\ IsBooks(b) /\ b.damage = {} /\ SoundTable(b.daily)
      /\ Stored(b) /\ Disjoint(b)
  BY DEF Apart
<1>2. id \in DOMAIN b.recs /\ last \in b.recs[id] /\ last \in DOMAIN b.daily.rows
      /\ last \in Nat
  <2>1. id \in DOMAIN b.recs /\ LastRecord(b, id) \in b.recs[id]
    BY <1>1, PreviousFacts
  <2>2. LastRecord(b, id) \in DOMAIN b.daily.rows
    BY DEF CanUndo
  <2> QED
    BY <1>1, <2>1, <2>2 DEF IsBooks, IsTable, IsRows
<1>3. c = [cycle |-> b.cycle, daily |-> daily, entryIds |-> b.entryIds,
           recs |-> recs, cached |-> b.cached, damage |-> b.damage]
  BY DEF Erased
<1> HIDE DEF c, last
<1>4. /\ IsTable(daily, Record) /\ daily.count >= 0 /\ SoundTable(daily)
      /\ daily.rows = WithoutRows(b.daily.rows, {last})
  BY <1>1, <1>2, DeleteRowFacts DEF IsBooks
<1>5. /\ DOMAIN recs = DOMAIN b.recs /\ recs[id] = b.recs[id] \ {last}
      /\ \A k \in DOMAIN b.recs \ {id} : recs[k] = b.recs[k]
      /\ recs \in [DOMAIN recs -> SUBSET Nat]
      /\ \A k \in DOMAIN recs : IsFiniteSet(recs[k])
  <2>1. IsFiniteSet(b.recs[id] \ {last})
    BY <1>1, <1>2, FS_Difference DEF IsBooks
  <2> QED
    BY <1>1, <1>2, <2>1 DEF IsBooks
<1> HIDE DEF daily, recs
<1>6. /\ DOMAIN daily.rows = DOMAIN b.daily.rows \ {last}
      /\ \A k \in DOMAIN daily.rows : daily.rows[k] = b.daily.rows[k]
  BY <1>4 DEF WithoutRows, Restrict
<1>7. /\ c.cycle = b.cycle /\ c.daily = daily /\ c.entryIds = b.entryIds
      /\ c.recs = recs /\ c.cached = b.cached /\ c.damage = b.damage
  BY <1>3
<1>8. IsBooks(c)
  BY <1>1, <1>3, <1>4, <1>5, <1>7 DEF IsBooks
<1>9. SameBut(b, c, id)
  BY <1>1, <1>2, <1>5, <1>6, <1>7 DEF SameBut, Stored, Disjoint
<1>10. /\ c.recs[id] \subseteq DOMAIN c.daily.rows
       /\ \A k \in DOMAIN b.recs \ {id} : c.recs[id] \cap b.recs[k] = {}
  BY <1>1, <1>2, <1>5, <1>6, <1>7 DEF Stored, Disjoint
<1>11. Apart(c, X)
  BY <1>1, <1>4, <1>7, <1>8, <1>9, <1>10, Elsewhere
<1> QED
  BY <1>5, <1>6, <1>7, <1>11 DEF c, last

LEMMA UndoneApart ==
  ASSUME NEW b, NEW X, Apart(b, X), NEW id \in X, CanUndo(b, id),
         Undone(b, id).damage = {}
  PROVE  LET c == Undone(b, id)
             previous == PreviousRecord(b, id)
         IN  /\ Apart(c, X) /\ c.entryIds = b.entryIds /\ id \in DOMAIN c.cycle.rows
             /\ Behind(b, c, id)
             /\ previous \in c.recs[id]
             /\ c.daily.rows[previous] = b.daily.rows[previous]
<1> DEFINE c == Undone(b, id)
<1> DEFINE a == Erased(b, id)
<1> DEFINE last == LastRecord(b, id)
<1> DEFINE previous == PreviousRecord(b, id)
<1> DEFINE entry == RolledBack(b.cycle.rows[id], b.daily.rows[last].value,
                               b.daily.rows[previous])
<1>1. IsBooks(b) /\ Stored(b) /\ b.damage = {}
  BY DEF Apart
<1>2. /\ id \in DOMAIN b.recs /\ last \in b.recs[id] /\ previous \in b.recs[id] \ {last}
      /\ last \in DOMAIN b.daily.rows
  <2> HIDE DEF last, previous
  <2> QED
    BY <1>1, PreviousFacts DEF CanUndo, last, previous
<1>3. /\ Apart(a, X) /\ a.cycle = b.cycle /\ a.entryIds = b.entryIds
      /\ DOMAIN a.recs = DOMAIN b.recs /\ a.recs[id] = b.recs[id] \ {last}
      /\ DOMAIN a.daily.rows = DOMAIN b.daily.rows \ {last}
      /\ \A k \in DOMAIN a.daily.rows : a.daily.rows[k] = b.daily.rows[k]
  BY ErasedApart
<1>4. Restorable(b, id)
  <2> SUFFICES ASSUME ~Restorable(b, id) PROVE "undo" \in c.damage
    OBVIOUS
  <2>1. c = [a EXCEPT !.damage = b.damage \cup {"undo"}]
    BY DEF Undone, Erased
  <2>2. IsBooks(a)
    BY <1>3 DEF Apart
  <2> HIDE DEF c, a
  <2> QED
    BY <2>1, <2>2 DEF IsBooks
<1>5. c = [a EXCEPT !.cycle.rows[id] = entry]
  <2>1. c = [a EXCEPT !.cycle.rows[id] = RolledBack(a.cycle.rows[id],
               b.daily.rows[last].value, b.daily.rows[previous])]
    BY <1>4 DEF Undone, Erased
  <2> HIDE DEF a
  <2> QED
    BY <1>3, <2>1
<1>6. id \in DOMAIN b.cycle.rows /\ entry \in Entry
  <2>1. id \in DOMAIN b.cycle.rows /\ previous \in DOMAIN b.daily.rows
    BY <1>4 DEF Restorable, CanUpdate
  <2> HIDE DEF last, previous
  <2>2. /\ b.cycle.rows[id] \in Entry /\ b.daily.rows[last] \in Record
        /\ b.daily.rows[previous] \in Record
    BY <1>1, <1>2, <2>1 DEF IsBooks, IsTable, IsRows
  <2>3. b.daily.rows[last].value \in Money
    BY <2>2 DEF Record
  <2> QED
    BY <2>1, <2>2, <2>3, RolledBackType
<1> HIDE DEF c, a, entry, last, previous
<1>7. Apart(c, X)
  BY <1>3, <1>5, <1>6, RewrittenApart
<1>8. /\ c.daily = a.daily /\ c.recs = a.recs /\ c.entryIds = a.entryIds
      /\ c.cycle.rows = [a.cycle.rows EXCEPT ![id] = entry]
  BY <1>3, <1>5, <1>6, RewriteKeeps DEF Apart
<1>9. c.cycle.rows[id] = entry /\ id \in DOMAIN c.cycle.rows
  BY <1>3, <1>6, <1>8
<1>10. \A k \in c.recs[id] : c.daily.rows[k] = b.daily.rows[k]
  BY <1>1, <1>2, <1>3, <1>8 DEF Stored
<1>11. Behind(b, c, id)
  BY <1>2, <1>3, <1>8, <1>9, <1>10 DEF Behind, entry, last, previous
<1> QED
  BY <1>2, <1>3, <1>7, <1>8, <1>9, <1>10, <1>11 DEF c, previous

\* So does undo, which rolls the entry back to the record before.
LEMMA UndoKeepsApart ==
  ASSUME NEW b, NEW X, Apart(b, X), NEW id, Undone(b, id).damage = {}
  PROVE  Apart(Undone(b, id), X)
<1> DEFINE c == Undone(b, id)
<1> DEFINE previous == PreviousRecord(b, id)
<1>1. CASE ~CanUndo(b, id)
  BY <1>1 DEF Undone
<1>2. CASE CanUndo(b, id)
  <2>1. Apart(b, X \cup {id})
    BY Widened
  <2>2. /\ Apart(c, X \cup {id}) /\ c.entryIds = b.entryIds /\ id \in DOMAIN c.cycle.rows
        /\ Behind(b, c, id)
        /\ previous \in c.recs[id]
        /\ c.daily.rows[previous] = b.daily.rows[previous]
    BY <1>2, <2>1, UndoneApart
  <2> HIDE DEF c
  <2>3. ASSUME Stands(b, id) PROVE Stands(c, id)
    <3>1. /\ id \in b.entryIds /\ b.cycle.rows[id].balance = Wrap(RecordSum(b, id))
      BY <2>3 DEF Stands
    <3>2. /\ id \in DOMAIN b.recs /\ id \in DOMAIN c.recs
          /\ c.recs[id] = b.recs[id] \ {LastRecord(b, id)}
          /\ c.cycle.rows[id] = RolledBack(b.cycle.rows[id],
                 b.daily.rows[LastRecord(b, id)].value, b.daily.rows[previous])
      BY <2>2 DEF Behind
    <3>3. /\ IsBooks(b) /\ IsBooks(c)
          /\ b.recs[id] \subseteq DOMAIN b.daily.rows
          /\ c.recs[id] \subseteq DOMAIN c.daily.rows
      BY <2>2, <3>2 DEF Apart, Stored
    <3>4. c.cycle.rows[id].balance = Wrap(RecordSum(c, id))
      BY <2>2, <3>1, <3>3, BehindBalances
    <3>5. LastRecord(c, id) = previous
      BY <3>2 DEF LastRecord, PreviousRecord
    <3> HIDE DEF previous
    <3>6. Follows(c.cycle.rows[id], c.daily.rows[LastRecord(c, id)])
      BY <2>2, <3>2, <3>5 DEF RolledBack, Follows
    <3> QED
      BY <2>2, <3>1, <3>2, <3>4, <3>6 DEF Stands
  <2>4. id \in X \/ Stands(b, id)
    BY <1>2 DEF Apart, Absent, CanUndo
  <2>5. Apart(c, X)
    BY <2>2, <2>3, <2>4, Rejoined
  <2> QED
    BY <2>5 DEF c
<1> QED
  BY <1>1, <1>2

LEMMA ReopenKeepsApart ==
  ASSUME NEW b, NEW X, Apart(b, X), X # {}
  PROVE  Apart(Reopened(b), X)
<1> DEFINE c == Reopened(b)
<1>1. /\ IsBooks(b) /\ b.damage = {} /\ Stored(b) /\ Disjoint(b)
  BY DEF Apart
<1>2. /\ c.cycle.rows = b.cycle.rows /\ c.daily.rows = b.daily.rows
      /\ c.entryIds = b.entryIds /\ c.recs = b.recs /\ c.damage = {}
      /\ c.daily = OpenTable(b.daily.rows)
  BY <1>1 DEF Reopened, OpenTable
<1>3. IsBooks(c)
  BY <1>1, ReopenedFacts DEF Keeps
<1>4. SoundTable(c.daily)
  <2>1. IsRows(b.daily.rows, Record)
    BY <1>1 DEF IsBooks, IsTable
  <2> QED
    BY <1>2, <2>1, OpenTableFacts
<1> HIDE DEF c
<1>5. PICK id \in X : TRUE
  OBVIOUS
<1>6. SameBut(b, c, id)
  BY <1>1, <1>2 DEF SameBut, Stored
<1>7. id \in DOMAIN c.recs =>
        /\ c.recs[id] \subseteq DOMAIN c.daily.rows
        /\ \A k \in DOMAIN b.recs \ {id} : c.recs[id] \cap b.recs[k] = {}
  BY <1>1, <1>2 DEF Stored, Disjoint
<1>8. Apart(c, X)
  BY <1>2, <1>3, <1>4, <1>6, <1>7, Elsewhere
<1> QED
  BY <1>8 DEF c

\* c is b without the row of entry id, and without its records if they go too.
Taken(b, c, id) ==
  /\ c = [cycle |-> DeleteRow(b.cycle, id), daily |-> c.daily,
          entryIds |-> c.entryIds, recs |-> c.recs, cached |-> c.cached,
          damage |-> b.damage]
  /\ c.entryIds = b.entryIds \/ c.entryIds = b.entryIds \ {id}
  /\ \/ c.daily = b.daily /\ c.recs = b.recs
     \/ /\ id \in DOMAIN b.recs
        /\ c.daily = DeleteRows(b.daily, b.recs[id], Cardinality(b.recs[id]))
        /\ c.recs = Restrict(b.recs, DOMAIN b.recs \ {id})

LEMMA TakenApart ==
  ASSUME NEW b, NEW X, Apart(b, X), NEW id \in X, id \in Nat,
         NEW c, Taken(b, c, id)
  PROVE  Apart(c, X) /\ DOMAIN c.cycle.rows = DOMAIN b.cycle.rows \ {id}
<1>1. /\ IsBooks(b) /\ b.damage = {} /\ SoundTable(b.daily)
      /\ Stored(b) /\ Disjoint(b)
  BY DEF Apart
<1>2. /\ c.cycle = DeleteRow(b.cycle, id) /\ c.damage = {}
      /\ c = [cycle |-> c.cycle, daily |-> c.daily, entryIds |-> c.entryIds,
              recs |-> c.recs, cached |-> c.cached, damage |-> c.damage]
  BY <1>1 DEF Taken
<1>3. /\ IsTable(c.cycle, Entry) /\ c.cycle.count >= 0
      /\ c.cycle.rows = WithoutRows(b.cycle.rows, {id})
  <2>1. LET cycle == DeleteRow(b.cycle, id)
        IN  /\ IsTable(cycle, Entry) /\ cycle.count >= 0
            /\ cycle.rows = WithoutRows(b.cycle.rows, {id})
    BY <1>1, DeleteRowFacts DEF IsBooks
  <2> QED
    BY <1>2, <2>1
<1>4. /\ DOMAIN c.cycle.rows = DOMAIN b.cycle.rows \ {id}
      /\ \A k \in DOMAIN c.cycle.rows : c.cycle.rows[k] = b.cycle.rows[k]
  BY <1>3 DEF WithoutRows, Restrict
<1>5. c.entryIds \subseteq Nat /\ \A k : k # id => (k \in c.entryIds <=> k \in b.entryIds)
  BY <1>1 DEF Taken, IsBooks
<1>6. CASE c.daily = b.daily /\ c.recs = b.recs
  <2>1. IsBooks(c)
    BY <1>1, <1>2, <1>3, <1>5, <1>6 DEF IsBooks
  <2>2. SameBut(b, c, id)
    BY <1>1, <1>4, <1>5, <1>6 DEF SameBut, Stored
  <2>3. id \in DOMAIN c.recs =>
          /\ c.recs[id] \subseteq DOMAIN c.daily.rows
          /\ \A k \in DOMAIN b.recs \ {id} : c.recs[id] \cap b.recs[k] = {}
    BY <1>1, <1>6 DEF Stored, Disjoint
  <2> QED
    BY <1>1, <1>2, <1>4, <1>6, <2>1, <2>2, <2>3, Elsewhere
<1>7. CASE /\ id \in DOMAIN b.recs
           /\ c.daily = DeleteRows(b.daily, b.recs[id], Cardinality(b.recs[id]))
           /\ c.recs = Restrict(b.recs, DOMAIN b.recs \ {id})
  <2>1. b.recs[id] \subseteq DOMAIN b.daily.rows /\ Cardinality(b.recs[id]) \in Nat
    BY <1>1, <1>7, FS_CardinalityType DEF Stored, IsBooks
  <2>2. /\ IsTable(c.daily, Record) /\ c.daily.count >= 0 /\ SoundTable(c.daily)
        /\ c.daily.rows = WithoutRows(b.daily.rows, b.recs[id])
    BY <1>1, <1>7, <2>1, DeleteRowsFacts DEF IsBooks
  <2>3. /\ DOMAIN c.daily.rows = DOMAIN b.daily.rows \ b.recs[id]
        /\ \A r \in DOMAIN c.daily.rows : c.daily.rows[r] = b.daily.rows[r]
    BY <2>2 DEF WithoutRows, Restrict
  <2>4. /\ DOMAIN c.recs = DOMAIN b.recs \ {id}
        /\ \A k \in DOMAIN c.recs : c.recs[k] = b.recs[k]
    BY <1>7 DEF Restrict
  <2>5. IsBooks(c)
    <3>1. c.recs \in [DOMAIN c.recs -> SUBSET Nat]
      BY <1>1, <1>7 DEF Restrict, IsBooks
    <3>2. \A k \in DOMAIN c.recs : IsFiniteSet(c.recs[k])
      BY <1>1, <2>4 DEF IsBooks
    <3> QED
      BY <1>1, <1>2, <1>3, <1>5, <2>2, <3>1, <3>2 DEF IsBooks
  <2>6. SameBut(b, c, id)
    BY <1>1, <1>4, <1>5, <1>7, <2>3, <2>4 DEF SameBut, Stored, Disjoint
  <2> QED
    BY <1>2, <1>4, <2>2, <2>4, <2>5, <2>6, Elsewhere
<1> QED
  BY <1>6, <1>7 DEF Taken

\* remove leaves nothing of an entry that stood.
LEMMA RemoveKeepsApart ==
  ASSUME NEW b, NEW X, Apart(b, X), NEW id \in Nat, Removed(b, id).damage = {}
  PROVE  Apart(Removed(b, id), X)
<1> DEFINE c == Removed(b, id)
<1> DEFINE gone == Gone(b, id, b.daily, b.recs)
<1> DEFINE daily == DeleteRows(b.daily, b.recs[id], Cardinality(b.recs[id]))
<1> DEFINE recs == Restrict(b.recs, DOMAIN b.recs \ {id})
<1>1. Apart(b, X \cup {id}) /\ IsBooks(b)
  BY Widened DEF Apart
<1>2. /\ gone = [cycle |-> DeleteRow(b.cycle, id), daily |-> b.daily,
                 entryIds |-> b.entryIds, recs |-> b.recs,
                 cached |-> b.cached \ {id}, damage |-> b.damage]
      /\ c = IF id \notin DOMAIN b.recs THEN gone
             ELSE IF ~CanDelete(b, id) THEN [gone EXCEPT !.damage = @ \cup {"remove"}]
             ELSE [gone EXCEPT !.daily = daily, !.recs = recs, !.entryIds = @ \ {id}]
  <2>1. gone.daily = b.daily /\ gone.recs = b.recs
    BY DEF Gone
  <2>2. c = IF id \notin DOMAIN b.recs THEN gone
            ELSE IF ~CanDelete(b, id) THEN [gone EXCEPT !.damage = @ \cup {"remove"}]
            ELSE [gone EXCEPT
                    !.daily = DeleteRows(@, b.recs[id], Cardinality(b.recs[id])),
                    !.recs = Restrict(@, DOMAIN @ \ {id}),
                    !.entryIds = @ \ {id}]
    BY <1>1, RemovedAsGone DEF IsBooks
  <2>3. gone = [cycle |-> DeleteRow(b.cycle, id), daily |-> b.daily,
                entryIds |-> b.entryIds, recs |-> b.recs,
                cached |-> b.cached \ {id}, damage |-> b.damage]
    BY DEF Gone
  <2> HIDE DEF c, gone
  <2> QED
    BY <2>1, <2>2, <2>3
<1> HIDE DEF c, gone, daily, recs
<1>3. id \notin DOMAIN b.recs \/ CanDelete(b, id)
  <2> SUFFICES ASSUME id \in DOMAIN b.recs, ~CanDelete(b, id) PROVE "remove" \in c.damage
    BY DEF c
  <2> QED
    BY <1>2
<1>4. CASE id \notin DOMAIN b.recs
  <2>1. Taken(b, c, id) /\ c.recs = b.recs /\ c.entryIds = b.entryIds
    BY <1>2, <1>4 DEF Taken
  <2>2. Apart(c, X \cup {id}) /\ DOMAIN c.cycle.rows = DOMAIN b.cycle.rows \ {id}
    BY <1>1, <2>1, TakenApart
  <2>3. id \in X \/ Absent(c, id)
    BY <1>4, <2>1, <2>2 DEF Apart, Stands, Absent
  <2> QED
    BY <2>2, <2>3, Rejoined DEF c
<1>5. CASE id \in DOMAIN b.recs
  <2>1. c = [cycle |-> DeleteRow(b.cycle, id), daily |-> daily,
             entryIds |-> b.entryIds \ {id}, recs |-> recs,
             cached |-> b.cached \ {id}, damage |-> b.damage]
    BY <1>2, <1>3, <1>5
  <2>2. c.entryIds = b.entryIds \ {id} /\ c.recs = recs
    BY <2>1
  <2>3. Taken(b, c, id)
    BY <1>5, <2>1 DEF Taken, daily, recs
  <2>4. Apart(c, X \cup {id}) /\ DOMAIN c.cycle.rows = DOMAIN b.cycle.rows \ {id}
    BY <1>1, <2>3, TakenApart
  <2>5. Absent(c, id)
    BY <2>2, <2>4 DEF Absent, Restrict, recs
  <2> QED
    BY <2>4, <2>5, Rejoined DEF c
<1> QED
  BY <1>4, <1>5

LEMMA ListingApart ==
  ASSUME NEW b, NEW X, Apart(b, X), b.cycle.nextId \in X,
         NEW desc \in Descriptions, NEW balance \in Money, NEW entryIds, NEW recs,
         entryIds = b.entryIds \/ entryIds = b.entryIds \cup {b.cycle.nextId},
         recs = b.recs \/ recs = WithTable(b.recs, b.cycle.nextId),
         Listing(b, desc, balance, entryIds, recs).damage = {}
  PROVE  LET c == Listing(b, desc, balance, entryIds, recs)
             id == b.cycle.nextId
         IN  /\ Apart(c, X) /\ id \notin DOMAIN b.cycle.rows
             /\ id \in DOMAIN c.cycle.rows
             /\ c.cycle.rows[id] = NewEntry(desc, balance)
<1> DEFINE id == b.cycle.nextId
<1> DEFINE entry == NewEntry(desc, balance)
<1> DEFINE cycle == AddRow(b.cycle, entry)
<1> DEFINE cached == b.cached \cup {id}
<1> DEFINE damage == b.damage \cup Collision(b.cycle, "cycle")
<1> DEFINE c == Listing(b, desc, balance, entryIds, recs)
<1>1. /\ IsBooks(b) /\ b.damage = {} /\ SoundTable(b.daily)
      /\ Stored(b) /\ Disjoint(b)
  BY DEF Apart
<1>2. entry \in Entry /\ id \in Nat
  BY <1>1, MoneyIsInt DEF NewEntry, Entry, Statuses, IsBooks, IsTable
<1>3. c = [cycle |-> cycle, daily |-> b.daily, entryIds |-> entryIds,
           recs |-> recs, cached |-> cached, damage |-> damage]
  BY DEF Listing
<1>4. c.damage = {}
  OBVIOUS
<1> HIDE DEF c, cached, damage, entry
<1>5. damage = {} /\ c.cycle = cycle /\ c.daily = b.daily /\ c.entryIds = entryIds
      /\ c.recs = recs /\ c.cached = cached
  BY <1>3, <1>4
<1>6. id \notin DOMAIN b.cycle.rows
  BY <1>5 DEF damage, Collision, WillCollide
<1>7. IsTable(cycle, Entry) /\ cycle.count >= 0
  BY <1>1, <1>2, AddRowFacts DEF IsBooks
<1>8. /\ DOMAIN cycle.rows = DOMAIN b.cycle.rows \cup {id}
      /\ cycle.rows[id] = entry
      /\ \A k \in DOMAIN b.cycle.rows : cycle.rows[k] = b.cycle.rows[k]
  <2>1. cycle.rows = InsertRow(b.cycle.rows, id, entry)
    BY DEF AddRow
  <2> HIDE DEF cycle, id
  <2> QED
    BY <1>6, <2>1 DEF InsertRow
<1> HIDE DEF cycle
<1>9. /\ recs \in [DOMAIN recs -> SUBSET Nat]
      /\ \A k \in DOMAIN recs : IsFiniteSet(recs[k])
      /\ \A k : k # id => (k \in DOMAIN recs <=> k \in DOMAIN b.recs)
      /\ \A k \in DOMAIN b.recs : recs[k] = b.recs[k]
      /\ id \in DOMAIN recs \ DOMAIN b.recs => recs[id] = {}
  <2>1. CASE recs = b.recs
    BY <1>1, <2>1 DEF IsBooks
  <2>2. CASE recs = WithTable(b.recs, id)
    <3> HIDE DEF id
    <3>1. /\ DOMAIN recs = DOMAIN b.recs \cup {id}
          /\ \A k \in DOMAIN b.recs : recs[k] = b.recs[k]
          /\ id \notin DOMAIN b.recs => recs[id] = {}
          /\ recs = [k \in DOMAIN b.recs \cup {id} |->
                       IF k \in DOMAIN b.recs THEN b.recs[k] ELSE {}]
      BY <2>2 DEF WithTable
    <3>2. \A k \in DOMAIN recs : recs[k] \in SUBSET Nat /\ IsFiniteSet(recs[k])
      BY <1>1, <3>1, FS_EmptySet DEF IsBooks
    <3> QED
      BY <3>1, <3>2
  <2> QED
    BY <2>1, <2>2
<1>10. IsBooks(c)
  BY <1>1, <1>2, <1>3, <1>4, <1>5, <1>7, <1>9 DEF IsBooks
<1> HIDE DEF id
<1>11. SameBut(b, c, id)
  BY <1>1, <1>5, <1>8, <1>9 DEF SameBut, Stored, id
<1>12. id \in DOMAIN c.recs =>
         /\ c.recs[id] \subseteq DOMAIN c.daily.rows
         /\ \A k \in DOMAIN b.recs \ {id} : c.recs[id] \cap b.recs[k] = {}
  <2>1. id \in DOMAIN c.recs => c.recs[id] = {} \/ (id \in DOMAIN b.recs /\ c.recs[id] = b.recs[id])
    BY <1>5, <1>9
  <2> QED
    BY <1>1, <1>5, <2>1 DEF Stored, Disjoint
<1>13. Apart(c, X)
  BY <1>1, <1>4, <1>5, <1>10, <1>11, <1>12, Elsewhere DEF id
<1> QED
  BY <1>5, <1>6, <1>8, <1>13 DEF c, id, entry

LEMMA ListedApart ==
  ASSUME NEW b, NEW X, Apart(b, X), b.cycle.nextId \in X,
         NEW desc \in Descriptions, NEW balance \in Money,
         Listed(b, desc, balance).damage = {}
  PROVE  LET c == Listed(b, desc, balance)
             id == b.cycle.nextId
         IN  /\ Apart(c, X) /\ id \notin DOMAIN b.cycle.rows
             /\ id \in DOMAIN c.cycle.rows
             /\ c.cycle.rows[id] = NewEntry(desc, balance)
             /\ c.entryIds = b.entryIds \cup {id}
             /\ c.recs = WithTable(b.recs, id)
<1> DEFINE entryIds == b.entryIds \cup {b.cycle.nextId}
<1> DEFINE recs == WithTable(b.recs, b.cycle.nextId)
<1> DEFINE c == Listing(b, desc, balance, entryIds, recs)
<1>1. Listed(b, desc, balance) = c
  BY DEF Listed
<1>2. c.damage = {}
  BY <1>1
<1>3. c.entryIds = entryIds /\ c.recs = recs
  BY DEF Listing
<1> HIDE DEF c
<1>4. entryIds = b.entryIds \cup {b.cycle.nextId} /\ recs = WithTable(b.recs, b.cycle.nextId)
  OBVIOUS
<1> HIDE DEF entryIds, recs
<1>5. LET id == b.cycle.nextId
      IN  /\ Apart(c, X) /\ id \notin DOMAIN b.cycle.rows
          /\ id \in DOMAIN c.cycle.rows
          /\ c.cycle.rows[id] = NewEntry(desc, balance)
  <2>1. Listing(b, desc, balance, entryIds, recs).damage = {}
    BY <1>2 DEF c
  <2>2. LET d == Listing(b, desc, balance, entryIds, recs)
            id == b.cycle.nextId
        IN  /\ Apart(d, X) /\ id \notin DOMAIN b.cycle.rows
            /\ id \in DOMAIN d.cycle.rows
            /\ d.cycle.rows[id] = NewEntry(desc, balance)
    <3>1. entryIds = b.entryIds \/ entryIds = b.entryIds \cup {b.cycle.nextId}
      BY <1>4
    <3>2. recs = b.recs \/ recs = WithTable(b.recs, b.cycle.nextId)
      BY <1>4
    <3> QED
      BY <2>1, <3>1, <3>2, ListingApart
  <2> QED
    BY <2>2 DEF c
<1> QED
  BY <1>1, <1>3, <1>4, <1>5

\* add makes an entry that stands, unless it finds the remains of one.
LEMMA AddKeepsApart ==
  ASSUME NEW b, NEW X, Apart(b, X), NEW desc \in Descriptions, NEW balance \in Money,
         Added(b, desc, balance).damage = {}
  PROVE  Apart(Added(b, desc, balance), X)
<1> DEFINE c == Added(b, desc, balance)
<1> DEFINE id == b.cycle.nextId
<1> DEFINE r == b.daily.nextId
<1> DEFINE listed == Listed(b, desc, balance)
<1> DEFINE record == NewRecord(balance, desc, "NEW_ENTRY")
<1>1. Apart(b, X \cup {id}) /\ IsBooks(b)
  BY Widened DEF Apart
<1>2. c = Recorded(listed, id, record)
  BY DEF Added, Listed, Listing, NewEntry
<1>3. record \in Record
  BY DEF NewRecord, Record, Statuses
<1>4. listed = [cycle |-> listed.cycle, daily |-> listed.daily,
                entryIds |-> listed.entryIds, recs |-> listed.recs,
                cached |-> listed.cached, damage |-> listed.damage]
      /\ listed.daily = b.daily
  BY DEF Listed, Listing
<1>5. listed.damage = {}
  <2>1. c.damage = listed.damage \cup Collision(listed.daily, "daily")
    <3> HIDE DEF listed, record
    <3> QED
      BY <1>2, <1>4 DEF Recorded
  <2> QED
    BY <2>1
<1>6. /\ Apart(listed, X \cup {id}) /\ id \notin DOMAIN b.cycle.rows
      /\ id \in DOMAIN listed.cycle.rows
      /\ listed.cycle.rows[id] = NewEntry(desc, balance)
      /\ listed.entryIds = b.entryIds \cup {id}
      /\ listed.recs = WithTable(b.recs, id)
  BY <1>1, <1>5, ListedApart
<1> HIDE DEF c, listed, record
<1>7. Recorded(listed, id, record).damage = {}
  BY <1>2 DEF c
<1> HIDE DEF id
<1>8. id \in listed.entryIds \cap DOMAIN listed.recs
  BY <1>6 DEF WithTable
<1>9. /\ Apart(c, X \cup {id}) /\ c.cycle = listed.cycle /\ c.entryIds = listed.entryIds
      /\ c.daily.rows[r] = record
      /\ id \in DOMAIN c.recs /\ c.recs[id] = listed.recs[id] \cup {r}
  BY <1>2, <1>3, <1>4, <1>6, <1>7, <1>8, RecordedApart
<1>10. ASSUME id \notin X PROVE Stands(c, id)
  <2>1. id \notin DOMAIN b.recs
    BY <1>6, <1>10 DEF Apart, Stands, Absent
  <2>2. c.recs[id] = {r}
    BY <1>6, <1>9, <2>1 DEF WithTable
  <2>3. r \in Nat /\ r \in DOMAIN c.daily.rows /\ IsBooks(c)
    BY <1>1, <1>9, <2>2 DEF Apart, Stored, IsBooks, IsTable
  <2>4. LastRecord(c, id) = r
    <3>1. IsFiniteSet(c.recs[id])
      BY <1>9, <2>3 DEF IsBooks
    <3> QED
      BY <2>2, <2>3, <3>1, MaxOfNaturals DEF LastRecord
  <2>5. Amount(c)[r] = balance /\ Amount(c)[r] \in Int
    <3>1. Amount(c)[r] = c.daily.rows[r].value /\ Amount(c)[r] \in Int
      BY <2>3, AmountFacts
    <3> QED
      BY <1>9, <3>1 DEF record, NewRecord
  <2>6. SumFunctionOnSet(Amount(c), {} \cup {r}) = Amount(c)[r] + SumFunctionOnSet(Amount(c), {})
    BY <2>5, SumWith, FS_EmptySet
  <2>7. RecordSum(c, id) = balance
    BY <2>2, <2>5, <2>6, SumOfNone DEF RecordSum
  <2>8. c.cycle.rows[id].balance = Wrap(RecordSum(c, id))
    BY <1>6, <1>9, <2>7, WrapOfMoney DEF NewEntry
  <2>9. Follows(c.cycle.rows[id], c.daily.rows[LastRecord(c, id)])
    BY <1>6, <1>9, <2>4 DEF record, NewRecord, NewEntry, Follows
  <2> QED
    BY <1>6, <1>8, <1>9, <2>2, <2>8, <2>9 DEF Stands
<1> QED
  BY <1>9, <1>10, Rejoined DEF c

-----------------------------------------------------------------------------
\* A call cut short leaves all entries but the one its next statement is about
\* apart, unless a name outlives its record just there.
LEMMA HalfAddApart ==
  ASSUME NEW b, Apart(b, {b.cycle.nextId}), NEW desc \in Descriptions,
         NEW balance \in Money, NEW t, NEW now, AddAt(b, desc, balance, t, now),
         now.damage = {}
  PROVE  Apart(now, {Head(t).id})
<1> DEFINE id == b.cycle.nextId
<1> DEFINE record == NewRecord(balance, desc, "NEW_ENTRY")
<1> DEFINE list == Do("InsertEntryId", id)
<1> DEFINE create == Do("CreateRecords", id)
<1> DEFINE insert == Put("InsertRecord", id, record)
<1> DEFINE name == Named("NameRecord", id, b.daily.nextId)
<1> DEFINE listed == Listed(b, desc, balance)
<1>1. list.id = id /\ create.id = id /\ insert.id = id /\ name.id = id
      /\ Put("InsertEntry", id, record).id = id
  BY DEF Do, Put, Named
<1>2. \/ t = <<Put("InsertEntry", id, record)>> /\ now = b
      \/ t = <<list, create, insert>> /\ now = Listing(b, desc, balance, b.entryIds, b.recs)
      \/ /\ t = <<create, insert>>
         /\ now = Listing(b, desc, balance, b.entryIds \cup {id}, b.recs)
      \/ t = <<insert>> /\ now = listed
      \/ t = <<name>> /\ now = Logged(listed, record)
  BY DEF AddAt
<1>3. record \in Record
  BY DEF NewRecord, Record, Statuses
<1>4. /\ listed = [cycle |-> listed.cycle, daily |-> listed.daily,
                   entryIds |-> listed.entryIds, recs |-> listed.recs,
                   cached |-> listed.cached, damage |-> listed.damage]
  BY DEF Listed, Listing
<1>5. ASSUME listed.damage = {} PROVE Apart(listed, {id})
  BY <1>5, ListedApart
<1> HIDE DEF list, create, insert, name, listed, record
<1>6. CASE t = <<Put("InsertEntry", id, record)>> /\ now = b
  BY <1>1, <1>6, LongQueue
<1>7. CASE t = <<list, create, insert>> /\ now = Listing(b, desc, balance, b.entryIds, b.recs)
  <2>1. Listing(b, desc, balance, b.entryIds, b.recs).damage = {}
    BY <1>7
  <2>2. Apart(Listing(b, desc, balance, b.entryIds, b.recs), {id})
    BY <2>1, ListingApart
  <2> HIDE DEF id
  <2>3. Head(t) = list
    BY <1>7, LongQueue
  <2> QED
    BY <1>1, <1>7, <2>2, <2>3
<1>8. CASE t = <<create, insert>> /\ now = Listing(b, desc, balance, b.entryIds \cup {id}, b.recs)
  <2>1. Listing(b, desc, balance, b.entryIds \cup {id}, b.recs).damage = {}
    BY <1>8
  <2>2. Apart(Listing(b, desc, balance, b.entryIds \cup {id}, b.recs), {id})
    BY <2>1, ListingApart
  <2> HIDE DEF id
  <2>3. Head(t) = create
    BY <1>8, LongQueue
  <2> QED
    BY <1>1, <1>8, <2>2, <2>3
<1>9. CASE t = <<insert>> /\ now = listed
  <2>1. Head(t) = insert
    BY <1>9, LongQueue
  <2> QED
    BY <1>1, <1>5, <1>9, <2>1
<1>10. CASE t = <<name>> /\ now = Logged(listed, record)
  <2>1. Logged(listed, record).damage = {}
    BY <1>10
  <2>2. listed.damage \subseteq Logged(listed, record).damage
    BY <1>4, LoggedFacts
  <2>3. Apart(listed, {id})
    BY <1>5, <2>1, <2>2
  <2>4. Apart(Logged(listed, record), {id})
    BY <1>3, <2>1, <2>3, LoggedApart
  <2>5. Head(t) = name
    BY <1>10, LongQueue
  <2> QED
    BY <1>1, <1>10, <2>4, <2>5
<1> QED
  BY <1>2, <1>6, <1>7, <1>8, <1>9, <1>10

LEMMA HalfUpdateDamage ==
  ASSUME NEW b, IsBooks(b), NEW id, NEW record \in Record, NEW s, NEW now,
         UpdateAt(b, id, record, s, now)
  PROVE  b.damage \subseteq now.damage
<1> DEFINE entered == Entered(b, id, record)
<1> DEFINE entry == UpdatedEntry(b.cycle.rows[id], record)
<1>1. \/ now = b
      \/ CanUpdate(b, id, record.desc) /\ (now = entered \/ now = Logged(entered, record))
  BY DEF UpdateAt
<1>2. CASE CanUpdate(b, id, record.desc)
  <2>1. id \in DOMAIN b.cycle.rows /\ b.cycle.rows[id] \in Entry
    BY <1>2 DEF CanUpdate, IsBooks, IsTable, IsRows
  <2>2. entry \in Entry
    BY <2>1, UpdatedEntryType
  <2>3. entered = [b EXCEPT !.cycle.rows[id] = entry]
    BY DEF Entered
  <2> HIDE DEF entered, entry
  <2>4. entered.damage = b.damage
    BY <2>1, <2>2, <2>3, RewriteKeeps
  <2>5. IsBooks(entered)
    BY <2>1, <2>2, <2>3, RewriteFacts DEF Keeps
  <2>6. entered.damage \subseteq Logged(entered, record).damage
    BY <2>5, LoggedFacts DEF IsBooks
  <2> QED
    BY <1>1, <2>4, <2>6
<1> QED
  BY <1>1, <1>2

LEMMA HalfUpdateApart ==
  ASSUME NEW b, NEW id, Apart(b, {id}), NEW record \in Record, NEW s, NEW now,
         UpdateAt(b, id, record, s, now), now.damage = {}
  PROVE  s.id = id /\ Apart(now, {id})
<1> DEFINE entered == Entered(b, id, record)
<1> DEFINE entry == UpdatedEntry(b.cycle.rows[id], record)
<1>1. s.id = id
  BY DEF UpdateAt, Put, Named
<1>2. \/ now = b
      \/ CanUpdate(b, id, record.desc) /\ (now = entered \/ now = Logged(entered, record))
  BY DEF UpdateAt
<1>3. CASE CanUpdate(b, id, record.desc)
  <2>1. id \in DOMAIN b.cycle.rows /\ b.cycle.rows[id] \in Entry
    BY <1>3 DEF CanUpdate, Apart, IsBooks, IsTable, IsRows
  <2>2. entry \in Entry
    BY <2>1, UpdatedEntryType
  <2>3. entered = [b EXCEPT !.cycle.rows[id] = entry]
    BY DEF Entered
  <2> HIDE DEF entered, entry
  <2>4. Apart(entered, {id})
    BY <2>1, <2>2, <2>3, RewrittenApart
  <2>5. now = Logged(entered, record) => Apart(now, {id})
    BY <2>4, LoggedApart
  <2> QED
    BY <1>1, <1>2, <2>4, <2>5
<1> QED
  BY <1>1, <1>2, <1>3

LEMMA HalfRemoveApart ==
  ASSUME NEW b, NEW id \in Nat, Apart(b, {id}), NEW t, NEW now,
         RemoveAt(b, id, t, now), Head(t).do \notin NamesMissing
  PROVE  Apart(now, {Head(t).id})
<1> DEFINE deleteAll == Do("DeleteRecords", id)
<1> DEFINE drop == Do("DropRecords", id)
<1> DEFINE unlist == Do("DeleteEntryId", id)
<1> DEFINE daily == DeleteRows(b.daily, b.recs[id], Cardinality(b.recs[id]))
<1> DEFINE recs == Restrict(b.recs, DOMAIN b.recs \ {id})
<1>1. CASE t = <<Do("DeleteEntry", id)>> /\ now = b
  BY <1>1 DEF Do
<1>2. CASE t = <<deleteAll, drop, unlist>> /\ now = Gone(b, id, b.daily, b.recs)
  <2>1. Head(t).id = id
    BY <1>2 DEF Do
  <2>2. Taken(b, now, id)
    BY <1>2 DEF Taken, Gone
  <2> QED
    BY <2>1, <2>2, TakenApart
<1>3. CASE t = <<drop, unlist>>
  BY <1>3 DEF Do, NamesMissing
<1>4. CASE id \in DOMAIN b.recs /\ t = <<unlist>> /\ now = Gone(b, id, daily, recs)
  <2>1. Head(t).id = id
    BY <1>4 DEF Do
  <2> HIDE DEF daily, recs
  <2>2. Taken(b, now, id)
    BY <1>4 DEF Taken, Gone, daily, recs
  <2> QED
    BY <2>1, <2>2, TakenApart
<1> QED
  BY <1>1, <1>2, <1>3, <1>4 DEF RemoveAt

LEMMA HalfUndoApart ==
  ASSUME NEW b, NEW id, Apart(b, {id}), NEW t, NEW rest, AtMostOne(rest), NEW now,
         UndoAt(b, id, t, rest, now), Head(t).do \notin NamesMissing
  PROVE  Apart(now, {Head(t).id})
<1> DEFINE last == LastRecord(b, id)
<1> DEFINE unname == Named("UnnameRecord", id, last)
<1> DEFINE rollBack == RollBack(id, b.daily.rows[last].value, PreviousRecord(b, id))
<1> DEFINE delete == Do("DeleteRecord", id)
<1>1. /\ delete.id = id /\ rollBack.id = id /\ unname.do = "UnnameRecord"
  BY DEF Do, Named, RollBack
<1>2. \/ t = <<delete>> \o rest /\ now = b
      \/ /\ CanUndo(b, id)
         /\ \/ t = <<unname, rollBack>> \o rest
            \/ t = <<rollBack>> \o rest /\ now = Erased(b, id)
  BY DEF UndoAt
<1> HIDE DEF last, unname, rollBack, delete
<1>3. CASE t = <<delete>> \o rest /\ now = b
  <2>1. Head(t) = delete
    BY <1>3, Queue
  <2> QED
    BY <1>1, <1>3, <2>1
<1>4. CASE t = <<unname, rollBack>> \o rest
  <2>1. Head(t) = unname
    BY <1>4, Queue
  <2> QED
    BY <1>1, <2>1 DEF NamesMissing
<1>5. CASE CanUndo(b, id) /\ t = <<rollBack>> \o rest /\ now = Erased(b, id)
  <2>1. Head(t) = rollBack
    BY <1>5, Queue
  <2>2. Apart(Erased(b, id), {id})
    BY <1>5, ErasedApart
  <2> QED
    BY <1>1, <1>5, <2>1, <2>2
<1> QED
  BY <1>2, <1>3, <1>4, <1>5

LEMMA HalfApplyApart ==
  ASSUME NEW b, InOrder(b), NEW p \in Policy, p.source \in DOMAIN b.cycle.rows,
         NEW t, NEW now, ApplyAt(b, p, t, now), now.damage = {}
  PROVE  Apart(now, {Head(t).id})
<1> DEFINE credit == Credit(b, p)
<1> DEFINE debit == Debit(b, p)
<1> DEFINE debited == Debited(b, p)
<1> DEFINE next == Put("UpdateRow", p.destination, credit)
<1>1. IsBooks(b) /\ WellFormed(b)
  BY DEF InOrder, Kept, WellFormed
<1>2. /\ debit \in Record /\ credit \in Record
      /\ debit.status # "NEW_ENTRY"
  <2>1. debit \in Record /\ credit \in Record
    BY <1>1, PolicyRecordType DEF Debit, Credit
  <2>2. debit.status = "APPLIED_POLICY"
    BY DEF Debit, PolicyRecord, NewRecord
  <2> QED
    BY <2>1, <2>2
<1>3. \/ \E s : t = <<s, next>> /\ UpdateAt(b, p.source, debit, s, now)
      \/ \E s : t = <<s>> /\ UpdateAt(debited, p.destination, credit, s, now)
  BY DEF ApplyAt
<1>4. debited = Updated(b, p.source, debit)
  BY DEF Debited
<1> HIDE DEF credit, debit, debited, next
<1>5. ASSUME NEW s, t = <<s, next>>, UpdateAt(b, p.source, debit, s, now)
      PROVE  Apart(now, {Head(t).id})
  <2>1. Apart(b, {p.source})
    BY OrderIsApart
  <2>2. s.id = p.source /\ Apart(now, {p.source})
    BY <1>2, <1>5, <2>1, HalfUpdateApart
  <2>3. Head(t) = s
    BY <1>5, LongQueue
  <2> QED
    BY <2>2, <2>3
<1>6. ASSUME NEW s, t = <<s>>, UpdateAt(debited, p.destination, credit, s, now)
      PROVE  Apart(now, {Head(t).id})
  <2>1. debited.damage = {}
    <3>1. IsBooks(debited)
      BY <1>1, <1>2, <1>4, UpdatedFacts DEF Keeps
    <3>2. debited.damage \subseteq now.damage
      BY <1>2, <1>6, <3>1, HalfUpdateDamage
    <3> QED
      BY <3>2
  <2>2. InOrder(debited)
    BY <1>2, <1>4, <2>1, UpdateKeepsOrder
  <2>3. Apart(debited, {p.destination})
    BY <2>2, OrderIsApart
  <2>4. s.id = p.destination /\ Apart(now, {p.destination})
    BY <1>2, <1>6, <2>3, HalfUpdateApart
  <2>5. Head(t) = s
    BY <1>6, LongQueue
  <2> QED
    BY <2>4, <2>5
<1> QED
  BY <1>3, <1>5, <1>6

LEMMA HalfUndoPolicyApart ==
  ASSUME NEW b, InOrder(b), NEW p, NEW t, NEW now, UndoPolicyAt(b, p, t, now),
         Head(t).do \notin NamesMissing
  PROVE  Apart(now, {Head(t).id})
<1>1. CASE UndoAt(b, p.source, t, <<Do("DeleteRecord", p.destination)>>, now)
  <2>1. Apart(b, {p.source})
    BY OrderIsApart
  <2>2. AtMostOne(<<Do("DeleteRecord", p.destination)>>)
    BY DEF AtMostOne
  <2> QED
    BY <1>1, <2>1, <2>2, HalfUndoApart
<1>2. CASE /\ UndoReturns(b, p.source)
           /\ UndoAt(Undone(b, p.source), p.destination, t, <<>>, now)
  <2> DEFINE c == Undone(b, p.source)
  <2>1. c.damage = {}
    BY <1>2, UndoneReturned DEF InOrder, Kept
  <2>2. InOrder(c)
    BY <2>1, UndoKeepsOrder
  <2> HIDE DEF c
  <2>3. Apart(c, {p.destination})
    BY <2>2, OrderIsApart
  <2>4. AtMostOne(<<>>)
    BY DEF AtMostOne
  <2>5. UndoAt(c, p.destination, t, <<>>, now)
    BY <1>2 DEF c
  <2> QED
    BY <2>3, <2>4, <2>5, HalfUndoApart
<1> QED
  BY <1>1, <1>2 DEF UndoPolicyAt

LEMMA CutCallApart ==
  ASSUME NEW b, InOrder(b), NEW c, NEW t, NEW now, NEW rows, IsRows(rows, Policy),
         Runs(c, t, b, now, rows), now.damage = {}, Head(t).do \notin NamesMissing
  PROVE  Apart(now, {Head(t).id})
<1>1. \A id : Apart(b, {id})
  BY OrderIsApart
<1>2. CASE AddRuns(c, t, b, now)
  <2>1. PICK desc \in Descriptions, balance \in Openings :
          AddAt(b, desc, balance, t, now)
    BY <1>2 DEF AddRuns
  <2>2. balance \in Money
    BY LedgerAssumption
  <2> QED
    BY <1>1, <2>1, <2>2, HalfAddApart
<1>3. CASE UpdateRuns(c, t, b, now)
  <2>1. PICK id \in EntryId, record \in Updates :
          \E s : t = <<s>> /\ UpdateAt(b, id, record, s, now)
    BY <1>3 DEF UpdateRuns
  <2>2. PICK s : t = <<s>> /\ UpdateAt(b, id, record, s, now)
    BY <2>1
  <2>3. record \in Record
    BY UpdatesAreRecords
  <2>4. s.id = id /\ Apart(now, {id})
    BY <1>1, <2>2, <2>3, HalfUpdateApart
  <2>5. Head(t) = s
    BY <2>2, LongQueue
  <2> QED
    BY <2>4, <2>5
<1>4. CASE RemoveRuns(c, t, b, now)
  <2>1. PICK id \in EntryId : RemoveAt(b, id, t, now)
    BY <1>4 DEF RemoveRuns
  <2>2. id \in Nat
    BY LedgerAssumption DEF EntryId
  <2> QED
    BY <1>1, <2>1, <2>2, HalfRemoveApart
<1>5. CASE UndoRuns(c, t, b, now)
  <2>1. PICK id \in EntryId : UndoAt(b, id, t, <<>>, now)
    BY <1>5 DEF UndoRuns
  <2>2. AtMostOne(<<>>)
    BY DEF AtMostOne
  <2> QED
    BY <1>1, <2>1, <2>2, HalfUndoApart
<1>6. CASE ApplyRuns(c, t, b, now, rows)
  <2>1. PICK pid \in PolicyId \cap DOMAIN rows :
          /\ rows[pid].source \in DOMAIN b.cycle.rows
          /\ ApplyAt(b, rows[pid], t, now)
    BY <1>6 DEF ApplyRuns
  <2>2. rows[pid] \in Policy
    BY DEF IsRows
  <2> QED
    BY <2>1, <2>2, HalfApplyApart
<1>7. CASE UndoPolicyRuns(c, t, b, now, rows)
  <2>1. PICK pid \in PolicyId \cap DOMAIN rows : UndoPolicyAt(b, rows[pid], t, now)
    BY <1>7 DEF UndoPolicyRuns
  <2> QED
    BY <2>1, HalfUndoPolicyApart
<1> QED
  BY <1>2, <1>3, <1>4, <1>5, <1>6, <1>7 DEF Runs

-----------------------------------------------------------------------------
\* After a crash no policy is applied or undone, so that a call is about one
\* entry; the others are apart from the one that the crash left.
Alone == {"add", "update", "remove", "undo"}

AfterCrash ==
  IF Idle THEN books.damage = {} => Apart(books, {cut.id})
  ELSE /\ Apart(before, {cut.id}) /\ call.op \in Alone
       /\ Runs(call, todo, before, books, policy.rows)

OthersInv == StepsInv /\ (Crashed /\ cut.do \notin NamesMissing => AfterCrash)

LEMMA AloneGoes ==
  ASSUME NEW X, Apart(before, X), call.op \in Alone,
         Runs(call, todo, before, books, policy.rows), Work
  PROVE  Goes
<1>1. IsBooks(before) /\ Stored(before)
  BY DEF Apart
<1>2. ~ApplyRuns(call, todo, before, books, policy.rows)
  BY DEF ApplyRuns, Alone
<1>3. ~UndoPolicyRuns(call, todo, before, books, policy.rows)
  BY DEF UndoPolicyRuns, Alone
<1> QED
  BY <1>1, <1>2, <1>3, AddGoes, UpdateGoes, RemoveGoes, UndoGoes DEF Runs

LEMMA AloneMade ==
  ASSUME NEW b, NEW X, Apart(b, X), NEW c, NEW r, NEW rows, Made(b, c, r, rows),
         r.op \in Alone, c.damage = {}
  PROVE  Apart(c, X)
<1>1. ASSUME NEW desc \in Descriptions, NEW balance \in Openings,
             c = Added(b, desc, balance)
      PROVE  Apart(c, X)
  <2>1. balance \in Money
    BY LedgerAssumption
  <2> QED
    BY <1>1, <2>1, AddKeepsApart
<1>2. ASSUME NEW id, NEW record \in Updates, c = Updated(b, id, record)
      PROVE  Apart(c, X)
  BY <1>2, UpdatesAreRecords, UpdateKeepsApart
<1>3. ASSUME NEW id \in EntryId, c = Removed(b, id) PROVE Apart(c, X)
  <2>1. id \in Nat
    BY LedgerAssumption DEF EntryId
  <2> QED
    BY <1>3, <2>1, RemoveKeepsApart
<1>4. ASSUME NEW id, c = Undone(b, id) PROVE Apart(c, X)
  BY <1>4, UndoKeepsApart
<1>5. \A op, id, returns : r = Reply(op, id, returns) => op \in Alone
  BY DEF Reply
<1>6. "applyPolicy" \notin Alone /\ "undoPolicy" \notin Alone
  BY DEF Alone
<1> QED
  BY <1>1, <1>2, <1>3, <1>4, <1>5, <1>6 DEF Made

\* A step after the crash.
LEMMA OthersGoOn ==
  ASSUME Crashed, AfterCrash, StepsNext, cut'.id = cut.id
  PROVE  AfterCrash'
<1> DEFINE X == {cut.id}
<1>1. CASE Work
  <2>1. ~Idle
    BY <1>1, WorkReturns
  <2>2. /\ Apart(before, X) /\ call.op \in Alone
        /\ Runs(call, todo, before, books, policy.rows)
    BY <2>1 DEF AfterCrash
  <2>3. Goes
    BY <1>1, <2>2, AloneGoes
  <2>4. CASE ~Idle'
    <3>1. call' = call
      BY <1>1, <2>4, WorkReturns
    <3>2. /\ Runs(call', todo', before', books', policy.rows)
          /\ UNCHANGED <<before, policy>>
      BY <2>3, <2>4 DEF Goes, Idle
    <3> QED
      BY <2>2, <2>4, <3>1, <3>2 DEF AfterCrash
  <2>5. CASE Idle'
    <3>1. Made(before, books', reply', policy.rows)
      BY <2>3, <2>5 DEF Goes, Idle
    <3>2. reply'.op \in Alone
      BY <1>1, <2>2, <2>5, WorkReturns
    <3>3. books'.damage = {} => Apart(books', X)
      BY <2>2, <3>1, <3>2, AloneMade
    <3> QED
      BY <2>5, <3>3 DEF AfterCrash
  <2> QED
    BY <2>4, <2>5
<1>2. CASE BeginCall
  <2>1. PICK op, id, t :
          /\ Begin(op, id, t) /\ t # <<>>
          /\ Runs([op |-> op, id |-> id], t, books, books, policy.rows)
    BY <1>2, BeginIsBegun DEF Begun
  <2>2. /\ Idle /\ ~Idle' /\ books.damage = {} /\ before' = books
        /\ UNCHANGED <<books, policy>>
        /\ call' = [op |-> op, id |-> id] /\ todo' = t
    BY <2>1 DEF Begin, Idle, vars
  <2>3. Apart(before', X)
    BY <2>2 DEF AfterCrash
  <2>4. call'.op \in Alone
    BY <1>2 DEF BeginCall, BeginAdd, BeginUpdate, BeginUpdateAs, BeginRemove, BeginUndo,
      BeginApplyPolicy, BeginUndoPolicy, Begin, Alone
  <2>5. Runs(call', todo', before', books', policy'.rows)
    BY <2>1, <2>2
  <2> QED
    BY <2>2, <2>3, <2>4, <2>5 DEF AfterCrash
<1>3. CASE ReopenStep
  <2>1. Idle /\ Idle' /\ books' = Reopened(books)
    BY <1>3 DEF ReopenStep, Reopen, Idle
  <2>2. books'.damage = books.damage
    BY <2>1 DEF Reopened
  <2>3. books'.damage = {} => Apart(books', X)
    BY <2>1, <2>2, ReopenKeepsApart DEF AfterCrash
  <2> QED
    BY <2>1, <2>3 DEF AfterCrash
<1>4. ~Crash /\ (\A p : ~CreatePolicyStep(p))
      /\ (\A pid : ~DeletePolicyStep(pid) /\ ~PolicyCallFailsStep(pid))
  BY DEF Crash, CreatePolicyStep, DeletePolicyStep, PolicyCallFailsStep
<1> QED
  BY <1>1, <1>2, <1>3, <1>4 DEF StepsNext, Work, BeginCall

\* The crash itself.
LEMMA CrashLeavesOthers ==
  ASSUME StepsInv, Crash, cut'.do \notin NamesMissing
  PROVE  AfterCrash'
<1>1. /\ ~Idle /\ InStep /\ Idle' /\ books' = Reopened(books)
      /\ cut' = Cut(call.op, Head(todo).do, Head(todo).id)
  BY DEF Crash, StepsInv, Idle
<1>2. cut'.do = Head(todo).do /\ cut'.id = Head(todo).id
  BY <1>1 DEF Cut
<1>3. /\ InOrder(before) /\ Runs(call, todo, before, books, policy.rows)
      /\ IsRows(policy.rows, Policy)
  BY <1>1 DEF InStep, IsTable
<1>4. ASSUME books'.damage = {} PROVE Apart(books', {cut'.id})
  <2>1. books.damage = {}
    BY <1>1, <1>4 DEF Reopened
  <2>2. Apart(books, {cut'.id})
    BY <1>2, <1>3, <2>1, CutCallApart
  <2> QED
    BY <1>1, <2>2, ReopenKeepsApart
<1> QED
  BY <1>1, <1>4 DEF AfterCrash

LEMMA OthersStep ==
  ASSUME OthersInv, [StepsNext]_stepVars
  PROVE  OthersInv'
<1>1. StepsInv'
  BY StepImplements DEF OthersInv
<1>2. CASE UNCHANGED stepVars
  <2>1. UNCHANGED <<books, policy, reply, call, todo, before, cut>>
    BY <1>2 DEF stepVars, vars, progress
  <2>2. UNCHANGED <<AfterCrash, Crashed>>
    BY <2>1 DEF AfterCrash, Crashed, Idle
  <2> QED
    BY <1>1, <2>1, <2>2 DEF OthersInv
<1>3. CASE StepsNext
  <2>1. CutKept
    BY <1>3, CutStays DEF OthersInv
  <2>2. CASE Crashed
    BY <1>1, <1>3, <2>1, <2>2, OthersGoOn DEF OthersInv, CutKept
  <2>3. CASE Crash
    BY <1>1, <2>3, CrashLeavesOthers DEF OthersInv
  <2>4. CASE ~Crashed /\ ~Crash
    <3>1. UNCHANGED cut
      <4>1. CASE Work
        BY <4>1, <2>4 DEF Work, InsertEntry, InsertEntryId, CreateRecords, InsertRecord,
          NameRecord, UpdateRow, DeleteEntry, DeleteRecords, DropRecords, DeleteEntryId,
          DeleteRecord, DeleteNoRecord, UnnameRecord, RollBackRow, Proceed, Throw
      <4>2. CASE BeginCall
        <5>1. PICK op, id, t : Begin(op, id, t)
          BY <4>2, BeginIsBegun DEF Begun
        <5> QED
          BY <2>4, <5>1 DEF Begin
      <4>3. CASE \/ \E p : CreatePolicyStep(p)
                 \/ \E pid : DeletePolicyStep(pid) \/ PolicyCallFailsStep(pid)
                 \/ ReopenStep
        BY <4>3 DEF CreatePolicyStep, DeletePolicyStep, PolicyCallFailsStep, ReopenStep,
          progress
      <4> QED
        BY <1>3, <2>4, <4>1, <4>2, <4>3 DEF StepsNext, Work, BeginCall
    <3>2. ~Crashed'
      BY <2>4, <3>1 DEF Crashed
    <3> QED
      BY <1>1, <3>2 DEF OthersInv
  <2> QED
    BY <2>2, <2>3, <2>4
<1> QED
  BY <1>2, <1>3

LEMMA OthersInvariance == StepsSpec => []OthersInv
<1>1. StepsInit => OthersInv
  <2> SUFFICES ASSUME StepsInit PROVE OthersInv
    OBVIOUS
  <2>1. ~Crashed
    BY DEF StepsInit, Crashed
  <2> QED
    BY <2>1, StepsStart DEF OthersInv
<1>2. OthersInv /\ [StepsNext]_stepVars => OthersInv'
  BY OthersStep
<1> QED
  BY <1>1, <1>2, PTL DEF StepsSpec

\* The entries outside X are what they should be.
LEMMA ApartIsSound ==
  ASSUME NEW X, Apart(books, X), NEW id, id \notin X, "NEW_ENTRY" \notin GivenStatus
  PROVE  EntrySound(id)
<1>1. Stored(books) /\ Disjoint(books) /\ IsBooks(books)
  BY DEF Apart
<1>2. CASE Absent(books, id)
  BY <1>2 DEF Absent, EntrySound
<1>3. CASE Stands(books, id)
  <2> DEFINE entry == books.cycle.rows[id]
  <2> DEFINE named == books.recs[id]
  <2>1. id \in DOMAIN books.cycle.rows /\ id \in books.entryIds /\ id \in DOMAIN books.recs
    BY <1>3 DEF Stands
  <2>2. named # {} /\ named \subseteq DOMAIN books.daily.rows
    BY <1>1, <1>3, <2>1 DEF Stands, Stored
  <2>3. \A other \in DOMAIN books.recs \ {id} : named \cap books.recs[other] = {}
    BY <1>1, <2>1 DEF Disjoint
  <2>4. entry.balance = Wrap(SumFunctionOnSet(Amount(books), named))
    BY <1>3 DEF Stands, RecordSum
  <2>5. Follows(entry, books.daily.rows[LastRecord(books, id)])
    BY <1>3 DEF Stands
  <2> QED
    BY <2>1, <2>2, <2>3, <2>4, <2>5 DEF EntrySound
<1> QED
  BY <1>2, <1>3 DEF Apart

\* A crash harms no entry but the one whose call it cut short, however many
\* calls, on that entry or on others, follow it: every other entry has a row, an
\* ID and a records table or none of them, names stored records no other entry
\* names, and its balance and last transaction follow from them, until one of
\* the flaws that damage tells apart strikes.  The crashes left out are those
\* where a name outlives its record.
THEOREM OthersAreUnharmed ==
  ASSUME "NEW_ENTRY" \notin GivenStatus
  PROVE  StepsSpec => []OthersUnharmed
<1>1. OthersInv => OthersUnharmed
  <2> SUFFICES ASSUME OthersInv, Idle, books.damage = {}, cut.do \notin NamesMissing,
                      NEW id \in EntryId \ {cut.id}
               PROVE  EntrySound(id)
    BY DEF OthersUnharmed
  <2>1. CASE Crashed
    <3>1. Apart(books, {cut.id})
      BY <2>1 DEF OthersInv, AfterCrash
    <3> QED
      BY <3>1, ApartIsSound
  <2>2. CASE ~Crashed
    <3>1. InOrder(books)
      BY <2>2 DEF OthersInv, StepsInv, InStep, OrderUntilDamage
    <3>2. Apart(books, {cut.id})
      BY <3>1, OrderIsApart
    <3> QED
      BY <3>2, ApartIsSound
  <2> QED
    BY <2>1, <2>2
<1> QED
  BY <1>1, OthersInvariance, PTL
=============================================================================
