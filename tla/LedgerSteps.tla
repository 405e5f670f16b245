---------------------------- MODULE LedgerSteps ----------------------------
(***************************************************************************)
(* TableManager, one step for each SQL statement that writes, and a crash  *)
(* of the program between any two of them.  No call opens a transaction,   *)
(* so SQLite commits every statement by itself, and nothing in the code    *)
(* repairs a file that a crash left halfway through a call.                *)
(*                                                                         *)
(* A running call is the sequence of statements it still has to execute.   *)
(* A statement is executed with the reads that lead up to it; when one of  *)
(* those throws, the rest of the call is dropped.  A statement may bring   *)
(* others with it (an UPDATE of an entry is followed by the INSERT of its  *)
(* record), which come before those already waiting.                       *)
(***************************************************************************)
EXTENDS Ledger, Sequences

CONSTANTS
  Links,    \* bound: <<source, destination>> of the policies created
  MaxAfter  \* bound: calls that begin after a crash

ASSUME StepsAssumption == Links \subseteq EntryId \X EntryId /\ MaxAfter \in Nat

VARIABLES
  call,    \* the call that is running
  todo,    \* the statements it still has to execute
  before,  \* the books when it began, if it is running or was cut short
  cut      \* ghost: the crash, and how many calls have begun since

progress == <<call, todo, before, cut>>
stepVars == <<vars, progress>>

Idle == todo = <<>>

Do(statement, id) == [do |-> statement, id |-> id]
Put(statement, id, record) == [do |-> statement, id |-> id, record |-> record]
Named(statement, id, r) == [do |-> statement, id |-> id, r |-> r]
RollBack(id, value, r) == [do |-> "RollBack", id |-> id, value |-> value, r |-> r]

NoCall == [op |-> "none", id |-> 0]

\* A crash cut the call op short before statement do of entry id.
Cut(op, statement, id) == [op |-> op, do |-> statement, id |-> id, after |-> 0]
Uncut == Cut("none", "none", -1)
Crashed == cut # Uncut

StepsInit ==
  /\ Init
  /\ call = NoCall /\ todo = <<>> /\ before = books /\ cut = Uncut

-----------------------------------------------------------------------------
\* How calls begin.  Bound: none does once a flaw has struck; what happens
\* after that is checked on Ledger.  Bound: no policy is created, applied,
\* undone or deleted after a crash; the updates and undos that it would make
\* are calls of their own.
Begin(op, id, statements) ==
  /\ Idle /\ books.damage = {}
  /\ todo' = statements
  /\ call' = [op |-> op, id |-> id]
  /\ before' = books
  /\ Crashed => cut.after < MaxAfter
  /\ cut' = IF Crashed THEN [cut EXCEPT !.after = @ + 1] ELSE cut
  /\ UNCHANGED vars

BeginAdd(desc, balance) ==
  LET id == books.cycle.nextId
  IN  /\ id < MaxEntry /\ RoomFor(1)
      /\ Begin("add", id,
               <<Put("InsertEntry", id, NewRecord(balance, desc, "NEW_ENTRY"))>>)

BeginUpdateAs(id, value, desc, status) ==
  LET record == NewRecord(value, desc, status)
  IN  /\ RoomFor(1)
      /\ Begin("update", id, <<Put("UpdateRow", id, record)>>)

BeginUpdate(id, value, desc) ==
  BeginUpdateAs(id, value, desc, IF value < 0 THEN "EXPENSE" ELSE "INCOME")

BeginRemove(id) == Begin("remove", id, <<Do("DeleteEntry", id)>>)

BeginUndo(id) == Begin("undo", id, <<Do("DeleteRecord", id)>>)

\* Two calls of update, one after the other.
BeginApplyPolicy(pid) ==
  /\ ~Crashed
  /\ pid \in DOMAIN policy.rows
  /\ policy.rows[pid].source \in DOMAIN books.cycle.rows
  /\ RoomFor(2)
  /\ LET p == policy.rows[pid]
         value == Portion(books, p)
     IN  Begin("applyPolicy", pid,
               <<Put("UpdateRow", p.source, PolicyRecord(p, -value)),
                 Put("UpdateRow", p.destination, PolicyRecord(p, value))>>)

\* Two calls of undo.
BeginUndoPolicy(pid) ==
  /\ ~Crashed
  /\ pid \in DOMAIN policy.rows
  /\ LET p == policy.rows[pid]
     IN  Begin("undoPolicy", pid,
               <<Do("DeleteRecord", p.source), Do("DeleteRecord", p.destination)>>)

-----------------------------------------------------------------------------
\* How they go on.
Running(statement) == ~Idle /\ Head(todo).do = statement

Return(returns) ==
  /\ reply' = Reply(call.op, call.id, returns)
  /\ call' = NoCall
  /\ before' = books'

\* The statement is done and brings more with it; the last one ends the call.
Proceed(more) ==
  /\ todo' = more \o Tail(todo)
  /\ IF todo' = <<>> THEN Return(TRUE) ELSE UNCHANGED <<reply, call, before>>
  /\ UNCHANGED <<policy, cut>>

\* A mutant: an exception only ends the statement it came from.
Swallow == Proceed(<<>>)

\* An exception drops the rest of the call.
Throw ==
  /\ todo' = <<>>
  /\ Return(FALSE)
  /\ UNCHANGED <<policy, cut>>

\* addEntry: INSERT INTO Cycle_Table; m_entry_ids follows at once.
InsertEntry ==
  LET s == Head(todo)
      entry == [balance |-> s.record.value, last |-> 0,
                desc |-> s.record.desc, status |-> "UNKNOWN"]
  IN  /\ Running("InsertEntry")
      /\ books' = [books EXCEPT !.cycle = AddRow(@, entry),
                                !.cached = @ \cup {s.id},
                                !.damage = @ \cup Collision(books.cycle, "cycle")]
      /\ Proceed(<<Do("InsertEntryId", s.id), Do("CreateRecords", s.id),
                   Put("InsertRecord", s.id, s.record)>>)

InsertEntryId ==
  /\ Running("InsertEntryId")
  /\ books' = [books EXCEPT !.entryIds = @ \cup {Head(todo).id}]
  /\ Proceed(<<>>)

CreateRecords ==
  /\ Running("CreateRecords")
  /\ books' = [books EXCEPT !.recs = WithTable(@, Head(todo).id)]
  /\ Proceed(<<>>)

\* addRecord: INSERT INTO Daily_Table.
InsertRecord ==
  LET s == Head(todo)
  IN  /\ Running("InsertRecord")
      /\ books' = [books EXCEPT !.daily = AddRow(@, s.record),
                                !.damage = @ \cup Collision(books.daily, "daily")]
      /\ Proceed(<<Named("NameRecord", s.id, books.daily.nextId)>>)

\* INSERT INTO the records table that Entry_IDs_Table gives for the entry.
NameRecord ==
  LET s == Head(todo)
  IN  /\ Running("NameRecord")
      /\ \/ /\ s.id \in books.entryIds \cap DOMAIN books.recs
            /\ books' = [books EXCEPT !.recs[s.id] = @ \cup {s.r}]
            /\ Proceed(<<>>)
         \/ /\ s.id \notin books.entryIds \cap DOMAIN books.recs
            /\ books' = books
            /\ Throw

\* updateEntry: the entry is read, then written back.
UpdateRow ==
  LET s == Head(todo)
  IN  /\ Running("UpdateRow")
      /\ \/ /\ CanUpdate(books, s.id, s.record.desc)
            /\ books' = [books EXCEPT !.cycle.rows[s.id] = UpdatedEntry(@, s.record)]
            /\ Proceed(<<Put("InsertRecord", s.id, s.record)>>)
         \/ /\ ~CanUpdate(books, s.id, s.record.desc)
            /\ books' = books
            /\ Throw

\* A mutant: the records table goes before the records it names.
DeleteEntryDropFirst ==
  LET id == Head(todo).id
  IN  /\ Running("DeleteEntry")
      /\ books' = [books EXCEPT !.cycle = DeleteRow(@, id), !.cached = @ \ {id}]
      /\ Proceed(<<Do("DropRecords", id), Do("DeleteRecords", id),
                   Do("DeleteEntryId", id)>>)

DeleteEntry ==
  LET id == Head(todo).id
  IN  /\ Running("DeleteEntry")
      /\ books' = [books EXCEPT !.cycle = DeleteRow(@, id), !.cached = @ \ {id}]
      /\ Proceed(<<Do("DeleteRecords", id), Do("DropRecords", id),
                   Do("DeleteEntryId", id)>>)

\* deleteRecords of all the records table names; without one the SELECT
\* throws, with too many the DELETE does.
DeleteRecords ==
  LET id == Head(todo).id
  IN  /\ Running("DeleteRecords")
      /\ \/ /\ id \in DOMAIN books.recs /\ CanDelete(books, id)
            /\ books' = [books EXCEPT !.daily = DeleteRows(@, books.recs[id],
                                                  Cardinality(books.recs[id]))]
            /\ Proceed(<<>>)
         \/ /\ id \in DOMAIN books.recs /\ ~CanDelete(books, id)
            /\ books' = [books EXCEPT !.damage = @ \cup {"remove"}]
            /\ Throw
         \/ id \notin DOMAIN books.recs /\ books' = books /\ Throw

DropRecords ==
  /\ Running("DropRecords")
  /\ books' = [books EXCEPT !.recs = Restrict(@, DOMAIN @ \ {Head(todo).id})]
  /\ Proceed(<<>>)

DeleteEntryId ==
  /\ Running("DeleteEntryId")
  /\ books' = [books EXCEPT !.entryIds = @ \ {Head(todo).id}]
  /\ Proceed(<<>>)

\* A mutant: the entry is rolled back before the record is un-named.
DeleteRecordNameLast ==
  LET id == Head(todo).id
      last == LastRecord(books, id)
  IN  /\ Running("DeleteRecord")
      /\ CanUndo(books, id)
      /\ books' = [books EXCEPT !.daily = DeleteRow(@, last)]
      /\ Proceed(<<RollBack(id, books.daily.rows[last].value, PreviousRecord(books, id)),
                   Named("UnnameRecord", id, last)>>)

\* undo finds the last two records and deletes the last one from DailyTable.
DeleteRecord ==
  LET id == Head(todo).id
      last == LastRecord(books, id)
  IN  /\ Running("DeleteRecord")
      /\ CanUndo(books, id)
      /\ books' = [books EXCEPT !.daily = DeleteRow(@, last)]
      /\ Proceed(<<Named("UnnameRecord", id, last),
                   RollBack(id, books.daily.rows[last].value, PreviousRecord(books, id))>>)

\* There is nothing to undo, and the entry is only read; or a read throws.
DeleteNoRecord ==
  /\ Running("DeleteRecord")
  /\ ~CanUndo(books, Head(todo).id)
  /\ books' = books
  /\ IF UndoReturns(books, Head(todo).id) THEN Proceed(<<>>) ELSE Throw

UnnameRecord ==
  /\ Running("UnnameRecord")
  /\ books' = [books EXCEPT !.recs[Head(todo).id] = @ \ {Head(todo).r}]
  /\ Proceed(<<>>)

\* rollbackEntry with the record before, which is read first.
RollBackRow ==
  LET s == Head(todo)
      readable == /\ s.r \in DOMAIN books.daily.rows
                  /\ CanUpdate(books, s.id, books.daily.rows[s.r].desc)
  IN  /\ Running("RollBack")
      /\ \/ /\ readable
            /\ books' = [books EXCEPT !.cycle.rows[s.id] =
                           RolledBack(@, s.value, books.daily.rows[s.r])]
            /\ Proceed(<<>>)
         \/ /\ ~readable
            /\ books' = [books EXCEPT !.damage = @ \cup {"undo"}]
            /\ Throw

-----------------------------------------------------------------------------
\* Calls with at most one statement, and reopening, are as in Ledger.
CreatePolicyStep(p) == Idle /\ ~Crashed /\ CreatePolicy(p) /\ UNCHANGED progress
DeletePolicyStep(pid) == Idle /\ ~Crashed /\ DeletePolicy(pid) /\ UNCHANGED progress
PolicyCallFailsStep(pid) == Idle /\ ~Crashed /\ PolicyCallFails(pid) /\ UNCHANGED progress

ReopenStep ==
  /\ Idle
  /\ Reopen
  /\ before' = books'
  /\ UNCHANGED <<call, todo, cut>>

\* The program ends between two statements, and is started again on the file.
\* Bound: once.
Crash ==
  /\ ~Idle /\ ~Crashed
  /\ cut' = Cut(call.op, Head(todo).do, Head(todo).id)
  /\ todo' = <<>> /\ call' = NoCall
  /\ books' = Reopened(books)
  /\ policy' = OpenTable(policy.rows)
  /\ reply' = Reply("crash", call.id, FALSE)
  /\ UNCHANGED before

StepsNext ==
  \/ \E desc \in Descriptions :
       \/ \E balance \in Openings : BeginAdd(desc, balance)
       \/ \E id \in EntryId, value \in Values :
            \/ BeginUpdate(id, value, desc)
            \/ \E status \in GivenStatus : BeginUpdateAs(id, value, desc, status)
  \/ \E id \in EntryId : BeginRemove(id) \/ BeginUndo(id)
  \/ \E pid \in PolicyId : \/ BeginApplyPolicy(pid) \/ BeginUndoPolicy(pid)
                           \/ DeletePolicyStep(pid) \/ PolicyCallFailsStep(pid)
  \/ \E p \in Policy : <<p.source, p.destination>> \in Links /\ CreatePolicyStep(p)
  \/ InsertEntry \/ InsertEntryId \/ CreateRecords \/ InsertRecord \/ NameRecord
  \/ UpdateRow
  \/ DeleteEntry \/ DeleteRecords \/ DropRecords \/ DeleteEntryId
  \/ DeleteRecord \/ DeleteNoRecord \/ UnnameRecord \/ RollBackRow
  \/ ReopenStep
  \/ Crash

StepsSpec == StepsInit /\ [][StepsNext]_stepVars

-----------------------------------------------------------------------------
\* Until a crash, whatever the caller asks and whichever flaws strike, the
\* statements of a call together do what Ledger says the call does, and a
\* call that throws halfway leaves what Ledger says it leaves.
Whole == INSTANCE Ledger WITH books <- IF Idle THEN books ELSE before

ImplementsLedger ==
  /\ Whole!Init
  /\ [][~Crashed' => Whole!Next]_<<IF Idle THEN books ELSE before, policy, reply>>

\* The records of the entry are stored and its own, and its balance and last
\* transaction follow from them.
EntrySound(id) ==
  /\ id \in DOMAIN books.cycle.rows <=> id \in books.entryIds
  /\ id \in DOMAIN books.recs <=> id \in books.entryIds
  /\ id \in books.entryIds =>
       LET entry == books.cycle.rows[id]
           named == books.recs[id]
       IN  /\ named # {} /\ named \subseteq DOMAIN books.daily.rows
           /\ \A other \in DOMAIN books.recs \ {id} : named \cap books.recs[other] = {}
           /\ entry.balance = Wrap(SumFunctionOnSet(Amount(books), named))
           /\ Follows(entry, books.daily.rows[LastRecord(books, id)])

\* Between these a record is named that is no longer stored, and its ID will
\* be given to a record of another entry.
NamesMissing == {"UnnameRecord", "DropRecords"}

\* A crash harms no entry but the one whose call it cut short, whatever is
\* called afterwards on either: records, balances and lists of all others
\* stay right, unless it fell where a name outlives its record.
OthersUnharmed ==
  /\ Idle /\ books.damage = {} /\ cut.do \notin NamesMissing
  => \A id \in EntryId \ {cut.id} : EntrySound(id)

\* Nothing has been called since the crash.
JustCrashed == Idle /\ reply.op = "crash"

\* After a crash inside add or remove one more remove of the entry brings the
\* file to what remove alone would have made of it, except in the three places
\* where something is left that no records table leads to.
RemoveHeals ==
  /\ JustCrashed /\ cut.op \in {"add", "remove"}
  /\ cut.do \notin {"CreateRecords", "NameRecord", "DeleteEntryId"}
  => Contents(Removed(books, cut.id)) = Contents(Removed(before, cut.id))

\* After a crash between the two halves of applyPolicy the source is whole: one
\* undo of it brings the file back to what it was before the policy, also when
\* the policy is from an entry to itself, if its state before can be written
\* back.
UndoHeals ==
  \A id \in EntryId :
    /\ JustCrashed /\ cut.op = "applyPolicy" /\ cut.do = "UpdateRow"
    /\ books.daily.rows # before.daily.rows /\ before.damage = {}
    /\ id \in DOMAIN books.recs /\ LastRecord(books, id) \notin DOMAIN before.daily.rows
    /\ LastIsPlain(before, id)
    => Contents(Undone(books, id)) = Contents(before)
=============================================================================
