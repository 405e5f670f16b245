------------------------------- MODULE Ledger -------------------------------
(***************************************************************************)
(* TableManager: the accounts ("entries") in CycleTable, the log of their  *)
(* transactions ("records") in DailyTable, one Records_for_Entry_<id>      *)
(* table for each entry that names its records, the Entry_IDs table, and   *)
(* the policies that move money between two entries.                       *)
(*                                                                         *)
(* The books are one record, and what a call does to them is an operator   *)
(* on books, so that applyPolicy and undoPolicy, which make two calls of   *)
(* update and undo, are the composition of two such operators:             *)
(*   cycle, daily  the two tables, as in TableOps                          *)
(*   entryIds      the rows of Entry_IDs_Table                             *)
(*   recs          the existing Records_for_Entry_<id> tables, by id       *)
(*   cached        m_entry_ids, the set the object keeps in memory         *)
(*   damage        ghost: which of the flaws below has struck              *)
(*                                                                         *)
(* A call is one step: the program is sequential, and calls are not cut    *)
(* short by a crash here.  Dates and names take no part.                   *)
(*                                                                         *)
(* An INSERT binds its texts, an UPDATE of CycleTable is pasted together:  *)
(* there two quotes in a row stand for one, and a single one ends the text.*)
(* That what follows such a quote is a comment, or SQL of its own, is left *)
(* out: callers are taken not to write any, so that the statement is an    *)
(* UPDATE of the one entry or a syntax error.                              *)
(***************************************************************************)
EXTENDS TableOps, Amounts

CONSTANTS
  Openings,     \* balances entries are created with
  Values,       \* amounts of updates, negative for expenses
  Descriptions, \* texts of transactions
  Pasted,       \* for each text, what an UPDATE with it pasted in stores
  Unpastable,   \* the texts with which that UPDATE is a syntax error
  MaxListed,    \* how many IDs the text of one DELETE can list
  GivenStatus,  \* statuses callers pass to update
  Ratios,       \* percentages of policies
  Flaws,        \* bound: which of the flaws that damage tells apart may strike
  MaxEntry, MaxRecord, MaxPolicy  \* bounds: IDs handed out stay below them

Statuses == {"UNKNOWN", "EXPENSE", "INCOME", "NEW_ENTRY", "APPLIED_POLICY"}

ASSUME LedgerAssumption ==
  /\ Openings \subseteq Money /\ Values \subseteq Money /\ Ratios \subseteq Money
  /\ Pasted \in [Descriptions -> Descriptions]
  /\ Unpastable \subseteq Descriptions /\ GivenStatus \subseteq Statuses
  /\ MaxListed \in Nat
  /\ MaxEntry \in Nat /\ MaxRecord \in Nat /\ MaxPolicy \in Nat

VARIABLES
  books,   \* accounts and transactions
  policy,  \* PolicyTable
  reply    \* the last call and whether it returned or threw

vars == <<books, policy, reply>>

Entry == [balance : Money, last : Money, desc : Descriptions, status : Statuses]
Record == [value : Money, desc : Descriptions, status : Statuses]

EntryId == 0..MaxEntry
PolicyId == 0..MaxPolicy
Policy == [source : EntryId, destination : EntryId, ratio : Ratios,
           desc : Descriptions]

-----------------------------------------------------------------------------
\* What the calls do to the books.

NewRecord(value, desc, status) ==
  [value |-> value, desc |-> desc, status |-> status]

\* Which flaw strikes when a row is about to be inserted under a used ID.
Collision(t, name) == IF WillCollide(t) THEN {name} ELSE {}

\* A record is added to DailyTable and then named in the records table that
\* Entry_IDs gives for the entry; without one the second half throws.
Recorded(b, id, record) ==
  LET logged == [b EXCEPT !.daily = AddRow(@, record),
                          !.damage = @ \cup Collision(b.daily, "daily")]
  IN  IF id \in b.entryIds \cap DOMAIN b.recs
        THEN [logged EXCEPT !.recs[id] = @ \cup {b.daily.nextId}]
        ELSE logged

\* CREATE TABLE IF NOT EXISTS Records_for_Entry_<id>.
WithTable(recs, id) ==
  [k \in DOMAIN recs \cup {id} |-> IF k \in DOMAIN recs THEN recs[k] ELSE {}]

\* add: the entry, its ID, its records table (unless it exists), and a first
\* record that holds its initial balance.
Added(b, desc, balance) ==
  LET id == b.cycle.nextId
      entry == [balance |-> balance, last |-> 0, desc |-> desc,
                status |-> "UNKNOWN"]
      listed == [cycle |-> AddRow(b.cycle, entry),
                 daily |-> b.daily,
                 entryIds |-> b.entryIds \cup {id},
                 recs |-> WithTable(b.recs, id),
                 cached |-> b.cached \cup {id},
                 damage |-> b.damage \cup Collision(b.cycle, "cycle")]
  IN  Recorded(listed, id, NewRecord(balance, desc, "NEW_ENTRY"))

\* updateEntry reads the entry and writes it back with the description pasted
\* into the text of the UPDATE, which a single quote makes a syntax error.
CanUpdate(b, id, desc) == id \in DOMAIN b.cycle.rows /\ desc \notin Unpastable

\* A mutant: the amount replaces the last transaction instead of following it.
UpdatedEntryOnce(entry, record) ==
  [balance |-> Wrap(entry.balance - entry.last + record.value),
   last |-> record.value, desc |-> Pasted[record.desc], status |-> record.status]

\* Entry::updateBalance, as __updateEntry__ stores it.
UpdatedEntry(entry, record) ==
  [balance |-> Wrap(entry.balance + record.value), last |-> record.value,
   desc |-> Pasted[record.desc], status |-> record.status]

Updated(b, id, record) ==
  IF CanUpdate(b, id, record.desc)
    THEN Recorded([b EXCEPT !.cycle.rows[id] = UpdatedEntry(@, record)], id, record)
    ELSE b

UpdateReturns(b, id, desc) ==
  CanUpdate(b, id, desc) /\ id \in b.entryIds \cap DOMAIN b.recs

\* A mutant: the records of the entry stay in DailyTable.
RemovedAlone(b, id) ==
  LET gone == [b EXCEPT !.cycle = DeleteRow(@, id), !.cached = @ \ {id}]
  IN  IF id \in DOMAIN b.recs
        THEN [gone EXCEPT !.recs = Restrict(@, DOMAIN @ \ {id}),
                          !.entryIds = @ \ {id}]
        ELSE gone

\* A mutant: the row of Entry_IDs_Table is left behind.
RemovedButListed(b, id) ==
  LET gone == [b EXCEPT !.cycle = DeleteRow(@, id), !.cached = @ \ {id}]
  IN  IF id \in DOMAIN b.recs
        THEN [gone EXCEPT
                !.daily = DeleteRows(@, b.recs[id], Cardinality(b.recs[id])),
                !.recs = Restrict(@, DOMAIN @ \ {id})]
        ELSE gone

\* The records of the entry can be named in the text of one DELETE.
CanDelete(b, id) == Cardinality(b.recs[id]) <= MaxListed

\* remove: without a records table, or with more records than a statement can
\* name, it throws after deleteEntry.
Removed(b, id) ==
  LET gone == [b EXCEPT !.cycle = DeleteRow(@, id), !.cached = @ \ {id}]
  IN  IF id \notin DOMAIN b.recs THEN gone
      ELSE IF ~CanDelete(b, id) THEN [gone EXCEPT !.damage = @ \cup {"remove"}]
      ELSE [gone EXCEPT
              !.daily = DeleteRows(@, b.recs[id], Cardinality(b.recs[id])),
              !.recs = Restrict(@, DOMAIN @ \ {id}),
              !.entryIds = @ \ {id}]

RemoveReturns(b, id) == id \in DOMAIN b.recs /\ CanDelete(b, id)

\* The entry's most recent record and the one before it.
LastRecord(b, id) == Max(b.recs[id])
PreviousRecord(b, id) == Max(b.recs[id] \ {LastRecord(b, id)})

\* A mutant: the entry takes its last transaction from the undone record.
RolledBackHalf(entry, value, record) ==
  [balance |-> Wrap(entry.balance - value), last |-> value,
   desc |-> Pasted[record.desc], status |-> record.status]

\* Entry::rollbackBalance, as __updateEntry__ stores it.
RolledBack(entry, value, record) ==
  LET first == record.status = "NEW_ENTRY"
  IN  [balance |-> Wrap(entry.balance - value),
       last |-> IF first THEN 0 ELSE record.value,
       desc |-> Pasted[record.desc],
       status |-> IF first THEN "UNKNOWN" ELSE record.status]

\* undo has something to undo, and can read it.
CanUndo(b, id) ==
  /\ id \in DOMAIN b.recs
  /\ Cardinality(b.recs[id]) >= 2
  /\ LastRecord(b, id) \in DOMAIN b.daily.rows

\* After deleting the last record, undo reads the one before it and writes
\* the entry back with its description, by the same UPDATE as updateEntry.
Restorable(b, id) ==
  LET previous == PreviousRecord(b, id)
  IN  /\ previous \in DOMAIN b.daily.rows
      /\ CanUpdate(b, id, b.daily.rows[previous].desc)

\* A mutant: the last record is deleted from DailyTable only.
UndoneStillNamed(b, id) ==
  LET last == LastRecord(b, id)
      previous == PreviousRecord(b, id)
  IN  IF CanUndo(b, id) /\ Restorable(b, id)
        THEN [b EXCEPT !.daily = DeleteRow(@, last),
                       !.cycle.rows[id] = RolledBack(@, b.daily.rows[last].value,
                                                     b.daily.rows[previous])]
        ELSE b

Undone(b, id) ==
  LET last == LastRecord(b, id)
      previous == PreviousRecord(b, id)
      erased == [cycle |-> b.cycle,
                 daily |-> DeleteRow(b.daily, last),
                 entryIds |-> b.entryIds,
                 recs |-> [b.recs EXCEPT ![id] = @ \ {last}],
                 cached |-> b.cached,
                 damage |-> b.damage]
  IN  IF ~CanUndo(b, id) THEN b
      ELSE IF ~Restorable(b, id) THEN [erased EXCEPT !.damage = @ \cup {"undo"}]
      ELSE [erased EXCEPT !.cycle.rows[id] =
              RolledBack(@, b.daily.rows[last].value, b.daily.rows[previous])]

\* With fewer than two records undo only reads the entry.
UndoReturns(b, id) ==
  /\ id \in DOMAIN b.recs /\ id \in DOMAIN b.cycle.rows
  /\ Cardinality(b.recs[id]) >= 2 => CanUndo(b, id) /\ Restorable(b, id)

\* Policy::calculateRatioOfBalance, for the source entry of policy p.
Portion(b, p) == Hundredth(Wrap(b.cycle.rows[p.source].balance * p.ratio))

PolicyRecord(p, value) == NewRecord(value, p.desc, "APPLIED_POLICY")

\* A mutant: the destination is paid a share of what the source has left.
AppliedAfresh(b, p) ==
  LET debited == Updated(b, p.source, PolicyRecord(p, -Portion(b, p)))
  IN  IF UpdateReturns(b, p.source, p.desc)
        THEN Updated(debited, p.destination, PolicyRecord(p, Portion(debited, p)))
        ELSE debited

\* applyPolicy: two updates, the second only if the first returned.
Applied(b, p) ==
  LET value == Portion(b, p)
      debited == Updated(b, p.source, PolicyRecord(p, -value))
  IN  IF UpdateReturns(b, p.source, p.desc)
        THEN Updated(debited, p.destination, PolicyRecord(p, value))
        ELSE debited

ApplyReturns(b, p) ==
  /\ UpdateReturns(b, p.source, p.desc)
  /\ UpdateReturns(b, p.destination, p.desc)

\* A mutant: only the source is undone.
SourceUndone(b, p) == Undone(b, p.source)

\* undoPolicy: two undos, whatever the last records are.
PolicyUndone(b, p) ==
  IF UndoReturns(b, p.source)
    THEN Undone(Undone(b, p.source), p.destination)
    ELSE Undone(b, p.source)

PolicyUndoReturns(b, p) ==
  /\ UndoReturns(b, p.source)
  /\ UndoReturns(Undone(b, p.source), p.destination)

\* A new TableManager on the same file.
Reopened(b) ==
  [cycle |-> OpenTable(b.cycle.rows), daily |-> OpenTable(b.daily.rows),
   entryIds |-> b.entryIds, recs |-> b.recs, cached |-> b.entryIds,
   damage |-> b.damage]

-----------------------------------------------------------------------------
NoRows == [k \in {} |-> {}]

Reply(op, id, returns) ==
  [op |-> op, id |-> id, outcome |-> IF returns THEN "ok" ELSE "throws"]

Init ==
  /\ books = [cycle |-> OpenTable(NoRows), daily |-> OpenTable(NoRows),
              entryIds |-> {}, recs |-> NoRows, cached |-> {}, damage |-> {}]
  /\ policy = OpenTable(NoRows)
  /\ reply = Reply("open", 0, TRUE)

\* Bounds: there are IDs left for n more records, and a call in which a flaw
\* strikes is left out of the behaviours unless Flaws has it.
RoomFor(n) == books.daily.nextId + n <= MaxRecord
WithinFlaws == books'.damage \subseteq Flaws

Add(desc, balance) ==
  /\ books.cycle.nextId < MaxEntry /\ RoomFor(1)
  /\ books' = Added(books, desc, balance)
  /\ WithinFlaws
  /\ reply' = Reply("add", books.cycle.nextId, TRUE)
  /\ UNCHANGED policy

\* update with a status.
UpdateAs(id, value, desc, status) ==
  /\ RoomFor(1)
  /\ books' = Updated(books, id, NewRecord(value, desc, status))
  /\ WithinFlaws
  /\ reply' = Reply("update", id, UpdateReturns(books, id, desc))
  /\ UNCHANGED policy

\* update without one: Entry::updateBalance derives it from the sign.
Update(id, value, desc) ==
  UpdateAs(id, value, desc, IF value < 0 THEN "EXPENSE" ELSE "INCOME")

Remove(id) ==
  /\ books' = Removed(books, id)
  /\ WithinFlaws
  /\ reply' = Reply("remove", id, RemoveReturns(books, id))
  /\ UNCHANGED policy

Undo(id) ==
  /\ books' = Undone(books, id)
  /\ WithinFlaws
  /\ reply' = Reply("undo", id, UndoReturns(books, id))
  /\ UNCHANGED policy

\* createPolicy: nothing is asked of the entries it links.
CreatePolicy(p) ==
  /\ policy.nextId < MaxPolicy
  /\ policy' = AddRow(policy, p)
  /\ reply' = Reply("createPolicy", policy.nextId, TRUE)
  /\ UNCHANGED books

DeletePolicy(pid) ==
  /\ policy' = DeleteRow(policy, pid)
  /\ reply' = Reply("deletePolicy", pid, TRUE)
  /\ UNCHANGED books

\* applyPolicy reads the policy and its source entry first.
ApplyPolicy(pid) ==
  /\ pid \in DOMAIN policy.rows
  /\ policy.rows[pid].source \in DOMAIN books.cycle.rows
  /\ RoomFor(2)
  /\ books' = Applied(books, policy.rows[pid])
  /\ WithinFlaws
  /\ reply' = Reply("applyPolicy", pid, ApplyReturns(books, policy.rows[pid]))
  /\ UNCHANGED policy

UndoPolicy(pid) ==
  /\ pid \in DOMAIN policy.rows
  /\ books' = PolicyUndone(books, policy.rows[pid])
  /\ WithinFlaws
  /\ reply' = Reply("undoPolicy", pid, PolicyUndoReturns(books, policy.rows[pid]))
  /\ UNCHANGED policy

\* What a policy call needs is not there: the read throws.
PolicyCallFails(pid) ==
  /\ \/ /\ pid \notin DOMAIN policy.rows
        /\ \E op \in {"applyPolicy", "undoPolicy"} : reply' = Reply(op, pid, FALSE)
     \/ /\ pid \in DOMAIN policy.rows
        /\ policy.rows[pid].source \notin DOMAIN books.cycle.rows
        /\ reply' = Reply("applyPolicy", pid, FALSE)
  /\ UNCHANGED <<books, policy>>

\* The object is destroyed and another is made on the same file.
Reopen ==
  /\ books' = Reopened(books)
  /\ policy' = OpenTable(policy.rows)
  /\ reply' = Reply("open", 0, TRUE)

Next ==
  \/ \E desc \in Descriptions :
       \/ \E balance \in Openings : Add(desc, balance)
       \/ \E id \in EntryId, value \in Values :
            \/ Update(id, value, desc)
            \/ \E status \in GivenStatus : UpdateAs(id, value, desc, status)
  \/ \E id \in EntryId : Remove(id) \/ Undo(id)
  \/ \E p \in Policy : CreatePolicy(p)
  \/ \E pid \in PolicyId : \/ DeletePolicy(pid) \/ ApplyPolicy(pid)
                           \/ UndoPolicy(pid) \/ PolicyCallFails(pid)
  \/ Reopen

Spec == Init /\ [][Next]_vars

-----------------------------------------------------------------------------
IsBooks(b) ==
  /\ b = [cycle |-> b.cycle, daily |-> b.daily, entryIds |-> b.entryIds,
          recs |-> b.recs, cached |-> b.cached, damage |-> b.damage]
  /\ IsTable(b.cycle, Entry) /\ b.cycle.count >= 0
  /\ IsTable(b.daily, Record) /\ b.daily.count >= 0
  /\ b.entryIds \subseteq Nat
  /\ b.recs \in [DOMAIN b.recs -> SUBSET Nat]
  /\ \A id \in DOMAIN b.recs : IsFiniteSet(b.recs[id])
  /\ b.damage \subseteq {"cycle", "daily", "undo", "remove"}

TypeOK ==
  /\ IsBooks(books)
  /\ IsTable(policy, Policy) /\ policy.count >= 0
  /\ reply.outcome \in {"ok", "throws"}

\* The four places that list the entries agree, but that a refused removal
\* may leave an entry in the others that CycleTable no longer has.
EntriesAgree(b) ==
  /\ DOMAIN b.recs = b.entryIds
  /\ b.cached \subseteq b.entryIds
  /\ DOMAIN b.cycle.rows \subseteq b.cached
  /\ "remove" \notin b.damage => b.entryIds \subseteq DOMAIN b.cycle.rows

\* CycleTable, Entry_IDs_Table, the existing records tables and m_entry_ids
\* never disagree on which entries there are: no call may leave a half-removed
\* or half-added entry, whatever it is given and whichever other flaw has
\* struck.  After a removal that met an entry with too many records the others
\* may list more, but every entry of CycleTable still is in all of them.
SameEntries == EntriesAgree(books)

Partitioned(b) ==
  /\ DOMAIN b.daily.rows = UNION {b.recs[id] : id \in DOMAIN b.recs}
  /\ \A id, other \in DOMAIN b.recs :
       id # other => b.recs[id] \cap b.recs[other] = {}

\* Every record belongs to exactly one entry and no entry names a record that
\* is gone, though three tables with separate counters hold them.
RecordsPartition == Partitioned(books)

\* The amounts of all records, by ID.
Amount(b) == [r \in DOMAIN b.daily.rows |-> b.daily.rows[r].value]

Balanced(b) ==
  \A id \in DOMAIN b.cycle.rows :
    b.cycle.rows[id].balance = Wrap(SumFunctionOnSet(Amount(b), b.recs[id]))

\* The balance CycleTable keeps for an entry is the sum of the entry's
\* records, across updates, undos, policies and reopenings, and when a balance
\* has left the width of an amount and come back: the overflow is undone too.
BooksBalance == Balanced(books)

\* An entry says of its last transaction what the record says: nothing but the
\* description if that is the one add made.  add binds its text, unlike an UPDATE.
Follows(entry, record) ==
  LET first == record.status = "NEW_ENTRY"
  IN  /\ entry.last = IF first THEN 0 ELSE record.value
      /\ entry.status = IF first THEN "UNKNOWN" ELSE record.status
      /\ entry.desc = Pasted[record.desc] \/ (first /\ entry.desc = record.desc)

Mirrored(b) ==
  \A id \in DOMAIN b.cycle.rows :
    Follows(b.cycle.rows[id], b.daily.rows[LastRecord(b, id)])

\* What an entry says of its last transaction is what its latest record says,
\* its description up to the quotes that the UPDATE takes: reused record IDs
\* keep the order.
EntryMirrorsLastRecord == Mirrored(books)

\* The contents of the file, without the object's counters.
Contents(b) == <<b.cycle.rows, b.daily.rows, b.recs, b.entryIds>>

\* The UPDATE of undo can restore the entry to its latest record, and if that is
\* the one add made, to the text add bound.
LastIsPlain(b, id) ==
  LET last == b.daily.rows[LastRecord(b, id)]
  IN  /\ CanUpdate(b, id, last.desc)
      /\ last.status = "NEW_ENTRY" => Pasted[last.desc] = last.desc

\* undo takes back any update that stored its record, restoring every table,
\* for every entry whose state before it can be written back.
UndoInvertsUpdate ==
  \A id \in DOMAIN books.cycle.rows, value \in Values, desc \in Descriptions,
     status \in GivenStatus :
    LET updated == Updated(books, id, NewRecord(value, desc, status))
    IN  /\ UpdateReturns(books, id, desc) /\ updated.damage = {}
        /\ LastIsPlain(books, id)
        => Contents(Undone(updated, id)) = Contents(books)

\* undoPolicy takes back applyPolicy on both entries, also when they are one.
UndoPolicyInvertsApply ==
  \A pid \in DOMAIN policy.rows :
    LET p == policy.rows[pid]
    IN  /\ ApplyReturns(books, p) /\ Applied(books, p).damage = {}
        /\ LastIsPlain(books, p.source) /\ LastIsPlain(books, p.destination)
        => Contents(PolicyUndone(Applied(books, p), p)) = Contents(books)

\* The money in all entries together.
Balance(b) == [id \in DOMAIN b.cycle.rows |-> b.cycle.rows[id].balance]
Total(b) == SumFunction(Balance(b))

\* An applyPolicy that returns moves money and makes or loses none, whatever
\* the ratio, its sign, the rounding and an overflow of the share: the total
\* is kept, up to the width of an amount if a balance itself overflows.
TransferConserves ==
  [][reply'.op = "applyPolicy" /\ reply'.outcome = "ok" =>
       Wrap(Total(books') - Total(books)) = 0]_vars

-----------------------------------------------------------------------------
\* What the project's documents say, and the code does not do.

\* table_manager.h on undo: "Undoes last operation with existing entry,
\* rolling its state back to last transaction".
UndoRollsBack ==
  [][reply'.op = "undo" =>
       \A id \in DOMAIN books.recs \cap {reply'.id} :
         \A r \in books.recs[id] \ books'.recs[id] :
           books'.cycle.rows[id].balance =
             Wrap(books.cycle.rows[id].balance - books.daily.rows[r].value)]_vars

\* table_manager.h on applyPolicy: "Pair of records, corresponding to applied
\* policy: first for source entry, second for destination entry", so that a
\* call moves the money or does nothing, also when the destination is an entry
\* that was removed: its ID had been handed out.
TransferIsWhole ==
  [][/\ reply'.op = "applyPolicy" /\ reply'.id \in DOMAIN policy.rows
     /\ policy.rows[reply'.id].destination < books.cycle.nextId
     => Total(books') = Total(books)]_vars
=============================================================================
