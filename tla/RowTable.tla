------------------------------ MODULE RowTable ------------------------------
(***************************************************************************)
(* One table object (CycleTable, DailyTable or PolicyTable, which repeat   *)
(* the same code) over its iDatabase part and its SQLite file: the public  *)
(* operations, construction and destruction, and what each operation does  *)
(* to the object's only prepared-statement slot.                           *)
(*                                                                         *)
(* The program is sequential and every SQL statement commits by itself, so *)
(* an operation is one step.                                               *)
(***************************************************************************)
EXTENDS TableOps

CONSTANTS
  Row,          \* what a row holds besides its ID
  Pasted,       \* for each row, what an UPDATE with its values pasted in stores
  Unpastable,   \* the rows with which that UPDATE is a syntax error
  MaxId,        \* bound: IDs handed out stay below MaxId
  MaxOverlap,   \* bound: on how many elements of a vector of IDs repeat others
  MaxListed,    \* how many IDs the text of one DELETE can list
  MaxThrows     \* bound: on the operations that throw halfway

\* An INSERT binds its values, so it stores any row as it is.  An UPDATE is
\* pasted together as text, where two quotes in a row stand for one and a
\* single one ends the value; texts that go on from there to cut off or add to
\* the statement are left out.
ASSUME RowAssumption == Pasted \in [Row -> Row] /\ Unpastable \subseteq Row

ASSUME BoundsAssumption ==
  /\ MaxId \in Nat /\ MaxOverlap \in Nat /\ MaxThrows \in Nat
  /\ MaxListed \in Nat

VARIABLES
  table,      \* the rows in the file and the object's counters (TableOps)
  statement,  \* statements m_db_statement points to: 0 or 1
  leaked,     \* unfinalized statements of this connection nothing points to
  unclosed,   \* connections that sqlite3_close refused to release
  lost,       \* ghost: INSERTs since the opening that stored nothing (2: or more)
  throws,     \* ghost: operations that threw before finalizing their statement
  reply       \* the last operation, the IDs it named, how it ended and the
              \* rows it returned

vars == <<table, statement, leaked, unclosed, lost, throws, reply>>

opened == table.count >= 0

\* IDs a caller may name: any existing or future one, and one never issued.
Id == 0..MaxId

NoRows == [k \in {} |-> {}]
Single(id, row) == [k \in {id} |-> row]

Reply(op, ids, outcome, rows) ==
  [op |-> op, ids |-> ids, outcome |-> outcome, rows |-> rows]

Outcomes == {"ok", "TableException", "logic_error"}

TypeOK ==
  /\ IsTable(table, Row)
  /\ statement \in {0, 1}
  /\ leaked \in Nat /\ unclosed \in Nat /\ lost \in 0..2 /\ throws \in Nat
  /\ reply.outcome \in Outcomes

-----------------------------------------------------------------------------
\* Every operation prepares over m_db_statement without looking at it: a
\* statement left there is leaked.  A read that throws does so before it
\* finalizes its own.
AbandonStatement == statement' = 1 /\ leaked' = leaked + statement

\* All other operations finalize the statements they prepared.
RunStatements == statement' = 0 /\ leaked' = leaked + statement

Init ==
  /\ table = OpenTable(NoRows)
  /\ statement = 0 /\ leaked = 0 /\ unclosed = 0 /\ lost = 0 /\ throws = 0
  /\ reply = Reply("open", {}, "ok", NoRows)

\* addEntry, addRecord, addPolicy.
Add(row) ==
  /\ opened
  /\ table.nextId < MaxId
  /\ table' = AddRow(table, row)
  /\ lost' = IF WillCollide(table) /\ lost < 2 THEN lost + 1 ELSE lost
  /\ reply' = Reply("add", {table.nextId}, "ok", Single(table.nextId, row))
  /\ RunStatements
  /\ UNCHANGED <<unclosed, throws>>

\* readEntry, readRecord, readPolicy of a row that is there.
ReadRow(id) ==
  /\ opened
  /\ id \in DOMAIN table.rows
  /\ reply' = Reply("read", {id}, "ok", Single(id, table.rows[id]))
  /\ RunStatements
  /\ UNCHANGED <<table, unclosed, lost, throws>>

\* The same of a row that is not there, by itself or as the first step of an
\* update: its column 0 reads as 0, so the assertion id == i_id only catches
\* an ID other than 0; for 0 the code goes on to build a string from the NULL
\* of the next text column.
ReadMissing(op, id) ==
  /\ opened
  /\ id \notin DOMAIN table.rows
  /\ throws < MaxThrows
  /\ reply' = Reply(op, {id},
                    IF id = 0 THEN "logic_error" ELSE "TableException", NoRows)
  /\ AbandonStatement
  /\ throws' = throws + 1
  /\ UNCHANGED <<table, unclosed, lost>>

\* updateEntry (both) and rollbackEntry, of CycleTable alone: the row is read,
\* changed in memory to the given row, written over and returned.
Update(id, row) ==
  /\ opened
  /\ id \in DOMAIN table.rows
  /\ row \notin Unpastable
  /\ table' = RewriteRow(table, id, Pasted[row])
  /\ reply' = Reply("update", {id}, "ok", Single(id, row))
  /\ RunStatements
  /\ UNCHANGED <<unclosed, lost, throws>>

\* The same when the UPDATE cannot be prepared.
UpdateFails(id, row) ==
  /\ opened
  /\ id \in DOMAIN table.rows
  /\ row \in Unpastable
  /\ reply' = Reply("update", {id}, "TableException", NoRows)
  /\ RunStatements
  /\ UNCHANGED <<table, unclosed, lost, throws>>

\* listEntries, listRecords: the loop runs while sqlite3_step returns
\* SQLITE_OK, which it never does for a query, so no row is ever listed.
List ==
  /\ opened
  /\ reply' = Reply("list", {}, "ok", NoRows)
  /\ RunStatements
  /\ UNCHANGED <<table, unclosed, lost, throws>>

\* deleteEntry, deleteRecord, deletePolicy.
Delete(id) ==
  /\ opened
  /\ table' = DeleteRow(table, id)
  /\ reply' = Reply("delete", {id}, "ok", NoRows)
  /\ RunStatements
  /\ UNCHANGED <<unclosed, lost, throws>>

\* deleteEntries, deleteRecords, deletePolicies: a vector with the values
\* ids, overlap of whose elements repeat others.
DeleteMany(ids, overlap) ==
  /\ opened
  /\ overlap > 0 => ids # {}
  /\ Cardinality(ids) + overlap <= MaxListed
  /\ table' = DeleteRows(table, ids, Cardinality(ids) + overlap)
  /\ reply' = Reply("deleteMany", ids, "ok", NoRows)
  /\ RunStatements
  /\ UNCHANGED <<unclosed, lost, throws>>

\* The same with a vector whose text is longer than the statements that
\* __open_database__ lets SQLite accept: the preparation fails.
DeleteTooMany(ids, overlap) ==
  /\ opened
  /\ overlap > 0 => ids # {}
  /\ Cardinality(ids) + overlap > MaxListed
  /\ reply' = Reply("deleteMany", ids, "TableException", NoRows)
  /\ RunStatements
  /\ UNCHANGED <<table, unclosed, lost, throws>>

\* A mutant: the statements nothing points to are carried along instead of
\* being counted once, with the connection they keep.
CloseKeepingLeaks ==
  /\ opened
  /\ table' = CloseTable(table)
  /\ statement' = 0 /\ leaked' = leaked
  /\ unclosed' = IF leaked > 0 THEN unclosed + 1 ELSE unclosed
  /\ reply' = Reply("close", {}, "ok", NoRows)
  /\ UNCHANGED <<lost, throws>>

\* The destructor: __close_database__ finalizes the statement it knows of;
\* sqlite3_close refuses a connection with other statements, and its result
\* is ignored while the handle is forgotten.
Close ==
  /\ opened
  /\ table' = CloseTable(table)
  /\ statement' = 0 /\ leaked' = 0
  /\ unclosed' = IF leaked > 0 THEN unclosed + 1 ELSE unclosed
  /\ reply' = Reply("close", {}, "ok", NoRows)
  /\ UNCHANGED <<lost, throws>>

\* A constructor on the same file.
Open ==
  /\ ~opened
  /\ table' = OpenTable(table.rows)
  /\ lost' = 0
  /\ reply' = Reply("open", {}, "ok", NoRows)
  /\ RunStatements
  /\ UNCHANGED <<unclosed, throws>>

-----------------------------------------------------------------------------
Next ==
  \/ \E row \in Row : Add(row)
  \/ \E id \in Id : ReadRow(id) \/ Delete(id)
  \/ \E op \in {"read", "update"}, id \in Id : ReadMissing(op, id)
  \/ \E id \in Id, row \in Row : Update(id, row) \/ UpdateFails(id, row)
  \/ List
  \/ \E ids \in SUBSET Id, overlap \in 0..MaxOverlap :
       DeleteMany(ids, overlap) \/ DeleteTooMany(ids, overlap)
  \/ Close
  \/ Open

Spec == Init /\ [][Next]_vars

\* A caller that names only rows it has added and not yet deleted, and never
\* the same one twice in a vector.
CarefulNext ==
  \/ \E row \in Row : Add(row)
  \/ \E id \in DOMAIN table.rows : ReadRow(id) \/ Delete(id)
  \/ \E id \in DOMAIN table.rows, row \in Row :
       Update(id, row) \/ UpdateFails(id, row)
  \/ List
  \/ \E ids \in SUBSET DOMAIN table.rows : DeleteMany(ids, 0) \/ DeleteTooMany(ids, 0)
  \/ Close
  \/ Open

CarefulSpec == Init /\ [][CarefulNext]_vars

-----------------------------------------------------------------------------
\* m_rows never understates the rows in the file: otherwise it could reach
\* zero, and next_id with it, over rows that still exist.
CountCoversRows == opened => CountCovers(table)

\* Every stored ID is below next_id, so the next INSERT cannot hit a used
\* key; the one exception is an object just opened on a file whose only row
\* has ID 0, which __init__ mistakes for an empty one.
NextIdAhead ==
  opened => IdsAhead(table) \/ MistakenForEmpty(table)

\* For a careful caller the flaw in __init__ costs at most one row for each
\* time the file is opened, however the object is used after that.
OneLossPerOpening == lost <= 1

\* Whatever the caller does, what stays behind is accounted for: the statement
\* in the slot, the statements nothing points to and the connections that were
\* never released are together at most as many as the operations that threw
\* over a missing row, over any number of openings.  Every other operation,
\* an UPDATE or DELETE that cannot be prepared included, cleans up, and a
\* connection swallows the statements that kept it from being released.
HandlesAccounted == statement + leaked + unclosed <= throws

\* Whatever the caller does, the damage is bounded by the drift of m_rows:
\* the rows next_id has fallen behind, which later additions collide with,
\* are at most as many as m_rows falls short of the file by, and one more
\* for the flaw in __init__.  In particular m_rows exceeds the file by at
\* most one.
RiskBoundedByDrift == opened => DriftBounded(table)

\* To a careful caller the table keeps the promise of RowStore, call by call
\* and across destruction and reopening, but for three things the code does
\* otherwise: an addition after __init__ has mistaken the file for an empty one
\* stores nothing, a list is empty, and an UPDATE stores what its pasted text
\* means rather than the row it returns.
Store == INSTANCE RowStore
           WITH Ids <- 0..MaxId, stored <- table.rows, answer <- reply

LostAddition ==
  /\ MistakenForEmpty(table) /\ reply'.op = "add"
  /\ table'.rows = table.rows

ListsNothing ==
  /\ reply' = Reply("list", {}, "ok", NoRows)
  /\ table'.rows = table.rows

MisstoredUpdate ==
  \E id \in DOMAIN table.rows, row \in Row :
    /\ Pasted[row] # row
    /\ reply' = Reply("update", {id}, "ok", Single(id, row))
    /\ table'.rows = [table.rows EXCEPT ![id] = Pasted[row]]

ImplementsStore ==
  /\ Store!StoreInit
  /\ [][Store!StoreNext \/ LostAddition \/ ListsNothing \/ MisstoredUpdate]_
       (Store!storeVars)

-----------------------------------------------------------------------------
\* What the project's documents and tests say, and the code does not do.

\* cycle_table.h, daily_table.h, policy_table.h: what add returns "will also
\* be stored into SQLite database".
AddedIsStored ==
  reply.op = "add" => \A id \in reply.ids : /\ id \in DOMAIN table.rows
                                           /\ table.rows[id] = reply.rows[id]
=============================================================================
