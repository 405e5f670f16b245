------------------------------ MODULE TableOps ------------------------------
(***************************************************************************)
(* The bookkeeping CycleTable, DailyTable and PolicyTable share, each with *)
(* its own copy of the code, on top of iDatabase: how rows get their       *)
(* primary keys, and how the object's cached counters follow the file.     *)
(*                                                                         *)
(* A table is a record:                                                    *)
(*   rows    the rows in the SQLite file, by primary key ID                *)
(*   nextId  iDatabase::m_next_id, the ID the next row will be given       *)
(*   count   iDatabase::m_rows, the cached number of rows (-1: not read)   *)
(* Only rows survives the object; nextId and count are rebuilt on opening. *)
(***************************************************************************)
EXTENDS Integers, FiniteSets, FiniteSetsExt, Functions

\* Rows of type Row under finitely many natural keys.
IsRows(rows, Row) ==
  /\ rows \in [DOMAIN rows -> Row]
  /\ DOMAIN rows \subseteq Nat
  /\ IsFiniteSet(DOMAIN rows)

IsTable(t, Row) ==
  /\ t = [rows |-> t.rows, nextId |-> t.nextId, count |-> t.count]
  /\ IsRows(t.rows, Row)
  /\ t.nextId \in Nat
  /\ t.count \in Nat \cup {-1}

-----------------------------------------------------------------------------
\* SELECT MAX(ID): NULL for an empty table, which column_int64 reads as 0.
LastId(rows) == IF DOMAIN rows = {} THEN 0 ELSE Max(DOMAIN rows)

\* INSERT INTO ... VALUES(id, ...): a row whose ID is taken violates the
\* primary key; the result of sqlite3_step is ignored and the row is lost.
InsertRow(rows, id, row) ==
  [k \in DOMAIN rows \cup {id} |-> IF k \in DOMAIN rows THEN rows[k] ELSE row]

\* DELETE FROM ... WHERE ID IN(ids): keys that are not there are no error.
WithoutRows(rows, ids) == Restrict(rows, DOMAIN rows \ ids)

-----------------------------------------------------------------------------
\* __init__: count the rows and resume after the last ID.  MAX(ID) = 0 is
\* taken for an empty table, also when it is the ID of the only row.
OpenTable(rows) ==
  [rows |-> rows,
   nextId |-> IF LastId(rows) = 0 THEN 0 ELSE LastId(rows) + 1,
   count |-> Cardinality(DOMAIN rows)]

\* ~iDatabase: the counters return to their "no table" values.
CloseTable(t) == [rows |-> t.rows, nextId |-> 0, count |-> -1]

\* A mutant: the next ID is not advanced past the row just added.
AddWithoutAdvance(t, row) ==
  [rows |-> InsertRow(t.rows, t.nextId, row),
   nextId |-> t.nextId,
   count |-> t.count + 1]

\* A mutant: __increment_rows__ is skipped.
AddWithoutCounting(t, row) ==
  [rows |-> InsertRow(t.rows, t.nextId, row),
   nextId |-> t.nextId + 1,
   count |-> t.count]

\* add: the counters advance whether or not the INSERT stored the row.  That
\* its values cannot be bound, for want of memory, is left out: the code would
\* then store the row without them, advance next_id alone and throw.
AddRow(t, row) ==
  [rows |-> InsertRow(t.rows, t.nextId, row),
   nextId |-> t.nextId + 1,
   count |-> t.count + 1]

\* The next INSERT will hit a used key.
WillCollide(t) == t.nextId \in DOMAIN t.rows

\* A mutant: the count is not kept from falling below zero.
DecreaseUnchecked(count, n) == count - n

\* __decrement_rows__ and __decrease_rows__ never go below zero.
DecreaseRows(count, n) == IF count > n THEN count - n ELSE 0

\* The counters after a deletion left the given rows and count; nextId is
\* the value the deletion computed, unless the table is taken for empty.
AfterDelete(rows, nextId, count) ==
  [rows |-> rows, nextId |-> IF count = 0 THEN 0 ELSE nextId, count |-> count]

\* A mutant: next_id falls to the deleted ID instead of MAX(ID) + 1.
DeleteReusingId(t, id) ==
  LET rows == WithoutRows(t.rows, {id})
  IN  AfterDelete(rows, IF id < t.nextId THEN id ELSE t.nextId,
                  DecreaseRows(t.count, 1))

\* delete one: the count drops even when no row had that ID.
DeleteRow(t, id) ==
  LET rows == WithoutRows(t.rows, {id})
      next == IF id + 1 = t.nextId THEN LastId(rows) + 1 ELSE t.nextId
  IN  AfterDelete(rows, next, DecreaseRows(t.count, 1))

\* A mutant: next_id is only decremented by the loop over the vector.
DeleteRowsByCountdown(t, ids, n) ==
  AfterDelete(WithoutRows(t.rows, ids), DecreaseRows(t.nextId, n),
              DecreaseRows(t.count, n))

\* A mutant: an ID more is subtracted than the vector holds.
DeleteRowsMiscounting(t, ids, n) ==
  LET rows == WithoutRows(t.rows, ids)
  IN  AfterDelete(rows, LastId(rows) + 1, DecreaseRows(t.count, n + 1))

\* delete many: ids are the values of a vector of length n, which may repeat
\* a value or name rows that do not exist; the count drops by n regardless.
DeleteRows(t, ids, n) ==
  LET rows == WithoutRows(t.rows, ids)
  IN  AfterDelete(rows, LastId(rows) + 1, DecreaseRows(t.count, n))

\* UPDATE ... WHERE ID == id of a row that is there: the counters stay.
RewriteRow(t, id, row) ==
  [rows |-> [k \in DOMAIN t.rows |-> IF k = id THEN row ELSE t.rows[k]],
   nextId |-> t.nextId,
   count |-> t.count]

-----------------------------------------------------------------------------
\* The conditions under which the counters serve their purpose.

\* m_rows does not understate the rows in the file.
CountCovers(t) == t.count >= Cardinality(DOMAIN t.rows)

\* Every stored ID is below next_id.
IdsAhead(t) == \A id \in DOMAIN t.rows : id < t.nextId

\* __init__ took the only row, which has ID 0, for an empty table.
MistakenForEmpty(t) == DOMAIN t.rows = {0} /\ t.nextId = 0

SoundTable(t) == CountCovers(t) /\ (IdsAhead(t) \/ MistakenForEmpty(t))

\* The rows next_id has fallen behind: later additions will collide with them.
AtRisk(t) == {id \in DOMAIN t.rows : id >= t.nextId}

\* They are at most as many as m_rows falls short of the file by, plus one.
DriftBounded(t) ==
  t.count + Cardinality(AtRisk(t)) <= Cardinality(DOMAIN t.rows) + 1
=============================================================================
