--------------------------- MODULE RowTableProofs ---------------------------
(***************************************************************************)
(* The safety properties of RowTable, for every set of rows and every      *)
(* bound.                                                                  *)
(***************************************************************************)
EXTENDS RowTable, TableOpsProofs

\* Callers name natural IDs, and finitely many in one vector.
LEMMA NamedIds ==
  /\ Id \subseteq Nat
  /\ \A ids \in SUBSET Id : IsFiniteSet(ids) /\ Cardinality(ids) \in Nat
<1>1. MaxId \in Int /\ 0 \in Int
  BY BoundsAssumption
<1>2. IsFiniteSet(0..MaxId)
  BY <1>1, FS_Interval
<1>3. IsFiniteSet(Id)
  BY <1>2 DEF Id
<1>4. \A ids \in SUBSET Id : IsFiniteSet(ids)
  BY <1>3, FS_Subset
<1>5. \A ids \in SUBSET Id : Cardinality(ids) \in Nat
  BY <1>4, FS_CardinalityType
<1> QED
  BY <1>1, <1>4, <1>5 DEF Id

\* Every operation keeps the types of the table's state, whatever IDs the
\* caller names.
LEMMA TypeStep ==
  ASSUME TypeOK, Next
  PROVE  TypeOK'
<1> USE DEF TypeOK, Outcomes, Reply
<1>1. ASSUME NEW row \in Row, Add(row) PROVE TypeOK'
  <2>1. IsTable(AddRow(table, row), Row)
    BY <1>1, AddRowFacts DEF Add, opened
  <2> QED
    BY <1>1, <2>1 DEF Add, RunStatements
<1>2. ASSUME NEW id \in Id, ReadRow(id) \/ Delete(id)
      PROVE  TypeOK'
  <2>1. CASE ReadRow(id)
    BY <2>1 DEF ReadRow, RunStatements
  <2>2. CASE Delete(id)
    <3>1. id \in Nat /\ table.count >= 0
      BY <2>2, NamedIds DEF Delete, opened
    <3>2. IsTable(DeleteRow(table, id), Row)
      BY <3>1, DeleteRowFacts
    <3> QED
      BY <2>2, <3>2 DEF Delete, RunStatements
  <2> QED
    BY <1>2, <2>1, <2>2
<1>3. CASE List
  BY <1>3 DEF List, RunStatements
<1>4. ASSUME NEW ids \in SUBSET Id, NEW overlap \in 0..MaxOverlap,
             DeleteMany(ids, overlap)
      PROVE  TypeOK'
  <2>1. Cardinality(ids) + overlap \in Nat
    BY NamedIds, BoundsAssumption
  <2>2. IsTable(DeleteRows(table, ids, Cardinality(ids) + overlap), Row)
    BY <1>4, <2>1, DeleteRowsFacts DEF DeleteMany, opened
  <2> QED
    BY <1>4, <2>2 DEF DeleteMany, RunStatements
<1>5. CASE Close
  <2>1. IsTable(CloseTable(table), Row)
    BY DEF CloseTable, IsTable
  <2> QED
    BY <1>5, <2>1 DEF Close
<1>6. CASE Open
  <2>1. IsTable(OpenTable(table.rows), Row)
    BY OpenTableFacts DEF IsTable
  <2> QED
    BY <1>6, <2>1 DEF Open, RunStatements
<1>7. ASSUME NEW ids \in SUBSET Id, NEW overlap \in 0..MaxOverlap,
             DeleteTooMany(ids, overlap)
      PROVE  TypeOK'
  BY <1>7 DEF DeleteTooMany, RunStatements
<1>8. ASSUME NEW op, NEW id \in Id, ReadMissing(op, id) PROVE TypeOK'
  BY <1>8 DEF ReadMissing, AbandonStatement
<1>9. ASSUME NEW id \in Id, NEW row \in Row, Update(id, row) \/ UpdateFails(id, row)
      PROVE  TypeOK'
  <2>1. CASE Update(id, row)
    <3>1. Pasted[row] \in Row /\ id \in DOMAIN table.rows
      BY <2>1, RowAssumption DEF Update
    <3>2. IsTable(RewriteRow(table, id, Pasted[row]), Row)
      BY <3>1, RewriteRowFacts
    <3> QED
      BY <2>1, <3>2 DEF Update, RunStatements
  <2>2. CASE UpdateFails(id, row)
    BY <2>2 DEF UpdateFails, RunStatements
  <2> QED
    BY <1>9, <2>1, <2>2
<1> QED
  BY <1>1, <1>2, <1>3, <1>4, <1>5, <1>6, <1>7, <1>8, <1>9 DEF Next

\* A new file is an empty, correctly typed table.
LEMMA EmptyFile == IsRows(NoRows, Row) /\ IsTable(OpenTable(NoRows), Row)
<1>1. IsRows(NoRows, Row)
  BY FS_EmptySet DEF IsRows, NoRows
<1> QED
  BY <1>1, OpenTableFacts

\* Under every caller the state of a table object has its types: counters
\* that never turn negative, rows under natural keys.
THEOREM TypeCorrect == Spec => []TypeOK
<1>1. Init => TypeOK
  BY EmptyFile DEF Init, TypeOK, Outcomes, Reply
<1>2. TypeOK /\ [Next]_vars => TypeOK'
  <2> SUFFICES ASSUME TypeOK, [Next]_vars PROVE TypeOK'
    OBVIOUS
  <2>1. CASE Next
    BY <2>1, TypeStep
  <2>2. CASE UNCHANGED vars
    BY <2>2 DEF TypeOK, vars
  <2> QED
    BY <2>1, <2>2
<1> QED
  BY <1>1, <1>2, PTL DEF Spec

-----------------------------------------------------------------------------
\* Every operation keeps the rows next_id has fallen behind within the drift
\* of m_rows: the corrections next_id gets on deletion never fall short of it.
LEMMA DriftStep ==
  ASSUME TypeOK, RiskBoundedByDrift, Next
  PROVE  RiskBoundedByDrift'
<1> USE DEF TypeOK, RiskBoundedByDrift, opened
<1>1. ASSUME NEW row \in Row, Add(row) PROVE RiskBoundedByDrift'
  BY <1>1, AddRowDrift DEF Add
<1>2. ASSUME NEW id \in Id, Delete(id) PROVE RiskBoundedByDrift'
  <2>1. id \in Nat
    BY NamedIds
  <2> QED
    BY <1>2, <2>1, DeleteRowDrift DEF Delete
<1>3. ASSUME NEW ids \in SUBSET Id, NEW overlap \in 0..MaxOverlap,
             DeleteMany(ids, overlap)
      PROVE  RiskBoundedByDrift'
  <2>1. /\ IsFiniteSet(ids)
        /\ Cardinality(ids) + overlap \in Nat
        /\ Cardinality(ids) <= Cardinality(ids) + overlap
    BY NamedIds, BoundsAssumption
  <2>2. DriftBounded(DeleteRows(table, ids, Cardinality(ids) + overlap))
    BY <1>3, <2>1, DeleteRowsDrift DEF DeleteMany
  <2> QED
    BY <1>3, <2>2 DEF DeleteMany
<1>4. CASE Close
  BY <1>4 DEF Close, CloseTable
<1>5. CASE Open
  <2>1. DriftBounded(OpenTable(table.rows))
    BY OpenTableDrift DEF IsTable
  <2> QED
    BY <1>5, <2>1 DEF Open
<1>6. ASSUME UNCHANGED table PROVE RiskBoundedByDrift'
  BY <1>6
<1>7. ASSUME NEW id \in Id, NEW row \in Row, Update(id, row)
      PROVE  RiskBoundedByDrift'
  <2>1. Pasted[row] \in Row /\ id \in DOMAIN table.rows
    BY <1>7, RowAssumption DEF Update
  <2>2. DriftBounded(RewriteRow(table, id, Pasted[row]))
    BY <1>7, <2>1, RewriteRowFacts DEF Update
  <2> QED
    BY <1>7, <2>2 DEF Update
<1> QED
  BY <1>1, <1>2, <1>3, <1>4, <1>5, <1>6, <1>7
  DEF Next, ReadRow, ReadMissing, List, DeleteTooMany, UpdateFails

\* Whatever IDs the caller names, what is at risk of being lost stays within
\* the drift of m_rows, and m_rows never exceeds the file by more than one.
THEOREM RiskIsBounded == Spec => []RiskBoundedByDrift
<1>1. Init => TypeOK /\ RiskBoundedByDrift
  <2> SUFFICES ASSUME Init PROVE TypeOK /\ RiskBoundedByDrift
    OBVIOUS
  <2>1. TypeOK
    BY EmptyFile DEF Init, TypeOK, Outcomes, Reply
  <2>2. DriftBounded(OpenTable(NoRows))
    BY EmptyFile, OpenTableDrift
  <2> QED
    BY <2>1, <2>2 DEF Init, RiskBoundedByDrift
<1>2. TypeOK /\ RiskBoundedByDrift /\ [Next]_vars => RiskBoundedByDrift'
  <2> SUFFICES ASSUME TypeOK, RiskBoundedByDrift, [Next]_vars
               PROVE  RiskBoundedByDrift'
    OBVIOUS
  <2>1. CASE UNCHANGED vars
    BY <2>1 DEF vars, RiskBoundedByDrift, opened
  <2> QED
    BY <2>1, DriftStep
<1> QED
  BY <1>1, <1>2, TypeCorrect, PTL DEF Spec

-----------------------------------------------------------------------------
\* A read that throws leaves its statement in the slot and pushes at most the
\* previous one out of it; every other operation moves what is left behind from
\* the slot to the leaked statements, or from these to one connection.
LEMMA HandlesStep ==
  ASSUME TypeOK, HandlesAccounted, Next
  PROVE  HandlesAccounted'
<1> USE DEF TypeOK, HandlesAccounted
<1>1. ASSUME RunStatements, UNCHANGED <<unclosed, throws>> PROVE HandlesAccounted'
  BY <1>1 DEF RunStatements
<1>2. ASSUME NEW op, NEW id, ReadMissing(op, id) PROVE HandlesAccounted'
  BY <1>2 DEF ReadMissing, AbandonStatement
<1>3. CASE Close
  BY <1>3 DEF Close
<1> QED
  BY <1>1, <1>2, <1>3
  DEF Next, Add, ReadRow, Update, UpdateFails, List, Delete, DeleteMany,
      DeleteTooMany, Open

\* Whatever IDs the caller names and whatever UPDATE or DELETE is refused, the
\* statements left behind and the connections they keep from being released
\* are never more than the operations that threw over a missing row.
THEOREM HandlesAreAccounted == Spec => []HandlesAccounted
<1>1. Init => HandlesAccounted
  BY DEF Init, HandlesAccounted
<1>2. TypeOK /\ HandlesAccounted /\ [Next]_vars => HandlesAccounted'
  <2> SUFFICES ASSUME TypeOK, HandlesAccounted, [Next]_vars
               PROVE  HandlesAccounted'
    OBVIOUS
  <2>1. CASE UNCHANGED vars
    BY <2>1 DEF vars, HandlesAccounted
  <2> QED
    BY <2>1, HandlesStep
<1> QED
  BY <1>1, <1>2, TypeCorrect, PTL DEF Spec

-----------------------------------------------------------------------------
\* The inductive invariant of a careful caller.  An addition or a deletion
\* leaves every ID below next_id, so only an opening can be followed by a
\* colliding addition, and an opening resets the count of lost rows.
CarefulInv ==
  /\ TypeOK
  /\ DOMAIN table.rows \subseteq Id
  /\ opened => SoundTable(table)
  /\ lost <= 1
  /\ opened /\ ~IdsAhead(table) => lost = 0

\* Additions collide only while some ID is not below next_id.
LEMMA NoCollisionAhead ==
  ASSUME TypeOK, IdsAhead(table)
  PROVE  ~WillCollide(table)
BY DEF TypeOK, IsTable, IdsAhead, WillCollide

\* A careful caller is a caller: what it names exists.
LEMMA CarefulIsNext ==
  ASSUME TypeOK, DOMAIN table.rows \subseteq Id, CarefulNext
  PROVE  Next
<1>1. ASSUME NEW id \in DOMAIN table.rows, ReadRow(id) \/ Delete(id) PROVE Next
  BY <1>1 DEF Next
<1>2. ASSUME NEW ids \in SUBSET DOMAIN table.rows,
             DeleteMany(ids, 0) \/ DeleteTooMany(ids, 0)
      PROVE  Next
  <2>1. ids \in SUBSET Id /\ 0 \in 0..MaxOverlap
    BY BoundsAssumption
  <2> QED
    BY <1>2, <2>1 DEF Next
<1>3. ASSUME NEW id \in DOMAIN table.rows, NEW row \in Row,
             Update(id, row) \/ UpdateFails(id, row)
      PROVE  Next
  BY <1>3 DEF Next
<1> QED
  BY <1>1, <1>2, <1>3 DEF CarefulNext, Next

\* Every operation of a careful caller keeps the inductive invariant.
LEMMA CarefulStep ==
  ASSUME CarefulInv, CarefulNext
  PROVE  CarefulInv'
<1>1. TypeOK /\ DOMAIN table.rows \subseteq Id /\ IsTable(table, Row)
  BY DEF CarefulInv, TypeOK
<1>2. TypeOK'
  BY <1>1, CarefulIsNext, TypeStep
<1>3. ASSUME NEW row \in Row, Add(row) PROVE CarefulInv'
  <2>1. opened /\ SoundTable(table)
    BY <1>3 DEF Add, CarefulInv
  <2>2. SoundTable(table') /\ IdsAhead(table')
    BY <1>1, <1>3, <2>1, AddRowFacts DEF Add, opened
  <2>3. DOMAIN table'.rows \subseteq Id
    <3>1. DOMAIN table'.rows = DOMAIN table.rows \cup {table.nextId}
      BY <1>3 DEF Add, AddRow, InsertRow
    <3>2. table.nextId \in Id
      BY <1>1, <1>3, BoundsAssumption DEF Add, Id, IsTable
    <3> QED
      BY <1>1, <3>1, <3>2
  <2>4. lost' <= 1
    <3>1. CASE IdsAhead(table)
      BY <1>1, <1>3, <3>1, NoCollisionAhead DEF Add, CarefulInv
    <3>2. CASE ~IdsAhead(table)
      BY <1>3, <2>1, <3>2 DEF Add, CarefulInv
    <3> QED
      BY <3>1, <3>2
  <2> QED
    BY <1>2, <2>2, <2>3, <2>4 DEF CarefulInv
<1>4. ASSUME NEW id \in DOMAIN table.rows, Delete(id) PROVE CarefulInv'
  <2>1. opened /\ SoundTable(table) /\ id \in Nat
    BY <1>1, <1>4 DEF Delete, CarefulInv, IsTable, IsRows
  <2>2. /\ SoundTable(table') /\ IdsAhead(table')
        /\ table'.rows = WithoutRows(table.rows, {id})
    BY <1>1, <1>4, <2>1, DeleteRowFacts DEF Delete, opened
  <2>3. DOMAIN table'.rows \subseteq Id
    BY <1>1, <2>2 DEF WithoutRows, Restrict
  <2> QED
    BY <1>2, <1>4, <2>2, <2>3 DEF CarefulInv, Delete
<1>5. ASSUME NEW ids \in SUBSET DOMAIN table.rows, DeleteMany(ids, 0)
      PROVE  CarefulInv'
  <2>1. opened /\ SoundTable(table)
    BY <1>5 DEF DeleteMany, CarefulInv
  <2>2. Cardinality(ids) \in Nat /\ Cardinality(ids) + 0 = Cardinality(ids)
    BY <1>1, NamedIds
  <2>3. table' = DeleteRows(table, ids, Cardinality(ids))
    BY <1>5, <2>2 DEF DeleteMany
  <2>4. /\ SoundTable(table') /\ IdsAhead(table')
        /\ table'.rows = WithoutRows(table.rows, ids)
    BY <1>1, <2>1, <2>2, <2>3, DeleteRowsFacts DEF opened
  <2>5. DOMAIN table'.rows \subseteq Id
    BY <1>1, <2>4 DEF WithoutRows, Restrict
  <2> QED
    BY <1>2, <1>5, <2>4, <2>5 DEF CarefulInv, DeleteMany
<1>6. CASE Close
  <2>1. table'.rows = table.rows /\ ~opened'
    BY <1>6 DEF Close, CloseTable, opened
  <2> QED
    BY <1>2, <1>6, <2>1 DEF Close, CarefulInv
<1>7. CASE Open
  <2>1. SoundTable(table') /\ table'.rows = table.rows
    BY <1>1, <1>7, OpenTableFacts DEF Open, IsTable
  <2> QED
    BY <1>2, <1>7, <2>1 DEF Open, CarefulInv
<1>8. ASSUME NEW id \in DOMAIN table.rows, ReadRow(id) PROVE CarefulInv'
  BY <1>2, <1>8 DEF ReadRow, CarefulInv, opened
<1>9. CASE List
  BY <1>2, <1>9 DEF List, CarefulInv, opened
<1>10. ASSUME NEW ids, DeleteTooMany(ids, 0) PROVE CarefulInv'
  BY <1>2, <1>10 DEF DeleteTooMany, CarefulInv, opened
<1>11. ASSUME NEW id \in DOMAIN table.rows, NEW row \in Row, Update(id, row)
       PROVE  CarefulInv'
  <2>1. opened /\ Pasted[row] \in Row
    BY <1>11, RowAssumption DEF Update
  <2>2. PICK u : u = RewriteRow(table, id, Pasted[row])
    OBVIOUS
  <2>3. table' = u
    BY <1>11, <2>2 DEF Update
  <2>4. DOMAIN u.rows = DOMAIN table.rows /\ u.count = table.count
    BY <2>2 DEF RewriteRow
  <2>5. /\ SoundTable(table) => SoundTable(u)
        /\ IdsAhead(table) => IdsAhead(u)
    BY <1>1, <2>1, <2>2, RewriteRowFacts
  <2> QED
    BY <1>2, <1>11, <2>1, <2>3, <2>4, <2>5 DEF Update, CarefulInv, opened
<1>12. ASSUME NEW id, NEW row, UpdateFails(id, row) PROVE CarefulInv'
  BY <1>2, <1>12 DEF UpdateFails, CarefulInv, opened
<1> QED
  BY <1>3, <1>4, <1>5, <1>6, <1>7, <1>8, <1>9, <1>10, <1>11, <1>12 DEF CarefulNext

\* A new file satisfies the invariant.
LEMMA CarefulStart == Init => CarefulInv
<1> SUFFICES ASSUME Init PROVE CarefulInv
  OBVIOUS
<1>1. TypeOK
  BY EmptyFile DEF Init, TypeOK, Outcomes, Reply
<1>2. SoundTable(table) /\ table.rows = NoRows
  BY EmptyFile, OpenTableFacts DEF Init
<1>3. DOMAIN NoRows = {}
  BY DEF NoRows
<1> QED
  BY <1>1, <1>2, <1>3 DEF Init, CarefulInv

LEMMA CarefulInvariance == CarefulSpec => []CarefulInv
<1>1. CarefulInv /\ [CarefulNext]_vars => CarefulInv'
  <2> SUFFICES ASSUME CarefulInv, UNCHANGED vars PROVE CarefulInv'
    BY CarefulStep
  <2> QED
    BY DEF CarefulInv, TypeOK, opened, vars
<1> QED
  BY <1>1, CarefulStart, PTL DEF CarefulSpec

\* m_rows never understates the file to a caller that names only existing rows,
\* each once: __decrease_rows__ cannot bring it to zero over rows that exist.
THEOREM CountCoversFile == CarefulSpec => []CountCoversRows
<1>1. CarefulInv => CountCoversRows
  BY DEF CarefulInv, SoundTable, CountCoversRows
<1> QED
  BY <1>1, CarefulInvariance, PTL

\* For such a caller next_id lies above every stored ID, after every deletion
\* of one or many and every reopening, but for the case __init__ mistakes.
THEOREM NextIdStaysAhead == CarefulSpec => []NextIdAhead
<1>1. CarefulInv => NextIdAhead
  BY DEF CarefulInv, SoundTable, NextIdAhead
<1> QED
  BY <1>1, CarefulInvariance, PTL

\* That case costs such a caller at most one row for each time the file is
\* opened: the first addition brings next_id past the row it collides with.
THEOREM OpeningsLoseOneRow == CarefulSpec => []OneLossPerOpening
<1>1. CarefulInv => OneLossPerOpening
  BY DEF CarefulInv, OneLossPerOpening
<1> QED
  BY <1>1, CarefulInvariance, PTL

-----------------------------------------------------------------------------
\* What a careful caller does is a step of RowStore with the same reply, but
\* for the addition the mistaken case loses, the lists, and the updates whose
\* text means another row.
LEMMA StoreStep ==
  ASSUME CarefulInv, CarefulNext
  PROVE  Store!StoreNext \/ LostAddition \/ ListsNothing \/ MisstoredUpdate
<1> USE DEF Store!NoRows, NoRows, Store!Single, Single, Store!Answer, Reply,
            Store!StoreNext
<1>1. TypeOK /\ DOMAIN table.rows \subseteq Id /\ IsTable(table, Row)
  BY DEF CarefulInv, TypeOK
<1>2. ASSUME NEW row \in Row, Add(row) PROVE Store!StoreNext \/ LostAddition
  <2>1. table.nextId \in Id /\ opened /\ SoundTable(table)
    BY <1>1, <1>2, BoundsAssumption DEF Add, Id, IsTable, CarefulInv
  <2>2. CASE WillCollide(table)
    <3>1. MistakenForEmpty(table)
      BY <1>1, <2>1, <2>2, NoCollisionAhead DEF SoundTable
    <3>2. table'.rows = table.rows /\ reply'.op = "add"
      <4>1. DOMAIN table.rows \cup {table.nextId} = DOMAIN table.rows
        BY <2>2 DEF WillCollide
      <4>2. table.rows = [k \in DOMAIN table.rows |-> table.rows[k]]
        BY <1>1 DEF IsTable, IsRows
      <4>3. table'.rows = [k \in DOMAIN table.rows |-> table.rows[k]]
        BY <1>2, <4>1 DEF Add, AddRow, InsertRow
      <4> QED
        BY <1>2, <4>2, <4>3 DEF Add
    <3> QED
      BY <3>1, <3>2 DEF LostAddition
  <2>3. CASE ~WillCollide(table)
    <3>1. table.nextId \in Id \ DOMAIN table.rows
      BY <2>1, <2>3 DEF WillCollide
    <3>2. table'.rows = [k \in DOMAIN table.rows \cup {table.nextId} |->
                           IF k = table.nextId THEN row ELSE table.rows[k]]
      BY <1>2, <3>1 DEF Add, AddRow, InsertRow
    <3>3. reply' = Reply("add", {table.nextId}, "ok", Single(table.nextId, row))
      BY <1>2 DEF Add
    <3> QED
      BY <3>1, <3>2, <3>3 DEF Store!StoreAdd, Id
  <2> QED
    BY <2>2, <2>3
<1>3. ASSUME NEW id \in DOMAIN table.rows, ReadRow(id) PROVE Store!StoreNext
  BY <1>3 DEF ReadRow, Store!StoreRead
<1>4. ASSUME NEW id \in DOMAIN table.rows, NEW row \in Row, Update(id, row)
      PROVE  Store!StoreNext \/ MisstoredUpdate
  <2>1. Pasted[row] \in Row
    BY RowAssumption
  <2>2. table'.rows = [table.rows EXCEPT ![id] = Pasted[row]]
    BY <1>1, <1>4, <2>1, RewriteRowFacts DEF Update
  <2>3. reply' = Reply("update", {id}, "ok", Single(id, row))
    BY <1>4 DEF Update
  <2>4. CASE Pasted[row] = row
    BY <2>2, <2>3, <2>4 DEF Store!StoreUpdate
  <2>5. CASE Pasted[row] # row
    BY <2>2, <2>3, <2>5 DEF MisstoredUpdate
  <2> QED
    BY <2>4, <2>5
<1>5. ASSUME NEW id \in DOMAIN table.rows, NEW row, UpdateFails(id, row)
      PROVE  Store!StoreNext
  <2>1. /\ reply' = Reply("update", {id}, "TableException", NoRows)
        /\ UNCHANGED table /\ {id} \in SUBSET DOMAIN table.rows
    BY <1>5 DEF UpdateFails
  <2> QED
    BY <2>1 DEF Store!StoreRefuse
<1>6. ASSUME NEW id \in DOMAIN table.rows, Delete(id) PROVE Store!StoreNext
  <2>1. opened /\ SoundTable(table) /\ id \in Nat
    BY <1>1, <1>6 DEF Delete, CarefulInv, IsTable, IsRows
  <2>2. table'.rows = WithoutRows(table.rows, {id})
    BY <1>1, <1>6, <2>1, DeleteRowFacts DEF Delete, opened
  <2>3. table'.rows = [k \in DOMAIN table.rows \ {id} |-> table.rows[k]]
    BY <2>2 DEF WithoutRows, Restrict
  <2>4. reply' = Reply("delete", {id}, "ok", NoRows) /\ {id} \in SUBSET DOMAIN table.rows
    BY <1>6 DEF Delete
  <2> QED
    BY <2>3, <2>4 DEF Store!StoreDelete
<1>7. ASSUME NEW ids \in SUBSET DOMAIN table.rows, DeleteMany(ids, 0)
      PROVE  Store!StoreNext
  <2>1. opened /\ SoundTable(table)
    BY <1>7 DEF DeleteMany, CarefulInv
  <2>2. Cardinality(ids) \in Nat /\ Cardinality(ids) + 0 = Cardinality(ids)
    BY <1>1, NamedIds
  <2>3. table' = DeleteRows(table, ids, Cardinality(ids))
    BY <1>7, <2>2 DEF DeleteMany
  <2>4. table'.rows = WithoutRows(table.rows, ids)
    BY <1>1, <2>1, <2>2, <2>3, DeleteRowsFacts DEF opened
  <2>5. table'.rows = [k \in DOMAIN table.rows \ ids |-> table.rows[k]]
    BY <2>4 DEF WithoutRows, Restrict
  <2>6. reply' = Reply("deleteMany", ids, "ok", NoRows)
    BY <1>7 DEF DeleteMany
  <2> QED
    BY <2>5, <2>6 DEF Store!StoreDelete
<1>8. ASSUME NEW ids \in SUBSET DOMAIN table.rows, DeleteTooMany(ids, 0)
      PROVE  Store!StoreNext
  BY <1>8 DEF DeleteTooMany, Store!StoreRefuse
<1>9. CASE Close \/ Open
  <2>1. /\ table'.rows = table.rows
        /\ \E op \in {"open", "close"} : reply' = Reply(op, {}, "ok", NoRows)
    BY <1>9 DEF Close, Open, CloseTable, OpenTable
  <2> QED
    BY <2>1 DEF Store!StoreReopen
<1>10. CASE List
  BY <1>10 DEF List, ListsNothing
<1> QED
  BY <1>2, <1>3, <1>4, <1>5, <1>6, <1>7, <1>8, <1>9, <1>10 DEF CarefulNext

\* To a careful caller a table object and its file keep the promise of the
\* headers call by call, across destruction and reopening: what is added is
\* stored under a key of its own, a read returns the row it names, an update
\* changes that row and a deletion removes the rows named, and no others; the
\* exceptions are the addition after a file with ID 0 alone was opened, lists,
\* which are empty, and updates whose text means another row.
THEOREM TableImplementsStore == CarefulSpec => ImplementsStore
<1>1. Init => CarefulInv /\ Store!StoreInit
  <2>1. Init => table.rows = NoRows /\ reply = Reply("open", {}, "ok", NoRows)
    BY DEF Init, OpenTable
  <2> QED
    BY <2>1, CarefulStart
    DEF Store!StoreInit, Store!NoRows, NoRows, Store!Answer, Reply
<1>2. CarefulInv /\ [CarefulNext]_vars =>
        /\ CarefulInv'
        /\ [Store!StoreNext \/ LostAddition \/ ListsNothing \/ MisstoredUpdate]_
             (Store!storeVars)
  <2> SUFFICES ASSUME CarefulInv, UNCHANGED vars
               PROVE  CarefulInv' /\ UNCHANGED Store!storeVars
    BY CarefulStep, StoreStep
  <2> QED
    BY DEF CarefulInv, TypeOK, opened, vars, Store!storeVars
<1> QED
  BY <1>1, <1>2, PTL DEF CarefulSpec, ImplementsStore
=============================================================================
