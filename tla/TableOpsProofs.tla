--------------------------- MODULE TableOpsProofs ---------------------------
(***************************************************************************)
(* What the operators of TableOps preserve and establish, for tables of    *)
(* any size.                                                               *)
(***************************************************************************)
EXTENDS TableOps, FiniteSetTheorems, WellFoundedInduction, TLAPS

\* A finite non-empty set of naturals has a largest element, which is what
\* SELECT MAX(ID) returns.
LEMMA MaxOfNaturals ==
  ASSUME NEW S, S \subseteq Nat, IsFiniteSet(S), S # {}
  PROVE  /\ Max(S) \in S
         /\ \A y \in S : y <= Max(S)
<1> DEFINE HasMax(U) == \E x \in U : \A y \in U : x >= y
<1> DEFINE Bad == {U \in FiniteSubsetsOf(S) : U # {} /\ ~HasMax(U)}
<1>1. Bad = {}
  <2> SUFFICES ASSUME Bad # {} PROVE FALSE
    OBVIOUS
  <2>1. Bad \subseteq FiniteSubsetsOf(S)
    OBVIOUS
  <2>2. PICK U \in Bad :
          \A V \in Bad : ~(<<V, U>> \in StrictSubsetOrdering(S))
    <3> HIDE DEF Bad
    <3> QED
      BY <2>1, FS_StrictSubsetOrderingWellFounded, WFMin
  <2>3. U # {} /\ ~HasMax(U) /\ U \subseteq S /\ IsFiniteSet(U)
    BY DEF FiniteSubsetsOf
  <2>4. PICK x \in U : TRUE
    BY <2>3
  <2>5. U \ {x} \in FiniteSubsetsOf(S)
    BY <2>3, FS_RemoveElement DEF FiniteSubsetsOf
  <2>6. <<U \ {x}, U>> \in StrictSubsetOrdering(S)
    BY <2>3, <2>4 DEF StrictSubsetOrdering
  <2>7. U \ {x} = {} \/ HasMax(U \ {x})
    BY <2>2, <2>5, <2>6
  <2>8. CASE U \ {x} = {}
    <3>1. U = {x}
      BY <2>4, <2>8
    <3>2. x \in Nat
      BY <2>3, <2>4
    <3>3. HasMax(U)
      BY <3>1, <3>2
    <3> QED
      BY <3>3, <2>3
  <2>9. CASE HasMax(U \ {x})
    <3>1. PICK m \in U \ {x} : \A y \in U \ {x} : m >= y
      BY <2>9
    <3>2. x \in Nat /\ m \in Nat /\ \A y \in U : y \in Nat
      BY <2>3, <2>4, <3>1
    <3>3. CASE x >= m
      <4>1. \A y \in U : x >= y
        BY <3>1, <3>2, <3>3
      <4> QED
        BY <4>1, <2>3, <2>4
    <3>4. CASE m > x
      <4>1. \A y \in U : m >= y
        BY <3>1, <3>2, <3>4
      <4> QED
        BY <4>1, <2>3, <3>1
    <3> QED
      BY <3>2, <3>3, <3>4
  <2> QED
    BY <2>7, <2>8, <2>9
<1>2. S \in FiniteSubsetsOf(S)
  BY DEF FiniteSubsetsOf
<1>3. HasMax(S)
  BY <1>1, <1>2
<1> QED
  BY <1>3 DEF Max

-----------------------------------------------------------------------------
\* LastId bounds the stored IDs, and is one of them unless there are none.
LEMMA LastIdBounds ==
  ASSUME NEW Row, NEW rows, IsRows(rows, Row)
  PROVE  /\ LastId(rows) \in Nat
         /\ \A id \in DOMAIN rows : id <= LastId(rows)
         /\ DOMAIN rows # {} => LastId(rows) \in DOMAIN rows
<1>1. CASE DOMAIN rows = {}
  BY <1>1 DEF LastId
<1>2. CASE DOMAIN rows # {}
  <2>1. DOMAIN rows \subseteq Nat /\ IsFiniteSet(DOMAIN rows)
    BY DEF IsRows
  <2>2. LastId(rows) = Max(DOMAIN rows)
    BY <1>2 DEF LastId
  <2> QED
    BY <1>2, <2>1, <2>2, MaxOfNaturals
<1> QED
  BY <1>1, <1>2

\* An INSERT keeps every stored row, and adds its own if the ID was free.
LEMMA InsertRowFacts ==
  ASSUME NEW Row, NEW rows, IsRows(rows, Row), NEW id \in Nat, NEW row \in Row
  PROVE  /\ IsRows(InsertRow(rows, id, row), Row)
         /\ DOMAIN InsertRow(rows, id, row) = DOMAIN rows \cup {id}
         /\ \A k \in DOMAIN rows : InsertRow(rows, id, row)[k] = rows[k]
         /\ id \notin DOMAIN rows => InsertRow(rows, id, row)[id] = row
<1> DEFINE new == InsertRow(rows, id, row)
<1>1. DOMAIN new = DOMAIN rows \cup {id}
  BY DEF InsertRow
<1>2. \A k \in DOMAIN new : new[k] = IF k \in DOMAIN rows THEN rows[k] ELSE row
  BY DEF InsertRow
<1>3. new \in [DOMAIN new -> Row]
  <2>1. \A k \in DOMAIN new : new[k] \in Row
    BY <1>1, <1>2 DEF IsRows
  <2>2. new = [k \in DOMAIN new |-> new[k]]
    BY DEF InsertRow
  <2> QED
    BY <2>1, <2>2
<1>4. IsFiniteSet(DOMAIN new)
  BY <1>1, FS_AddElement DEF IsRows
<1>5. DOMAIN new \subseteq Nat
  BY <1>1 DEF IsRows
<1> QED
  BY <1>1, <1>2, <1>3, <1>4, <1>5 DEF IsRows

\* A DELETE keeps the rows it does not name.
LEMMA WithoutRowsFacts ==
  ASSUME NEW Row, NEW rows, IsRows(rows, Row), NEW ids
  PROVE  /\ IsRows(WithoutRows(rows, ids), Row)
         /\ DOMAIN WithoutRows(rows, ids) = DOMAIN rows \ ids
         /\ \A k \in DOMAIN rows \ ids : WithoutRows(rows, ids)[k] = rows[k]
         /\ Cardinality(DOMAIN WithoutRows(rows, ids)) \in Nat
<1> DEFINE new == WithoutRows(rows, ids)
<1>1. DOMAIN new = DOMAIN rows \ ids
  BY DEF WithoutRows, Restrict
<1>2. \A k \in DOMAIN new : new[k] = rows[k]
  BY DEF WithoutRows, Restrict
<1>3. new \in [DOMAIN new -> Row]
  <2>1. \A k \in DOMAIN new : new[k] \in Row
    BY <1>1, <1>2 DEF IsRows
  <2>2. new = [k \in DOMAIN new |-> new[k]]
    BY DEF WithoutRows, Restrict
  <2> QED
    BY <2>1, <2>2
<1>4. IsFiniteSet(DOMAIN new) /\ Cardinality(DOMAIN new) \in Nat
  BY <1>1, FS_Difference, FS_CardinalityType DEF IsRows
<1> QED
  BY <1>1, <1>2, <1>3, <1>4 DEF IsRows

-----------------------------------------------------------------------------
\* Opening a file yields counters that fit it, save for the mistaken case.
LEMMA OpenTableFacts ==
  ASSUME NEW Row, NEW rows, IsRows(rows, Row)
  PROVE  /\ IsTable(OpenTable(rows), Row)
         /\ OpenTable(rows).rows = rows
         /\ OpenTable(rows).count >= 0
         /\ SoundTable(OpenTable(rows))
<1> DEFINE t == OpenTable(rows)
<1>1. LastId(rows) \in Nat /\ \A id \in DOMAIN rows : id <= LastId(rows)
  BY LastIdBounds
<1>2. Cardinality(DOMAIN rows) \in Nat
  BY FS_CardinalityType DEF IsRows
<1>3. IsTable(t, Row) /\ t.rows = rows /\ t.count = Cardinality(DOMAIN rows)
  BY <1>1, <1>2 DEF OpenTable, IsTable
<1>4. IdsAhead(t) \/ MistakenForEmpty(t)
  <2>1. CASE LastId(rows) = 0
    <3>1. \A id \in DOMAIN rows : id = 0
      BY <1>1, <2>1 DEF IsRows
    <3>2. DOMAIN rows = {} \/ DOMAIN rows = {0}
      BY <3>1
    <3> QED
      BY <2>1, <3>2 DEF OpenTable, IdsAhead, MistakenForEmpty
  <2>2. CASE LastId(rows) # 0
    <3>1. \A id \in DOMAIN rows : id < LastId(rows) + 1
      BY <1>1 DEF IsRows
    <3> QED
      BY <2>2, <3>1 DEF OpenTable, IdsAhead
  <2> QED
    BY <2>1, <2>2
<1> QED
  BY <1>2, <1>3, <1>4 DEF SoundTable, CountCovers

\* After an addition to a sound table every ID is below next_id again.
LEMMA AddRowFacts ==
  ASSUME NEW Row, NEW t, IsTable(t, Row), t.count >= 0, NEW row \in Row
  PROVE  /\ IsTable(AddRow(t, row), Row)
         /\ AddRow(t, row).count >= 0
         /\ SoundTable(t) => SoundTable(AddRow(t, row)) /\ IdsAhead(AddRow(t, row))
<1> DEFINE u == AddRow(t, row)
<1>1. /\ IsRows(u.rows, Row)
      /\ DOMAIN u.rows = DOMAIN t.rows \cup {t.nextId}
      /\ Cardinality(DOMAIN u.rows) <= Cardinality(DOMAIN t.rows) + 1
      /\ Cardinality(DOMAIN u.rows) \in Nat
  <2>1. IsRows(t.rows, Row) /\ t.nextId \in Nat
    BY DEF IsTable
  <2>2. u.rows = InsertRow(t.rows, t.nextId, row)
    BY DEF AddRow
  <2>3. IsRows(u.rows, Row) /\ DOMAIN u.rows = DOMAIN t.rows \cup {t.nextId}
    <3>1. IsRows(InsertRow(t.rows, t.nextId, row), Row)
      BY <2>1, InsertRowFacts
    <3>2. DOMAIN InsertRow(t.rows, t.nextId, row) = DOMAIN t.rows \cup {t.nextId}
      BY DEF InsertRow
    <3> QED
      BY <2>2, <3>1, <3>2
  <2>4. /\ IsFiniteSet(DOMAIN t.rows)
        /\ Cardinality(DOMAIN t.rows) \in Nat
        /\ Cardinality(DOMAIN u.rows) \in Nat
    BY <2>1, <2>3, FS_CardinalityType DEF IsRows
  <2> QED
    BY <2>3, <2>4, FS_AddElement
<1>2. Cardinality(DOMAIN t.rows) \in Nat
  BY FS_CardinalityType DEF IsTable, IsRows
<1>3. u.nextId = t.nextId + 1 /\ u.count = t.count + 1
  BY DEF AddRow
<1>4. IsTable(u, Row)
  BY <1>1, <1>3 DEF IsTable, AddRow
<1>5. ASSUME SoundTable(t) PROVE CountCovers(u) /\ IdsAhead(u)
  <2>1. CountCovers(u)
    BY <1>1, <1>2, <1>3, <1>5 DEF SoundTable, CountCovers, IsTable
  <2>2. \A id \in DOMAIN t.rows : id < t.nextId + 1
    BY <1>5 DEF SoundTable, IdsAhead, MistakenForEmpty, IsTable, IsRows
  <2> QED
    BY <1>1, <1>3, <2>1, <2>2 DEF IdsAhead, IsTable
<1> QED
  BY <1>3, <1>4, <1>5 DEF SoundTable, IsTable

\* Whatever is left after a deletion lies below MAX(ID) + 1.
LEMMA NextIdAfterDelete ==
  ASSUME NEW Row, NEW rows, IsRows(rows, Row)
  PROVE  /\ LastId(rows) + 1 \in Nat
         /\ \A id \in DOMAIN rows : id < LastId(rows) + 1
<1>1. LastId(rows) \in Nat /\ \A id \in DOMAIN rows : id <= LastId(rows)
  BY LastIdBounds
<1>2. DOMAIN rows \subseteq Nat
  BY DEF IsRows
<1> QED
  BY <1>1, <1>2

\* Deleting a row that exists keeps a sound table sound, and leaves every
\* ID below next_id.
LEMMA DeleteRowFacts ==
  ASSUME NEW Row, NEW t, IsTable(t, Row), t.count >= 0, NEW id \in Nat
  PROVE  /\ IsTable(DeleteRow(t, id), Row)
         /\ DeleteRow(t, id).count >= 0
         /\ DeleteRow(t, id).rows = WithoutRows(t.rows, {id})
         /\ SoundTable(t) /\ id \in DOMAIN t.rows =>
              SoundTable(DeleteRow(t, id)) /\ IdsAhead(DeleteRow(t, id))
<1> DEFINE u == DeleteRow(t, id)
<1> DEFINE rows == WithoutRows(t.rows, {id})
<1> DEFINE next == IF id + 1 = t.nextId THEN LastId(rows) + 1 ELSE t.nextId
<1>1. IsRows(rows, Row) /\ DOMAIN rows = DOMAIN t.rows \ {id}
  BY WithoutRowsFacts DEF IsTable
<1>2. next \in Nat
  BY <1>1, NextIdAfterDelete DEF IsTable
<1>3. /\ u.rows = rows
      /\ u.count = DecreaseRows(t.count, 1)
      /\ u.nextId = IF u.count = 0 THEN 0 ELSE next
      /\ u = [rows |-> u.rows, nextId |-> u.nextId, count |-> u.count]
  BY DEF DeleteRow, AfterDelete
<1>4. u.count \in Nat
  BY <1>3 DEF DecreaseRows, IsTable
<1>5. IsTable(u, Row)
  <2> HIDE DEF rows, next, u
  <2> QED
    BY <1>1, <1>2, <1>3, <1>4 DEF IsTable
<1>6. ASSUME SoundTable(t), id \in DOMAIN t.rows
      PROVE  CountCovers(u) /\ IdsAhead(u)
  <2>1. /\ IsFiniteSet(DOMAIN t.rows)
        /\ Cardinality(DOMAIN t.rows) \in Nat
        /\ Cardinality(DOMAIN rows) = Cardinality(DOMAIN t.rows) - 1
    BY <1>1, <1>6, FS_CardinalityType, FS_RemoveElement DEF IsTable, IsRows
  <2>2. Cardinality(DOMAIN rows) \in Nat /\ IsFiniteSet(DOMAIN rows)
    BY <1>1, FS_CardinalityType DEF IsRows
  <2>3. CountCovers(u)
    BY <1>3, <1>6, <2>1, <2>2 DEF SoundTable, CountCovers, DecreaseRows, IsTable
  <2>4. CASE u.count = 0
    <3>1. Cardinality(DOMAIN rows) = 0
      BY <1>3, <2>2, <2>3, <2>4 DEF CountCovers
    <3>2. DOMAIN rows = {}
      BY <2>2, <3>1, FS_EmptySet
    <3> QED
      BY <1>3, <2>3, <3>2 DEF IdsAhead
  <2>5. CASE u.count # 0 /\ id + 1 = t.nextId
    BY <1>1, <1>3, <2>3, <2>5, NextIdAfterDelete DEF IdsAhead
  <2>6. CASE u.count # 0 /\ id + 1 # t.nextId
    <3>1. u.nextId = t.nextId
      BY <1>3, <2>6
    <3>2. \A k \in DOMAIN rows : k < t.nextId
      BY <1>1, <1>6 DEF SoundTable, IdsAhead, MistakenForEmpty
    <3> QED
      BY <1>3, <2>3, <3>1, <3>2 DEF IdsAhead
  <2> QED
    BY <2>4, <2>5, <2>6
<1> QED
  BY <1>3, <1>4, <1>5, <1>6 DEF SoundTable

\* The same of deleting, each once, many rows that exist.
LEMMA DeleteRowsFacts ==
  ASSUME NEW Row, NEW t, IsTable(t, Row), t.count >= 0, NEW ids, NEW n \in Nat
  PROVE  /\ IsTable(DeleteRows(t, ids, n), Row)
         /\ DeleteRows(t, ids, n).count >= 0
         /\ DeleteRows(t, ids, n).rows = WithoutRows(t.rows, ids)
         /\ SoundTable(t) /\ ids \subseteq DOMAIN t.rows /\ n = Cardinality(ids) =>
              SoundTable(DeleteRows(t, ids, n)) /\ IdsAhead(DeleteRows(t, ids, n))
<1> DEFINE u == DeleteRows(t, ids, n)
<1> DEFINE rows == WithoutRows(t.rows, ids)
<1>1. IsRows(rows, Row) /\ DOMAIN rows = DOMAIN t.rows \ ids
  BY WithoutRowsFacts DEF IsTable
<1>2. LastId(rows) + 1 \in Nat /\ \A k \in DOMAIN rows : k < LastId(rows) + 1
  BY <1>1, NextIdAfterDelete
<1>3. /\ u.rows = rows
      /\ u.count = DecreaseRows(t.count, n)
      /\ u.nextId = IF u.count = 0 THEN 0 ELSE LastId(rows) + 1
      /\ u = [rows |-> u.rows, nextId |-> u.nextId, count |-> u.count]
  BY DEF DeleteRows, AfterDelete
<1>4. u.count \in Nat
  BY <1>3 DEF DecreaseRows, IsTable
<1>5. IsTable(u, Row)
  <2> HIDE DEF rows, u
  <2> QED
    BY <1>1, <1>2, <1>3, <1>4 DEF IsTable
<1>6. ASSUME SoundTable(t), ids \subseteq DOMAIN t.rows, n = Cardinality(ids)
      PROVE  CountCovers(u) /\ IdsAhead(u)
  <2>1. /\ IsFiniteSet(DOMAIN t.rows)
        /\ Cardinality(DOMAIN t.rows) \in Nat
    BY FS_CardinalityType DEF IsTable, IsRows
  <2>2. Cardinality(DOMAIN rows) = Cardinality(DOMAIN t.rows) - n
    <3>1. DOMAIN t.rows \cap ids = ids
      BY <1>6
    <3> QED
      BY <1>1, <1>6, <2>1, <3>1, FS_Difference
  <2>3. Cardinality(DOMAIN rows) \in Nat /\ IsFiniteSet(DOMAIN rows)
    BY <1>1, FS_CardinalityType DEF IsRows
  <2>4. CountCovers(u)
    BY <1>3, <1>6, <2>1, <2>2, <2>3 DEF SoundTable, CountCovers, DecreaseRows, IsTable
  <2>5. CASE u.count = 0
    <3>1. Cardinality(DOMAIN rows) = 0
      BY <1>3, <2>3, <2>4, <2>5 DEF CountCovers
    <3>2. DOMAIN rows = {}
      BY <2>3, <3>1, FS_EmptySet
    <3> QED
      BY <1>3, <2>4, <3>2 DEF IdsAhead
  <2>6. CASE u.count # 0
    BY <1>2, <1>3, <2>4, <2>6 DEF IdsAhead
  <2> QED
    BY <2>5, <2>6
<1> QED
  BY <1>3, <1>4, <1>5, <1>6 DEF SoundTable

-----------------------------------------------------------------------------
\* The rows at risk are some of the rows.
LEMMA AtRiskFacts ==
  ASSUME NEW Row, NEW t, IsTable(t, Row)
  PROVE  /\ IsFiniteSet(AtRisk(t)) /\ IsFiniteSet(DOMAIN t.rows)
         /\ Cardinality(AtRisk(t)) \in Nat
         /\ Cardinality(DOMAIN t.rows) \in Nat
         /\ Cardinality(AtRisk(t)) <= Cardinality(DOMAIN t.rows)
<1>1. IsFiniteSet(DOMAIN t.rows)
  BY DEF IsTable, IsRows
<1>2. AtRisk(t) \in SUBSET DOMAIN t.rows
  BY DEF AtRisk
<1> QED
  BY <1>1, <1>2, FS_Subset, FS_CardinalityType

\* A table none of whose rows is at risk needs its count no more than one
\* above the file, and one counted empty satisfies the bound at once.
LEMMA DriftWithoutRisk ==
  ASSUME NEW Row, NEW t, IsTable(t, Row),
         \/ IdsAhead(t) /\ t.count <= Cardinality(DOMAIN t.rows) + 1
         \/ t.count = 0
  PROVE  DriftBounded(t)
<1>1. /\ Cardinality(AtRisk(t)) \in Nat
      /\ Cardinality(DOMAIN t.rows) \in Nat
      /\ Cardinality(AtRisk(t)) <= Cardinality(DOMAIN t.rows)
  BY AtRiskFacts
<1>2. CASE t.count = 0
  BY <1>1, <1>2 DEF DriftBounded
<1>3. CASE IdsAhead(t) /\ t.count <= Cardinality(DOMAIN t.rows) + 1
  <2>1. AtRisk(t) = {}
    BY <1>3 DEF AtRisk, IdsAhead, IsTable, IsRows
  <2>2. Cardinality(AtRisk(t)) = 0
    BY <2>1, FS_EmptySet
  <2>3. t.count \in Int
    BY DEF IsTable
  <2> QED
    BY <1>1, <1>3, <2>2, <2>3 DEF DriftBounded
<1> QED
  BY <1>2, <1>3

\* A freshly opened table is within the bound: __init__ counts exactly, and
\* the one row it can put at risk is the "one more".
LEMMA OpenTableDrift ==
  ASSUME NEW Row, NEW rows, IsRows(rows, Row)
  PROVE  DriftBounded(OpenTable(rows))
<1> DEFINE t == OpenTable(rows)
<1>1. IsTable(t, Row) /\ t.rows = rows /\ SoundTable(t)
  BY OpenTableFacts
<1>2. t.count = Cardinality(DOMAIN t.rows)
  BY DEF OpenTable
<1>3. Cardinality(DOMAIN t.rows) \in Nat
  BY <1>1, AtRiskFacts
<1>4. CASE IdsAhead(t)
  BY <1>1, <1>2, <1>3, <1>4, DriftWithoutRisk
<1>5. CASE MistakenForEmpty(t)
  <2>1. DOMAIN t.rows = {0}
    BY <1>5 DEF MistakenForEmpty
  <2>2. Cardinality(DOMAIN t.rows) = 1
    BY <2>1, FS_Singleton
  <2>3. Cardinality(AtRisk(t)) \in Nat /\ Cardinality(AtRisk(t)) <= 1
    BY <1>1, <2>2, AtRiskFacts
  <2> QED
    BY <1>2, <2>2, <2>3 DEF DriftBounded
<1> QED
  BY <1>1, <1>4, <1>5 DEF SoundTable

\* An addition keeps the bound: either a row is stored, or the lost addition
\* takes next_id past one of the rows at risk.
LEMMA AddRowDrift ==
  ASSUME NEW Row, NEW t, IsTable(t, Row), t.count >= 0, NEW row \in Row,
         DriftBounded(t)
  PROVE  DriftBounded(AddRow(t, row))
<1> DEFINE u == AddRow(t, row)
<1>1. u.nextId = t.nextId + 1 /\ u.count = t.count + 1
  BY DEF AddRow
<1>2. DOMAIN u.rows = DOMAIN t.rows \cup {t.nextId}
  BY DEF AddRow, InsertRow
<1>3. t.nextId \in Nat /\ t.count \in Nat /\ DOMAIN t.rows \subseteq Nat
  BY DEF IsTable, IsRows
<1>4. AtRisk(u) = AtRisk(t) \ {t.nextId}
  BY <1>1, <1>2, <1>3 DEF AtRisk
<1>5. /\ IsFiniteSet(AtRisk(t)) /\ IsFiniteSet(DOMAIN t.rows)
      /\ Cardinality(AtRisk(t)) \in Nat
      /\ Cardinality(DOMAIN t.rows) \in Nat
  BY AtRiskFacts
<1>6. CASE t.nextId \in DOMAIN t.rows
  <2>1. t.nextId \in AtRisk(t)
    BY <1>3, <1>6 DEF AtRisk
  <2>2. Cardinality(AtRisk(u)) = Cardinality(AtRisk(t)) - 1
    BY <1>4, <1>5, <2>1, FS_RemoveElement
  <2>3. DOMAIN u.rows = DOMAIN t.rows
    BY <1>2, <1>6
  <2> QED
    BY <1>1, <1>3, <1>5, <2>2, <2>3 DEF DriftBounded
<1>7. CASE t.nextId \notin DOMAIN t.rows
  <2>1. AtRisk(u) = AtRisk(t)
    BY <1>4, <1>7 DEF AtRisk
  <2>2. Cardinality(DOMAIN u.rows) = Cardinality(DOMAIN t.rows) + 1
    BY <1>2, <1>5, <1>7, FS_AddElement
  <2> QED
    BY <1>1, <1>3, <1>5, <2>1, <2>2 DEF DriftBounded
<1> QED
  BY <1>6, <1>7

\* deleteEntry, deleteRecord and deletePolicy keep the bound, also when no row
\* has the ID they are given.
LEMMA DeleteRowDrift ==
  ASSUME NEW Row, NEW t, IsTable(t, Row), t.count >= 0, NEW id \in Nat,
         DriftBounded(t)
  PROVE  DriftBounded(DeleteRow(t, id))
<1> DEFINE u == DeleteRow(t, id)
<1>1. IsTable(u, Row) /\ u.rows = WithoutRows(t.rows, {id})
  BY DeleteRowFacts
<1>2. DOMAIN u.rows = DOMAIN t.rows \ {id}
  BY <1>1 DEF WithoutRows, Restrict
<1>3. t.nextId \in Nat /\ t.count \in Nat /\ DOMAIN t.rows \subseteq Nat
  BY DEF IsTable, IsRows
<1>4. /\ IsFiniteSet(AtRisk(t)) /\ IsFiniteSet(DOMAIN t.rows)
      /\ Cardinality(AtRisk(t)) \in Nat
      /\ Cardinality(DOMAIN t.rows) \in Nat
  BY AtRiskFacts
<1>5. /\ Cardinality(DOMAIN u.rows) \in Nat
      /\ Cardinality(DOMAIN u.rows) =
           IF id \in DOMAIN t.rows THEN Cardinality(DOMAIN t.rows) - 1
                                   ELSE Cardinality(DOMAIN t.rows)
  BY <1>1, <1>2, <1>4, AtRiskFacts, FS_RemoveElement
<1>6. CASE u.count = 0
  BY <1>1, <1>6, DriftWithoutRisk
<1>7. CASE u.count # 0
  <2>1. u.count = t.count - 1
    BY <1>3, <1>7 DEF DeleteRow, AfterDelete, DecreaseRows
  <2>2. CASE id + 1 = t.nextId
    <3>1. u.nextId = LastId(u.rows) + 1
      BY <1>1, <1>7, <2>2 DEF DeleteRow, AfterDelete
    <3>2. IdsAhead(u)
      BY <1>1, <3>1, NextIdAfterDelete DEF IdsAhead, IsTable
    <3>3. u.count <= Cardinality(DOMAIN u.rows) + 1
      BY <1>3, <1>4, <1>5, <2>1 DEF DriftBounded
    <3> QED
      BY <1>1, <3>2, <3>3, DriftWithoutRisk
  <2>3. CASE id + 1 # t.nextId
    <3>1. u.nextId = t.nextId
      BY <1>7, <2>3 DEF DeleteRow, AfterDelete
    <3>2. AtRisk(u) = AtRisk(t) \ {id}
      BY <1>2, <3>1 DEF AtRisk
    <3>3. CASE id \in AtRisk(t)
      <4>1. Cardinality(AtRisk(u)) = Cardinality(AtRisk(t)) - 1
        BY <1>4, <3>2, <3>3, FS_RemoveElement
      <4>2. id \in DOMAIN t.rows
        BY <3>3 DEF AtRisk
      <4> QED
        BY <1>3, <1>4, <1>5, <2>1, <4>1, <4>2 DEF DriftBounded
    <3>4. CASE id \notin AtRisk(t)
      <4>1. AtRisk(u) = AtRisk(t)
        BY <3>2, <3>4
      <4> QED
        BY <1>3, <1>4, <1>5, <2>1, <4>1 DEF DriftBounded
    <3> QED
      BY <3>3, <3>4
  <2> QED
    BY <2>2, <2>3
<1> QED
  BY <1>6, <1>7

\* deleteEntries, deleteRecords and deletePolicies keep the bound for a vector
\* that repeats values and names rows that do not exist.
LEMMA DeleteRowsDrift ==
  ASSUME NEW Row, NEW t, IsTable(t, Row), t.count >= 0, DriftBounded(t),
         NEW ids, IsFiniteSet(ids), NEW n \in Nat, Cardinality(ids) <= n
  PROVE  DriftBounded(DeleteRows(t, ids, n))
<1> DEFINE u == DeleteRows(t, ids, n)
<1>1. IsTable(u, Row) /\ u.rows = WithoutRows(t.rows, ids)
  BY DeleteRowsFacts
<1>2. DOMAIN u.rows = DOMAIN t.rows \ ids
  BY <1>1 DEF WithoutRows, Restrict
<1>3. CASE u.count = 0
  BY <1>1, <1>3, DriftWithoutRisk
<1>4. CASE u.count # 0
  <2>1. t.count \in Nat /\ u.count = t.count - n /\ u.nextId = LastId(u.rows) + 1
    BY <1>1, <1>4 DEF DeleteRows, AfterDelete, DecreaseRows, IsTable
  <2>2. IdsAhead(u)
    BY <1>1, <2>1, NextIdAfterDelete DEF IdsAhead, IsTable
  <2>3. /\ IsFiniteSet(DOMAIN t.rows)
        /\ Cardinality(AtRisk(t)) \in Nat
        /\ Cardinality(DOMAIN t.rows) \in Nat
        /\ Cardinality(DOMAIN u.rows) \in Nat
    BY <1>1, AtRiskFacts
  <2>4. /\ Cardinality(DOMAIN u.rows)
             = Cardinality(DOMAIN t.rows) - Cardinality(DOMAIN t.rows \cap ids)
        /\ Cardinality(DOMAIN t.rows \cap ids) <= Cardinality(ids)
        /\ Cardinality(DOMAIN t.rows \cap ids) \in Nat
        /\ Cardinality(ids) \in Nat
    BY <1>2, <2>3, FS_Difference, FS_Intersection, FS_CardinalityType
  <2>5. u.count <= Cardinality(DOMAIN u.rows) + 1
    BY <2>1, <2>3, <2>4 DEF DriftBounded
  <2> QED
    BY <1>1, <2>2, <2>5, DriftWithoutRisk
<1> QED
  BY <1>3, <1>4

-----------------------------------------------------------------------------
\* Rewriting a row that exists changes that row alone, and none of what the
\* counters are about.
LEMMA RewriteRowFacts ==
  ASSUME NEW Row, NEW t, IsTable(t, Row), NEW id \in DOMAIN t.rows, NEW row \in Row
  PROVE  /\ IsTable(RewriteRow(t, id, row), Row)
         /\ RewriteRow(t, id, row).rows = [t.rows EXCEPT ![id] = row]
         /\ DOMAIN RewriteRow(t, id, row).rows = DOMAIN t.rows
         /\ RewriteRow(t, id, row).nextId = t.nextId
         /\ RewriteRow(t, id, row).count = t.count
         /\ SoundTable(t) => SoundTable(RewriteRow(t, id, row))
         /\ DriftBounded(t) => DriftBounded(RewriteRow(t, id, row))
         /\ IdsAhead(t) => IdsAhead(RewriteRow(t, id, row))
<1> DEFINE u == RewriteRow(t, id, row)
<1>1. /\ u = [rows |-> u.rows, nextId |-> u.nextId, count |-> u.count]
      /\ u.rows = [k \in DOMAIN t.rows |-> IF k = id THEN row ELSE t.rows[k]]
      /\ u.nextId = t.nextId /\ u.count = t.count
  BY DEF RewriteRow
<1>2. IsRows(t.rows, Row)
  BY DEF IsTable
<1> HIDE DEF u
<1>3. DOMAIN u.rows = DOMAIN t.rows /\ u.rows \in [DOMAIN u.rows -> Row]
  BY <1>1, <1>2 DEF IsRows
<1>4. IsTable(u, Row)
  BY <1>1, <1>2, <1>3 DEF IsTable, IsRows
<1>5. u.rows = [t.rows EXCEPT ![id] = row]
  BY <1>1, <1>2 DEF IsRows
<1>6. /\ SoundTable(t) => SoundTable(u)
      /\ IdsAhead(t) => IdsAhead(u)
  BY <1>1, <1>3 DEF SoundTable, CountCovers, IdsAhead, MistakenForEmpty
<1>7. AtRisk(u) = AtRisk(t)
  BY <1>1, <1>3 DEF AtRisk
<1>8. DriftBounded(t) => DriftBounded(u)
  BY <1>1, <1>3, <1>7 DEF DriftBounded
<1> QED
  BY <1>1, <1>3, <1>4, <1>5, <1>6, <1>8 DEF u
=============================================================================
