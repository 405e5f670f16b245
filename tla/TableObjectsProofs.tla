------------------------- MODULE TableObjectsProofs -------------------------
(***************************************************************************)
(* The safety properties of TableObjects, for any number of objects,       *)
(* connections, moves and rows.                                            *)
(***************************************************************************)
EXTENDS TableObjects, TableOpsProofs

-----------------------------------------------------------------------------
\* An object that holds a connection has counted its rows.
Counted == \A o \in Holding : objects[o].count >= 0

TypeInv == TypeOK /\ Counted

\* An object sees the file as a table.
LEMMA SeenIsTable ==
  ASSUME TypeOK, NEW o \in Live
  PROVE  /\ IsTable(Seen(o), Row) /\ Seen(o).rows = rows
         /\ Seen(o).nextId = objects[o].nextId /\ Seen(o).count = objects[o].count
BY DEF TypeOK, TableObject, Seen, IsTable

\* The objects left when one is destroyed.
LEMMA WithoutFacts ==
  ASSUME NEW f, NEW S, f \in [DOMAIN f -> S], NEW key
  PROVE  /\ Without(f, key) \in [DOMAIN f \ {key} -> S]
         /\ DOMAIN Without(f, key) = DOMAIN f \ {key}
         /\ \A k \in DOMAIN f \ {key} : Without(f, key)[k] = f[k]
BY DEF Without, Restrict

\* An object by its fields.
LEMMA ObjectFields ==
  ASSUME NEW object \in TableObject
  PROVE  object = [handle |-> object.handle, statement |-> object.statement,
                   nextId |-> object.nextId, count |-> object.count,
                   mistaken |-> object.mistaken, foreign |-> object.foreign]
BY DEF TableObject

\* What a write does to the objects.
LEMMA WroteFacts ==
  ASSUME TypeInv, ConnectionsAccounted, NEW o \in Holding, NEW t, IsTable(t, Row), t.count >= 0,
         NEW n \in Nat, Wrote(o, t, n)
  PROVE  /\ TypeInv' /\ Live' = Live /\ Holding' = Holding /\ rows' = t.rows
         /\ \A k \in Live : objects'[k].handle = objects[k].handle
         /\ \A k \in Live : objects'[k].mistaken = objects[k].mistaken
         /\ Seen(o)' = t /\ objects'[o].foreign = objects[o].foreign
         /\ \A k \in Holding \ {o} :
              /\ objects'[k].nextId = objects[k].nextId
              /\ objects'[k].count = objects[k].count
              /\ objects'[k].foreign = objects[k].foreign + n
<1>1. t.rows = rows' /\ IsRows(t.rows, Row) /\ t.nextId \in Nat /\ t.count \in Nat
  <2>1. rows' = t.rows
    BY Zenon DEF Wrote
  <2> QED
    BY <2>1 DEF IsTable
<1>2. objects \in [Live -> TableObject]
  BY DEF TypeInv, TypeOK
<1>3. DOMAIN objects' = Live /\ Live' = Live /\ Holding \subseteq Live
  BY DEF Wrote, Live, Holding
<1>4. /\ objects'[o] = [objects[o] EXCEPT !.nextId = t.nextId, !.count = t.count,
                                          !.statement = 0]
      /\ \A k \in Holding \ {o} : objects'[k] = [objects[k] EXCEPT !.foreign = @ + n]
      /\ \A k \in Live \ Holding : objects'[k] = objects[k]
  BY <1>3, Zenon DEF Wrote
<1>5. /\ objects'[o] \in TableObject
      /\ objects'[o].handle = objects[o].handle
      /\ objects'[o].mistaken = objects[o].mistaken
      /\ objects'[o].foreign = objects[o].foreign
      /\ objects'[o].nextId = t.nextId /\ objects'[o].count = t.count
  <2>1. objects[o] \in TableObject
    BY <1>2, <1>3
  <2> DEFINE object == objects[o]
  <2>2. objects'[o] = [handle |-> object.handle, statement |-> 0,
                       nextId |-> t.nextId, count |-> t.count,
                       mistaken |-> object.mistaken, foreign |-> object.foreign]
    BY <1>4, <2>1, ObjectFields
  <2> QED
    BY <1>1, <2>1, <2>2 DEF TableObject
<1>6. ASSUME NEW k \in Holding \ {o}
      PROVE  /\ objects'[k] \in TableObject
             /\ objects'[k].handle = objects[k].handle
             /\ objects'[k].mistaken = objects[k].mistaken
             /\ objects'[k].nextId = objects[k].nextId
             /\ objects'[k].count = objects[k].count
             /\ objects'[k].foreign = objects[k].foreign + n
  <2>1. objects[k] \in TableObject
    BY <1>2, <1>3
  <2> DEFINE object == objects[k]
  <2>2. objects'[k] = [handle |-> object.handle, statement |-> object.statement,
                       nextId |-> object.nextId, count |-> object.count,
                       mistaken |-> object.mistaken, foreign |-> object.foreign + n]
    BY <1>4, <2>1, ObjectFields
  <2> QED
    BY <1>1, <2>1, <2>2 DEF TableObject
<1>7. \A k \in Live : /\ objects'[k] \in TableObject
                      /\ objects'[k].handle = objects[k].handle
                      /\ objects'[k].mistaken = objects[k].mistaken
  BY <1>2, <1>4, <1>5, <1>6
<1>8. Holding' = Holding
  BY <1>3, <1>7 DEF Holding
<1>9. Seen(o)' = t
  BY <1>1, <1>5 DEF Seen, IsTable
<1>10. objects' \in [Live -> TableObject]
  BY <1>3, <1>7 DEF Wrote
<1>11. TypeOK'
  <2>1. /\ open' = open /\ openCount' = openCount
        /\ abandoned' = abandoned /\ moves' = moves
    BY DEF Wrote
  <2>2. leaking' \subseteq open'
    BY DEF Wrote, Prepared, TypeInv, TypeOK, ConnectionsAccounted
  <2> QED
    BY <1>1, <1>3, <1>10, <2>1, <2>2 DEF TypeInv, TypeOK
<1>12. Counted'
  BY <1>1, <1>5, <1>6, <1>8 DEF Counted, TypeInv
<1> QED
  BY <1>1, <1>3, <1>5, <1>6, <1>7, <1>8, <1>9, <1>11, <1>12 DEF TypeInv

-----------------------------------------------------------------------------
\* What a table can lose: to other objects' rows and to a mistaken opening.
LossBounded(t, foreign, mistaken) ==
  /\ t.count + foreign >= Cardinality(DOMAIN t.rows)
  /\ Cardinality(AtRisk(t)) <= foreign + mistaken

\* A table with no rows at risk, or one taken for empty, is within any bound
\* that its count is within.
LEMMA LossWithoutRisk ==
  ASSUME NEW t, IsTable(t, Row), t.count >= 0,
         NEW foreign \in Nat, NEW mistaken \in Nat,
         t.count + foreign >= Cardinality(DOMAIN t.rows),
         IdsAhead(t) \/ t.count = 0
  PROVE  LossBounded(t, foreign, mistaken)
<1>1. /\ Cardinality(AtRisk(t)) \in Nat /\ Cardinality(DOMAIN t.rows) \in Nat
      /\ Cardinality(AtRisk(t)) <= Cardinality(DOMAIN t.rows)
  BY AtRiskFacts
<1>2. CASE IdsAhead(t)
  <2>1. AtRisk(t) = {}
    BY <1>2 DEF IdsAhead, AtRisk, IsTable, IsRows
  <2> QED
    BY <2>1, FS_EmptySet DEF LossBounded
<1>3. CASE t.count = 0
  BY <1>1, <1>3 DEF LossBounded
<1> QED
  BY <1>2, <1>3

\* Opening a file risks one row if ID 0 is its only one, and none otherwise.
LEMMA OpenTableLoss ==
  ASSUME NEW contents, IsRows(contents, Row)
  PROVE  LossBounded(OpenTable(contents), 0, IF DOMAIN contents = {0} THEN 1 ELSE 0)
<1> DEFINE t == OpenTable(contents)
<1>1. IsTable(t, Row) /\ t.rows = contents /\ t.count >= 0 /\ SoundTable(t)
  BY OpenTableFacts
<1>2. CASE IdsAhead(t)
  BY <1>1, <1>2, LossWithoutRisk DEF SoundTable, CountCovers, IsTable
<1>3. CASE MistakenForEmpty(t)
  <2>1. DOMAIN contents = {0} /\ Cardinality(DOMAIN t.rows) = 1
    BY <1>1, <1>3, FS_Singleton DEF MistakenForEmpty
  <2>2. Cardinality(AtRisk(t)) \in Nat /\ Cardinality(AtRisk(t)) <= 1
    BY <1>1, <2>1, AtRiskFacts
  <2> QED
    BY <1>1, <2>1, <2>2 DEF LossBounded, SoundTable, CountCovers, IsTable
<1> QED
  BY <1>1, <1>2, <1>3 DEF SoundTable

\* An object's own addition: a lost one takes next_id past a row at risk.
LEMMA AddRowLoss ==
  ASSUME NEW t, IsTable(t, Row), t.count >= 0, NEW row \in Row,
         NEW foreign \in Nat, NEW mistaken \in Nat, LossBounded(t, foreign, mistaken)
  PROVE  LossBounded(AddRow(t, row), foreign, mistaken)
<1> DEFINE u == AddRow(t, row)
<1>1. u.nextId = t.nextId + 1 /\ u.count = t.count + 1
  BY DEF AddRow
<1>2. DOMAIN u.rows = DOMAIN t.rows \cup {t.nextId}
  BY DEF AddRow, InsertRow
<1>3. t.nextId \in Nat /\ t.count \in Nat /\ DOMAIN t.rows \subseteq Nat
  BY DEF IsTable, IsRows
<1>4. AtRisk(u) = AtRisk(t) \ {t.nextId}
  BY <1>1, <1>2, <1>3 DEF AtRisk
<1>5. /\ IsFiniteSet(AtRisk(t)) /\ IsFiniteSet(DOMAIN t.rows)
      /\ Cardinality(AtRisk(t)) \in Nat /\ Cardinality(DOMAIN t.rows) \in Nat
  BY AtRiskFacts
<1>6. Cardinality(AtRisk(u)) \in Nat /\ Cardinality(AtRisk(u)) <= Cardinality(AtRisk(t))
  BY <1>4, <1>5, FS_Subset, FS_CardinalityType
<1>7. /\ Cardinality(DOMAIN u.rows) \in Nat
      /\ Cardinality(DOMAIN u.rows) <= Cardinality(DOMAIN t.rows) + 1
  <2>1. Cardinality(DOMAIN u.rows) =
          IF t.nextId \in DOMAIN t.rows THEN Cardinality(DOMAIN t.rows)
                                        ELSE Cardinality(DOMAIN t.rows) + 1
    BY <1>2, <1>5, FS_AddElement, Zenon
  <2> QED
    BY <1>5, <2>1
<1> QED
  BY <1>1, <1>3, <1>5, <1>6, <1>7 DEF LossBounded

\* An object's own deletion of a row that is there.
LEMMA DeleteRowLoss ==
  ASSUME NEW t, IsTable(t, Row), t.count >= 0, NEW id \in DOMAIN t.rows,
         NEW foreign \in Nat, NEW mistaken \in Nat, LossBounded(t, foreign, mistaken)
  PROVE  LossBounded(DeleteRow(t, id), foreign, mistaken)
<1> DEFINE u == DeleteRow(t, id)
<1>1. t.nextId \in Nat /\ t.count \in Nat /\ DOMAIN t.rows \subseteq Nat /\ id \in Nat
  BY DEF IsTable, IsRows
<1>2. IsTable(u, Row) /\ u.rows = WithoutRows(t.rows, {id}) /\ u.count >= 0
  BY <1>1, DeleteRowFacts
<1>3. DOMAIN u.rows = DOMAIN t.rows \ {id}
  BY <1>2 DEF WithoutRows, Restrict
<1>4. /\ IsFiniteSet(AtRisk(t)) /\ IsFiniteSet(DOMAIN t.rows)
      /\ Cardinality(AtRisk(t)) \in Nat /\ Cardinality(DOMAIN t.rows) \in Nat
  BY AtRiskFacts
<1>5. /\ Cardinality(DOMAIN u.rows) \in Nat
      /\ Cardinality(DOMAIN u.rows) = Cardinality(DOMAIN t.rows) - 1
  BY <1>2, <1>3, <1>4, AtRiskFacts, FS_RemoveElement
<1>6. u.count \in Nat /\ u.count = IF t.count > 1 THEN t.count - 1 ELSE 0
  BY <1>1 DEF DeleteRow, AfterDelete, DecreaseRows
<1>7. u.count + foreign >= Cardinality(DOMAIN u.rows)
  BY <1>1, <1>4, <1>5, <1>6 DEF LossBounded
<1>8. CASE u.count = 0 \/ IdsAhead(u)
  BY <1>2, <1>7, <1>8, LossWithoutRisk
<1>9. CASE u.count # 0 /\ ~IdsAhead(u)
  <2>1. u.nextId = IF id + 1 = t.nextId THEN LastId(u.rows) + 1 ELSE t.nextId
    BY <1>2, <1>9 DEF DeleteRow, AfterDelete
  <2>2. u.nextId = t.nextId
    BY <1>2, <1>9, <2>1, NextIdAfterDelete DEF IdsAhead, IsTable
  <2>3. AtRisk(u) \subseteq AtRisk(t)
    BY <1>3, <2>2 DEF AtRisk
  <2>4. Cardinality(AtRisk(u)) \in Nat /\ Cardinality(AtRisk(u)) <= Cardinality(AtRisk(t))
    BY <1>4, <2>3, FS_Subset, FS_CardinalityType
  <2> QED
    BY <1>4, <1>7, <2>4 DEF LossBounded
<1> QED
  BY <1>8, <1>9

\* An object's own deletion of many rows that are there.
LEMMA DeleteRowsLoss ==
  ASSUME NEW t, IsTable(t, Row), t.count >= 0, NEW ids \in SUBSET DOMAIN t.rows,
         NEW foreign \in Nat, NEW mistaken \in Nat, LossBounded(t, foreign, mistaken)
  PROVE  LossBounded(DeleteRows(t, ids, Cardinality(ids)), foreign, mistaken)
<1> DEFINE n == Cardinality(ids)
           u == DeleteRows(t, ids, n)
<1>1. IsFiniteSet(DOMAIN t.rows) /\ Cardinality(DOMAIN t.rows) \in Nat
  BY AtRiskFacts
<1>2. IsFiniteSet(ids) /\ n \in Nat
  BY <1>1, FS_Subset, FS_CardinalityType
<1>3. IsTable(u, Row) /\ u.rows = WithoutRows(t.rows, ids) /\ u.count >= 0
  BY <1>2, DeleteRowsFacts
<1>4. DOMAIN u.rows = DOMAIN t.rows \ ids
  BY <1>3 DEF WithoutRows, Restrict
<1>5. /\ Cardinality(DOMAIN u.rows) \in Nat
      /\ Cardinality(DOMAIN u.rows) = Cardinality(DOMAIN t.rows) - n
  <2>1. DOMAIN t.rows \cap ids = ids
    OBVIOUS
  <2> QED
    BY <1>1, <1>3, <1>4, <2>1, AtRiskFacts, FS_Difference
<1>6. t.count \in Nat /\ u.count = IF t.count > n THEN t.count - n ELSE 0
  BY DEF DeleteRows, AfterDelete, DecreaseRows, IsTable
<1>7. u.count + foreign >= Cardinality(DOMAIN u.rows)
  BY <1>1, <1>2, <1>5, <1>6 DEF LossBounded
<1>8. u.count = 0 \/ IdsAhead(u)
  <2>1. u.count # 0 => u.nextId = LastId(u.rows) + 1
    BY <1>3 DEF DeleteRows, AfterDelete
  <2> QED
    BY <1>3, <2>1, NextIdAfterDelete DEF IdsAhead, IsTable
<1> QED
  BY <1>3, <1>7, <1>8, LossWithoutRisk

\* Another object's addition costs at most the row it stored.
LEMMA ForeignAddLoss ==
  ASSUME NEW t, IsTable(t, Row), NEW u, IsTable(u, Row),
         t.count >= 0, u.count = t.count, u.nextId = t.nextId,
         NEW id, DOMAIN u.rows = DOMAIN t.rows \cup {id},
         NEW foreign \in Nat, NEW mistaken \in Nat, LossBounded(t, foreign, mistaken)
  PROVE  LossBounded(u, foreign + (IF id \in DOMAIN t.rows THEN 0 ELSE 1), mistaken)
<1>1. /\ IsFiniteSet(AtRisk(t)) /\ IsFiniteSet(DOMAIN t.rows)
      /\ Cardinality(AtRisk(t)) \in Nat /\ Cardinality(DOMAIN t.rows) \in Nat
  BY AtRiskFacts
<1>2. t.count \in Nat
  BY DEF IsTable
<1>3. CASE id \in DOMAIN t.rows
  <2>1. DOMAIN u.rows = DOMAIN t.rows
    BY <1>3
  <2>2. AtRisk(u) = AtRisk(t)
    BY <2>1 DEF AtRisk
  <2> QED
    BY <1>3, <2>1, <2>2 DEF LossBounded
<1>4. CASE id \notin DOMAIN t.rows
  <2>1. Cardinality(DOMAIN u.rows) = Cardinality(DOMAIN t.rows) + 1
    BY <1>1, <1>4, FS_AddElement
  <2>2. AtRisk(u) \subseteq AtRisk(t) \cup {id}
    BY DEF AtRisk
  <2>3. /\ IsFiniteSet(AtRisk(t) \cup {id})
        /\ Cardinality(AtRisk(t) \cup {id}) <= Cardinality(AtRisk(t)) + 1
        /\ Cardinality(AtRisk(t) \cup {id}) \in Nat
    <3>1. /\ IsFiniteSet(AtRisk(t) \cup {id})
          /\ Cardinality(AtRisk(t) \cup {id}) =
               IF id \in AtRisk(t) THEN Cardinality(AtRisk(t))
                                   ELSE Cardinality(AtRisk(t)) + 1
      BY <1>1, FS_AddElement, Zenon
    <3> QED
      BY <1>1, <3>1
  <2>4. /\ Cardinality(AtRisk(u)) \in Nat
        /\ Cardinality(AtRisk(u)) <= Cardinality(AtRisk(t)) + 1
    BY <1>1, <2>2, <2>3, FS_Subset, FS_CardinalityType
  <2> QED
    BY <1>1, <1>2, <1>4, <2>1, <2>4 DEF LossBounded
<1> QED
  BY <1>3, <1>4

\* Another object's deletion costs nothing.
LEMMA ForeignDeleteLoss ==
  ASSUME NEW t, IsTable(t, Row), NEW u, IsTable(u, Row),
         t.count >= 0, u.count = t.count, u.nextId = t.nextId,
         DOMAIN u.rows \subseteq DOMAIN t.rows,
         NEW foreign \in Nat, NEW mistaken \in Nat, LossBounded(t, foreign, mistaken)
  PROVE  LossBounded(u, foreign, mistaken)
<1>1. /\ IsFiniteSet(AtRisk(t)) /\ IsFiniteSet(DOMAIN t.rows)
      /\ Cardinality(AtRisk(t)) \in Nat /\ Cardinality(DOMAIN t.rows) \in Nat
      /\ Cardinality(AtRisk(u)) \in Nat /\ Cardinality(DOMAIN u.rows) \in Nat
  BY AtRiskFacts
<1>2. AtRisk(u) \subseteq AtRisk(t)
  BY DEF AtRisk
<1>3. /\ Cardinality(AtRisk(u)) <= Cardinality(AtRisk(t))
      /\ Cardinality(DOMAIN u.rows) <= Cardinality(DOMAIN t.rows)
  BY <1>1, <1>2, FS_Subset
<1>4. t.count \in Nat
  BY DEF IsTable
<1> QED
  BY <1>1, <1>3, <1>4 DEF LossBounded

-----------------------------------------------------------------------------
\* What is shown together: who holds which handle says which handles a write
\* can leak, and that an object has counted its rows what a write does to it.
ObjectsInv ==
  /\ TypeInv
  /\ ConnectionsAccounted
  /\ CountMissesMoves
  /\ LossBoundedBySharing

\* A step that lets no object change its connection.
LEMMA HandlesKept ==
  ASSUME ConnectionsAccounted, Live' = Live, Holding' = Holding,
         \A o \in Live : objects'[o].handle = objects[o].handle,
         open' = open, abandoned' = abandoned, leaking \subseteq leaking'
  PROVE  ConnectionsAccounted'
<1>1. \A o \in Holding : objects'[o].handle = objects[o].handle
  BY DEF Holding
<1> QED
  BY <1>1 DEF ConnectionsAccounted

\* The bound of the specification, object by object.
LEMMA LossByTable ==
  LossBoundedBySharing <=>
    \A o \in Holding : LossBounded(Seen(o), objects[o].foreign, objects[o].mistaken)
BY DEF LossBoundedBySharing, LossBounded, Seen

\* An object takes part in an operation on what it sees.
LEMMA HolderFacts ==
  ASSUME TypeInv, NEW o \in Holding
  PROVE  /\ o \in Live /\ objects[o] \in TableObject
         /\ objects[o].foreign \in Nat /\ objects[o].mistaken \in {0, 1}
         /\ IsTable(Seen(o), Row) /\ Seen(o).rows = rows /\ Seen(o).count >= 0
         /\ Seen(o).nextId = objects[o].nextId /\ Seen(o).count = objects[o].count
<1>1. o \in Live /\ objects[o] \in TableObject
  BY DEF Holding, TypeInv, TypeOK
<1> QED
  BY <1>1, SeenIsTable DEF TypeInv, Counted, TableObject

\* Any write by which the object that writes stays within its bound, and which
\* adds the n rows the others are told of.
LEMMA WriteStep ==
  ASSUME ObjectsInv, NEW o \in Holding, NEW t, IsTable(t, Row), t.count >= 0,
         NEW n \in Nat, Wrote(o, t, n),
         LossBounded(t, objects[o].foreign, objects[o].mistaken),
         \/ n = 0 /\ DOMAIN t.rows \subseteq DOMAIN rows
         \/ \E id : /\ DOMAIN t.rows = DOMAIN rows \cup {id}
                    /\ n = IF id \in DOMAIN rows THEN 0 ELSE 1
  PROVE  ObjectsInv'
<1> USE DEF ObjectsInv
<1>1. /\ TypeInv' /\ Live' = Live /\ Holding' = Holding /\ rows' = t.rows
      /\ \A k \in Live : objects'[k].handle = objects[k].handle
      /\ \A k \in Live : objects'[k].mistaken = objects[k].mistaken
      /\ Seen(o)' = t /\ objects'[o].foreign = objects[o].foreign
      /\ \A k \in Holding \ {o} :
           /\ objects'[k].nextId = objects[k].nextId
           /\ objects'[k].count = objects[k].count
           /\ objects'[k].foreign = objects[k].foreign + n
  BY WroteFacts
<1>2. ConnectionsAccounted'
  <2>1. open' = open /\ abandoned' = abandoned /\ leaking \subseteq leaking'
    BY DEF Wrote, Prepared
  <2> QED
    BY <1>1, <2>1, HandlesKept
<1>3. CountMissesMoves'
  BY <1>1 DEF CountMissesMoves, Wrote
<1>4. ASSUME NEW k \in Holding
      PROVE  LossBounded(Seen(k)', objects'[k].foreign, objects'[k].mistaken)
  <2>1. CASE k = o
    BY <1>1, <2>1, HolderFacts
  <2>2. CASE k # o
    <3> DEFINE u == [rows |-> t.rows, nextId |-> objects[k].nextId,
                     count |-> objects[k].count]
    <3>1. Seen(k)' = u /\ objects'[k].foreign = objects[k].foreign + n
          /\ objects'[k].mistaken = objects[k].mistaken
      BY <1>1, <2>2, HolderFacts DEF Seen
    <3>2. IsTable(Seen(k), Row) /\ Seen(k).rows = rows /\ Seen(k).count >= 0
          /\ Seen(k).nextId = u.nextId /\ Seen(k).count = u.count
          /\ objects[k].foreign \in Nat /\ objects[k].mistaken \in Nat
      BY HolderFacts
    <3>3. IsTable(u, Row)
      BY <3>2 DEF IsTable
    <3>4. LossBounded(Seen(k), objects[k].foreign, objects[k].mistaken)
      BY LossByTable
    <3>5. CASE n = 0 /\ DOMAIN t.rows \subseteq DOMAIN rows
      BY <3>1, <3>2, <3>3, <3>4, <3>5, ForeignDeleteLoss
    <3>6. CASE \E id : /\ DOMAIN t.rows = DOMAIN rows \cup {id}
                       /\ n = IF id \in DOMAIN rows THEN 0 ELSE 1
      <4>1. PICK id : /\ DOMAIN u.rows = DOMAIN Seen(k).rows \cup {id}
                      /\ n = IF id \in DOMAIN Seen(k).rows THEN 0 ELSE 1
        BY <3>2, <3>6
      <4> HIDE DEF u
      <4>2. LossBounded(u, objects[k].foreign + n, objects[k].mistaken)
        BY <3>2, <3>3, <3>4, <4>1, ForeignAddLoss
      <4> QED
        BY <3>1, <4>2
    <3> QED
      BY <3>5, <3>6
  <2> QED
    BY <2>1, <2>2
<1>5. LossBoundedBySharing'
  BY <1>1, <1>4 DEF LossBoundedBySharing, LossBounded, Seen
<1> QED
  BY <1>1, <1>2, <1>3, <1>5

\* Adding, deleting one and deleting many are such writes.
LEMMA AddStep ==
  ASSUME ObjectsInv, NEW o \in Object, NEW row \in Row, Add(o, row)
  PROVE  ObjectsInv'
<1> DEFINE t == AddRow(Seen(o), row)
           n == IF WillCollide(Seen(o)) THEN 0 ELSE 1
<1>1. o \in Holding /\ Wrote(o, t, n)
  BY DEF Add
<1>2. /\ IsTable(Seen(o), Row) /\ Seen(o).rows = rows /\ Seen(o).count >= 0
      /\ objects[o].foreign \in Nat /\ objects[o].mistaken \in Nat
  BY <1>1, HolderFacts DEF ObjectsInv
<1>3. LossBounded(Seen(o), objects[o].foreign, objects[o].mistaken)
  BY <1>1, LossByTable DEF ObjectsInv
<1>4. IsTable(t, Row) /\ t.count >= 0
  BY <1>2, AddRowFacts
<1>5. LossBounded(t, objects[o].foreign, objects[o].mistaken)
  BY <1>2, <1>3, AddRowLoss
<1>6. /\ DOMAIN t.rows = DOMAIN rows \cup {Seen(o).nextId}
      /\ n = IF Seen(o).nextId \in DOMAIN rows THEN 0 ELSE 1
  BY <1>2 DEF AddRow, InsertRow, WillCollide
<1>7. n \in Nat
  OBVIOUS
<1> HIDE DEF t, n
<1> QED
  BY <1>1, <1>4, <1>5, <1>6, <1>7, WriteStep

\* The count falls with the row that goes.
LEMMA DeleteStep ==
  ASSUME ObjectsInv, NEW o \in Object, NEW id, Delete(o, id)
  PROVE  ObjectsInv'
<1> DEFINE t == DeleteRow(Seen(o), id)
<1>1. o \in Holding /\ id \in DOMAIN rows /\ Wrote(o, t, 0)
  BY DEF Delete
<1>2. /\ IsTable(Seen(o), Row) /\ Seen(o).rows = rows /\ Seen(o).count >= 0
      /\ objects[o].foreign \in Nat /\ objects[o].mistaken \in Nat
  BY <1>1, HolderFacts DEF ObjectsInv
<1>3. LossBounded(Seen(o), objects[o].foreign, objects[o].mistaken)
  BY <1>1, LossByTable DEF ObjectsInv
<1>4. id \in Nat
  BY <1>1, <1>2 DEF IsTable, IsRows
<1>5. IsTable(t, Row) /\ t.count >= 0 /\ t.rows = WithoutRows(rows, {id})
  BY <1>2, <1>4, DeleteRowFacts
<1>6. LossBounded(t, objects[o].foreign, objects[o].mistaken)
  BY <1>1, <1>2, <1>3, DeleteRowLoss
<1>7. DOMAIN t.rows \subseteq DOMAIN rows
  BY <1>5 DEF WithoutRows, Restrict
<1> HIDE DEF t
<1> QED
  BY <1>1, <1>5, <1>6, <1>7, WriteStep

\* The same for a vector of rows.
LEMMA DeleteManyStep ==
  ASSUME ObjectsInv, NEW o \in Object, NEW ids, DeleteMany(o, ids)
  PROVE  ObjectsInv'
<1> DEFINE t == DeleteRows(Seen(o), ids, Cardinality(ids))
<1>1. o \in Holding /\ ids \subseteq DOMAIN rows /\ Wrote(o, t, 0)
  BY DEF DeleteMany
<1>2. /\ IsTable(Seen(o), Row) /\ Seen(o).rows = rows /\ Seen(o).count >= 0
      /\ objects[o].foreign \in Nat /\ objects[o].mistaken \in Nat
  BY <1>1, HolderFacts DEF ObjectsInv
<1>3. LossBounded(Seen(o), objects[o].foreign, objects[o].mistaken)
  BY <1>1, LossByTable DEF ObjectsInv
<1>4. Cardinality(ids) \in Nat
  BY <1>1, <1>2, AtRiskFacts, FS_Subset, FS_CardinalityType
<1>5. IsTable(t, Row) /\ t.count >= 0 /\ t.rows = WithoutRows(rows, ids)
  BY <1>2, <1>4, DeleteRowsFacts
<1>6. LossBounded(t, objects[o].foreign, objects[o].mistaken)
  BY <1>1, <1>2, <1>3, DeleteRowsLoss
<1>7. DOMAIN t.rows \subseteq DOMAIN rows
  BY <1>5 DEF WithoutRows, Restrict
<1> HIDE DEF t
<1> QED
  BY <1>1, <1>5, <1>6, <1>7, WriteStep

\* A read changes the slot of the object and may leak what was in it.
LEMMA ReadStep ==
  ASSUME ObjectsInv, NEW o \in Holding, NEW slot \in {0, 1}, Prepared(o),
         objects' = [objects EXCEPT ![o].statement = slot],
         UNCHANGED <<rows, open, openCount, abandoned, moves>>
  PROVE  ObjectsInv'
<1> USE DEF ObjectsInv, TypeInv
<1>1. objects \in [Live -> TableObject] /\ o \in Live
  BY DEF TypeOK, Holding
<1>2. Live' = Live
  BY DEF Live
<1>3. ASSUME NEW k \in Live
      PROVE  /\ objects'[k] \in TableObject
             /\ objects'[k].handle = objects[k].handle
             /\ objects'[k].mistaken = objects[k].mistaken
             /\ objects'[k].nextId = objects[k].nextId
             /\ objects'[k].count = objects[k].count
             /\ objects'[k].foreign = objects[k].foreign
  <2>1. CASE k # o
    BY <1>1, <2>1
  <2>2. CASE k = o
    <3> DEFINE object == objects[o]
    <3>1. objects'[o] = [object EXCEPT !.statement = slot]
      BY <1>1, Zenon DEF Live
    <3>2. object \in TableObject
      BY <1>1
    <3>3. objects'[o] = [handle |-> object.handle, statement |-> slot,
                         nextId |-> object.nextId, count |-> object.count,
                         mistaken |-> object.mistaken, foreign |-> object.foreign]
      BY <3>1, <3>2, ObjectFields
    <3> QED
      BY <2>2, <3>2, <3>3 DEF TableObject
  <2> QED
    BY <2>1, <2>2
<1>4. Holding' = Holding /\ Holding \subseteq Live
  BY <1>2, <1>3 DEF Holding
<1>5. leaking \subseteq leaking' /\ leaking' \subseteq open'
  BY DEF Prepared, TypeOK, ConnectionsAccounted
<1>6. TypeOK'
  <2>1. objects' \in [Live -> TableObject]
    BY <1>2, <1>3 DEF Live
  <2> QED
    BY <1>2, <1>5, <2>1 DEF TypeOK
<1>7. Counted'
  BY <1>3, <1>4 DEF Counted
<1>8. ConnectionsAccounted'
  BY <1>2, <1>3, <1>4, <1>5, HandlesKept
<1>9. CountMissesMoves'
  BY <1>2 DEF CountMissesMoves
<1>10. \A k \in Holding : Seen(k)' = Seen(k)
  BY <1>3, <1>4 DEF Seen
<1>11. LossBoundedBySharing'
  BY <1>3, <1>4, <1>10 DEF LossBoundedBySharing
<1> QED
  BY <1>6, <1>7, <1>8, <1>9, <1>11

\* The objects alive are finitely many.
LEMMA LiveIsFinite ==
  ASSUME TypeOK
  PROVE  IsFiniteSet(Live) /\ Cardinality(Live) \in Nat
BY ObjectsAssumption, FS_Subset, FS_CardinalityType DEF TypeOK

\* A new object is the only one to hold its connection.
LEMMA ConstructStep ==
  ASSUME ObjectsInv, NEW o \in Object, NEW c \in Connection, Construct(o, c)
  PROVE  ObjectsInv'
<1> USE DEF ObjectsInv, TypeInv
<1> DEFINE t == OpenTable(rows)
           object == [handle |-> c, statement |-> 0, nextId |-> t.nextId,
                      count |-> t.count, foreign |-> 0,
                      mistaken |-> IF DOMAIN rows = {0} THEN 1 ELSE 0]
<1>1. /\ o \notin Live /\ c \notin open /\ open' = open \cup {c}
      /\ openCount' = openCount + 1 /\ objects' = With(objects, o, object)
      /\ UNCHANGED <<rows, leaking, abandoned, moves>>
  BY DEF Construct
<1>2. /\ IsTable(t, Row) /\ t.rows = rows /\ t.count >= 0
      /\ LossBounded(t, 0, object.mistaken)
  BY OpenTableFacts, OpenTableLoss DEF TypeOK
<1>3. object \in TableObject /\ c # Null
  BY <1>2, ObjectsAssumption DEF TableObject, IsTable
<1> HIDE DEF t
<1>4. /\ Live' = Live \cup {o} /\ objects'[o] = object
      /\ objects' \in [Live' -> TableObject]
      /\ \A k \in Live : objects'[k] = objects[k]
  <2> HIDE DEF object
  <2>1. objects \in [DOMAIN objects -> TableObject]
    BY DEF TypeOK, Live
  <2> QED
    BY <1>1, <1>3, <2>1 DEF With, Live
<1>5. Holding' = Holding \cup {o} /\ Holding \subseteq Live
  BY <1>1, <1>3, <1>4 DEF Holding
<1>6. TypeOK'
  BY <1>1, <1>4 DEF TypeOK
<1>7. Counted'
  BY <1>2, <1>4, <1>5 DEF Counted
<1>8. ConnectionsAccounted'
  <2>1. \A k \in Holding : objects[k].handle \in open \ abandoned
    BY DEF ConnectionsAccounted
  <2>2. objects'[o].handle = c
    BY <1>4
  <2>3. \A k \in Holding : objects'[k].handle = objects[k].handle
    BY <1>4, <1>5
  <2>4. c \notin abandoned
    BY <1>1 DEF TypeOK
  <2> QED
    BY <1>1, <1>5, <2>1, <2>2, <2>3, <2>4 DEF ConnectionsAccounted
<1>9. CountMissesMoves'
  <2>1. Cardinality(Live') = Cardinality(Live) + 1
    BY <1>1, <1>4, LiveIsFinite, FS_AddElement
  <2> QED
    BY <1>1, <2>1, LiveIsFinite DEF CountMissesMoves, TypeOK
<1>10. LossBoundedBySharing'
  <2>1. Seen(o)' = t
    BY <1>1, <1>2, <1>4 DEF Seen, IsTable
  <2>2. ASSUME NEW k \in Holding PROVE Seen(k)' = Seen(k) /\ objects'[k] = objects[k]
    BY <1>1, <1>4, <1>5 DEF Seen
  <2>3. \A k \in Holding :
          LossBounded(Seen(k)', objects'[k].foreign, objects'[k].mistaken)
    BY <2>2, LossByTable
  <2>4. LossBounded(Seen(o)', objects'[o].foreign, objects'[o].mistaken)
    BY <1>2, <1>4, <2>1
  <2> QED
    BY <1>5, <2>3, <2>4 DEF LossBoundedBySharing, LossBounded, Seen
<1> QED
  BY <1>6, <1>7, <1>8, <1>9, <1>10

\* A connection left by a late exception is nobody's from the start.
LEMMA ThrowsLateStep ==
  ASSUME ObjectsInv, NEW c \in Connection, ConstructThrowsLate(c)
  PROVE  ObjectsInv'
<1> USE DEF ObjectsInv, TypeInv
<1>1. /\ c \notin open /\ open' = open \cup {c} /\ abandoned' = abandoned \cup {c}
      /\ UNCHANGED <<rows, objects, leaking, openCount, moves>>
  BY DEF ConstructThrowsLate
<1>2. Live' = Live /\ Holding' = Holding
  BY <1>1 DEF Live, Holding
<1>3. TypeOK' /\ Counted' /\ CountMissesMoves'
  BY <1>1, <1>2 DEF TypeOK, Counted, CountMissesMoves
<1>4. LossBoundedBySharing'
  BY <1>1, <1>2 DEF LossBoundedBySharing, Seen
<1>5. ConnectionsAccounted'
  BY <1>1, <1>2 DEF ConnectionsAccounted
<1> QED
  BY <1>3, <1>4, <1>5

\* After a move the target is what the source was.
LEMMA MoveStep ==
  ASSUME ObjectsInv, NEW from \in Object, NEW to \in Object, Move(from, to)
  PROVE  ObjectsInv'
<1> USE DEF ObjectsInv, TypeInv
<1> DEFINE emptied == [objects EXCEPT ![from] = Hollow]
<1>1. /\ from \in Live /\ to \notin Live /\ from # to /\ moves' = moves + 1
      /\ objects' = With(emptied, to, objects[from])
      /\ UNCHANGED <<rows, open, leaking, openCount, abandoned>>
  BY DEF Move
<1>2. objects \in [Live -> TableObject] /\ objects[from] \in TableObject
  BY <1>1 DEF TypeOK
<1>3. Hollow \in TableObject /\ Hollow.handle = Null
  BY DEF Hollow, TableObject
<1>4. /\ emptied \in [Live -> TableObject] /\ DOMAIN emptied = Live
      /\ emptied[from] = Hollow
      /\ \A k \in Live \ {from} : emptied[k] = objects[k]
  BY <1>1, <1>2, <1>3 DEF Live
<1>5. /\ Live' = Live \cup {to} /\ objects' \in [Live' -> TableObject]
      /\ objects'[to] = objects[from] /\ objects'[from] = Hollow
      /\ \A k \in Live \ {from} : objects'[k] = objects[k]
  <2> HIDE DEF emptied
  <2>1. DOMAIN objects' = Live \cup {to}
    BY <1>1, <1>4 DEF With
  <2>2. objects'[to] = objects[from]
    BY <1>1 DEF With
  <2>3. \A k \in Live : objects'[k] = emptied[k]
    BY <1>1, <1>4 DEF With
  <2>4. objects' = [k \in DOMAIN objects' |-> objects'[k]]
    BY <1>1 DEF With
  <2> QED
    BY <1>1, <1>2, <1>3, <1>4, <2>1, <2>2, <2>3, <2>4 DEF Live
<1> HIDE DEF emptied
<1>6. ASSUME NEW k \in Holding'
      PROVE  \/ k = to /\ from \in Holding /\ objects'[k] = objects[from]
             \/ k \in Holding \ {from, to} /\ objects'[k] = objects[k]
  <2>1. k \in Live \cup {to} /\ objects'[k].handle # Null
    BY <1>5 DEF Holding
  <2>2. k # from
    BY <1>3, <1>5, <2>1
  <2> QED
    BY <1>1, <1>5, <2>1, <2>2 DEF Holding
<1>7. \A k \in Holding : \E other \in Holding' :
        objects'[other].handle = objects[k].handle
  <2>1. ASSUME NEW k \in Holding, k # from
        PROVE  k \in Holding' /\ objects'[k].handle = objects[k].handle
    BY <1>1, <1>5, <2>1 DEF Holding
  <2>2. ASSUME from \in Holding
        PROVE  to \in Holding' /\ objects'[to].handle = objects[from].handle
    BY <1>5, <2>2 DEF Holding
  <2> QED
    BY <2>1, <2>2
<1>8. TypeOK'
  BY <1>1, <1>5 DEF TypeOK
<1>9. Counted'
  BY <1>6 DEF Counted
<1>10. ConnectionsAccounted'
  <2>1. \A k \in Holding' : objects'[k].handle \in open' \ abandoned'
    BY <1>1, <1>6 DEF ConnectionsAccounted
  <2>2. \A k, other \in Holding' :
          k # other => objects'[k].handle # objects'[other].handle
    BY <1>1, <1>6 DEF ConnectionsAccounted
  <2>4. \A c \in open' \ abandoned' :
          c \in leaking' \/ \E k \in Holding' : objects'[k].handle = c
    BY <1>1, <1>7 DEF ConnectionsAccounted
  <2> QED
    BY <2>1, <2>2, <2>4 DEF ConnectionsAccounted
<1>11. CountMissesMoves'
  <2>1. Cardinality(Live') = Cardinality(Live) + 1
    BY <1>1, <1>5, LiveIsFinite, FS_AddElement
  <2> QED
    BY <1>1, <2>1, LiveIsFinite DEF CountMissesMoves, TypeOK
<1>12. LossBoundedBySharing'
  <2>1. \A k \in Holding :
          LossBounded(Seen(k), objects[k].foreign, objects[k].mistaken)
    BY LossByTable
  <2>2. ASSUME NEW k \in Holding'
        PROVE  LossBounded(Seen(k)', objects'[k].foreign, objects'[k].mistaken)
    <3>1. PICK j \in Holding : objects'[k] = objects[j]
      BY <1>6
    <3>2. Seen(k)' = Seen(j)
      BY <1>1, <3>1 DEF Seen
    <3> QED
      BY <2>1, <3>1, <3>2
  <2> QED
    BY <2>2 DEF LossBoundedBySharing, LossBounded, Seen
<1> QED
  BY <1>8, <1>9, <1>10, <1>11, <1>12

\* A destructor releases what nobody else holds.
LEMMA DestroyStep ==
  ASSUME ObjectsInv, NEW o \in Object, Destroy(o)
  PROVE  ObjectsInv'
<1> USE DEF ObjectsInv, TypeInv
<1> DEFINE c == objects[o].handle
<1>1. /\ o \in Live /\ objects' = Without(objects, o) /\ openCount' = openCount - 1
      /\ open' = IF c \in leaking THEN open ELSE open \ {c}
      /\ UNCHANGED <<rows, leaking, abandoned, moves>>
  BY DEF Destroy
<1>2. /\ Live' = Live \ {o} /\ objects' \in [Live' -> TableObject]
      /\ \A k \in Live' : objects'[k] = objects[k]
  <2>1. objects \in [DOMAIN objects -> TableObject]
    BY DEF TypeOK, Live
  <2> QED
    BY <1>1, <2>1, WithoutFacts DEF Live
<1>3. Holding' = Holding \ {o} /\ Holding' \subseteq Live'
  BY <1>2 DEF Holding
<1>4. c \notin abandoned
  <2>1. CASE o \in Holding
    BY <2>1 DEF ConnectionsAccounted
  <2>2. CASE o \notin Holding
    BY <1>1, <2>2, ObjectsAssumption DEF Holding, TypeOK
  <2> QED
    BY <2>1, <2>2
<1>5. TypeOK'
  BY <1>1, <1>2, <1>4 DEF TypeOK
<1>6. Counted'
  BY <1>2, <1>3 DEF Counted
<1>7. ConnectionsAccounted'
  <2>1. \A k \in Holding' : objects'[k].handle = objects[k].handle /\ k \in Holding /\ k # o
    BY <1>2, <1>3
  <2>2. \A k \in Holding' : objects[k].handle # c
    <3>1. CASE o \in Holding
      BY <2>1, <3>1 DEF ConnectionsAccounted
    <3>2. CASE o \notin Holding
      BY <1>1, <2>1, <3>2 DEF Holding
    <3> QED
      BY <3>1, <3>2
  <2>3. \A k \in Holding' : objects'[k].handle \in open' \ abandoned'
    BY <1>1, <2>1, <2>2 DEF ConnectionsAccounted
  <2>4. \A k, other \in Holding' :
          k # other => objects'[k].handle # objects'[other].handle
    BY <2>1 DEF ConnectionsAccounted
  <2>5. ASSUME NEW d \in open' \ abandoned', d \notin leaking'
        PROVE  \E k \in Holding' : objects'[k].handle = d
    <3>1. d \in open \ abandoned /\ d \notin leaking
      BY <1>1, <2>5
    <3>2. PICK k \in Holding : objects[k].handle = d
      BY <3>1 DEF ConnectionsAccounted
    <3>3. k # o
      BY <1>1, <2>5, <3>1, <3>2
    <3> QED
      BY <1>3, <2>1, <3>2, <3>3
  <2> QED
    BY <2>3, <2>4, <2>5 DEF ConnectionsAccounted
<1>8. CountMissesMoves'
  <2>1. Cardinality(Live') = Cardinality(Live) - 1
    BY <1>1, <1>2, LiveIsFinite, FS_RemoveElement
  <2> QED
    BY <1>1, <2>1, LiveIsFinite DEF CountMissesMoves, TypeOK
<1>9. LossBoundedBySharing'
  BY <1>1, <1>2, <1>3 DEF LossBoundedBySharing, Seen
<1> QED
  BY <1>5, <1>6, <1>7, <1>8, <1>9

-----------------------------------------------------------------------------
\* No objects, no connections, no rows.
LEMMA ObjectsInit == Init => ObjectsInv
<1> SUFFICES ASSUME Init PROVE ObjectsInv
  OBVIOUS
<1>1. IsRows(rows, Row)
  BY FS_EmptySet DEF Init, IsRows
<1>2. Live = {} /\ Holding = {} /\ objects \in [Live -> TableObject]
  BY DEF Init, Live, Holding
<1>3. TypeInv
  BY <1>1, <1>2 DEF Init, TypeInv, TypeOK, Counted
<1>4. CountMissesMoves
  BY <1>2, FS_EmptySet DEF Init, CountMissesMoves
<1>5. ConnectionsAccounted /\ LossBoundedBySharing
  BY <1>2 DEF Init, ConnectionsAccounted, LossBoundedBySharing
<1> QED
  BY <1>3, <1>4, <1>5 DEF ObjectsInv

\* Every step keeps all of it.
LEMMA ObjectsStep == ObjectsInv /\ [Next]_vars => ObjectsInv'
<1> SUFFICES ASSUME ObjectsInv, [Next]_vars PROVE ObjectsInv'
  OBVIOUS
<1>1. CASE UNCHANGED vars
  BY <1>1 DEF ObjectsInv, TypeInv, TypeOK, Counted, ConnectionsAccounted,
    CountMissesMoves, LossBoundedBySharing, Live, Holding, Seen, vars
<1>2. ASSUME NEW o \in Object, NEW id, Read(o, id) PROVE ObjectsInv'
  BY <1>2, ReadStep DEF Read
<1>3. ASSUME NEW o \in Object, ReadMissing(o) PROVE ObjectsInv'
  BY <1>3, ReadStep DEF ReadMissing
<1>4. CASE Next
  BY <1>1, <1>2, <1>3, <1>4, ConstructStep, ThrowsLateStep, MoveStep, DestroyStep,
    AddStep, DeleteStep, DeleteManyStep DEF Next, ConstructThrows, Refused
<1> QED
  BY <1>1, <1>4

\* It holds in every reachable state.
LEMMA ObjectsInvariant == Spec => []ObjectsInv
BY ObjectsInit, ObjectsStep, PTL DEF Spec

\* Whatever is done on the file through however many objects, their state and
\* the file's rows keep their types.
THEOREM ObjectsAreTyped == Spec => []TypeOK
<1>1. ObjectsInv => TypeOK
  BY DEF ObjectsInv, TypeInv
<1> QED
  BY <1>1, ObjectsInvariant, PTL

\* Whatever objects are constructed, moved and destroyed, and whichever
\* constructors throw, each open connection has exactly one owner or a known
\* reason to have none, and no owner holds a closed one.
THEOREM ConnectionsHaveOwners == Spec => []ConnectionsAccounted
<1>1. ObjectsInv => ConnectionsAccounted
  BY DEF ObjectsInv
<1> QED
  BY <1>1, ObjectsInvariant, PTL

\* After any number of moves OPENED_..._TABLES_COUNT is short of the objects
\* alive by exactly that number.
THEOREM CountIsShortByMoves == Spec => []CountMissesMoves
<1>1. ObjectsInv => CountMissesMoves
  BY DEF ObjectsInv
<1> QED
  BY <1>1, ObjectsInvariant, PTL

\* For any number of objects on one file, what the stale counters of one can
\* lose is at most what the others have added since it was opened, and the one
\* row __init__ may have mistaken for none.
THEOREM SharingLossIsBounded == Spec => []LossBoundedBySharing
<1>1. ObjectsInv => LossBoundedBySharing
  BY DEF ObjectsInv
<1> QED
  BY <1>1, ObjectsInvariant, PTL
=============================================================================
