---------------------------- MODULE TableObjects ----------------------------
(***************************************************************************)
(* Several objects of one table class (CycleTable, DailyTable or           *)
(* PolicyTable) on one table of one SQLite file: constructors that fail,   *)
(* move constructors, destructors, who holds which connection, and what    *)
(* becomes of the counters an object caches while another writes the file. *)
(*                                                                         *)
(* The callers are careful in the sense of RowTable: they delete only rows *)
(* that are there.                                                         *)
(***************************************************************************)
EXTENDS TableOps

CONSTANTS
  Object,      \* places an object can be constructed in
  Row,         \* what a row holds besides its ID
  MaxId,       \* bound: IDs handed out stay below MaxId
  MaxCount,    \* bound: how many rows an object counts
  MaxForeign,  \* bound: rows added behind the back of an object
  Connection,  \* connections that can be open at a time
  Null,        \* no connection
  MaxMoves     \* bound: moves

ASSUME ObjectsAssumption ==
  /\ IsFiniteSet(Object) /\ Null \notin Connection
  /\ MaxId \in Nat /\ MaxCount \in Nat /\ MaxForeign \in Nat /\ MaxMoves \in Nat

VARIABLES
  rows,        \* the rows in the file
  objects,     \* the objects alive
  open,        \* the open connections
  leaking,     \* those with unfinalized statements nothing points to
  openCount,   \* OPENED_..._TABLES_COUNT
  abandoned,   \* ghost: connections left behind by a constructor that threw
  moves        \* ghost: how often a move constructor has run

vars == <<rows, objects, open, leaking, openCount, abandoned, moves>>

(* An object: m_db_handler, m_db_statement (0 or 1 statements), m_next_id, *)
(* m_rows, and two ghosts: whether it was opened on a file with ID 0 as    *)
(* its only row, which __init__ mistakes for none, and how many rows other *)
(* objects have added since it was opened.                                 *)
TableObject ==
  [handle : Connection \cup {Null}, statement : {0, 1}, nextId : Nat,
   count : Nat \cup {-1}, mistaken : {0, 1}, foreign : Nat]

Live == DOMAIN objects
Holding == {o \in Live : objects[o].handle # Null}

\* The table as object o sees it.
Seen(o) == [rows |-> rows, nextId |-> objects[o].nextId, count |-> objects[o].count]

TypeOK ==
  /\ IsRows(rows, Row)
  /\ Live \subseteq Object /\ objects \in [Live -> TableObject]
  /\ open \subseteq Connection /\ leaking \subseteq open
  /\ openCount \in Int /\ abandoned \subseteq open /\ moves \in Nat

Init ==
  /\ rows = [k \in {} |-> {}] /\ objects = [o \in {} |-> {}]
  /\ open = {} /\ leaking = {}
  /\ openCount = 0 /\ abandoned = {} /\ moves = 0

-----------------------------------------------------------------------------
With(f, key, value) == [k \in DOMAIN f \cup {key} |-> IF k = key THEN value ELSE f[k]]
Without(f, key) == Restrict(f, DOMAIN f \ {key})

\* A constructor: the count of open tables is raised last.
Construct(o, c) ==
  LET t == OpenTable(rows)
  IN  /\ o \notin Live /\ c \notin open
      /\ open' = open \cup {c}
      /\ objects' = With(objects, o,
           [handle |-> c, statement |-> 0, nextId |-> t.nextId,
            count |-> t.count, foreign |-> 0,
            mistaken |-> IF DOMAIN rows = {0} THEN 1 ELSE 0])
      /\ openCount' = openCount + 1
      /\ UNCHANGED <<rows, leaking, abandoned, moves>>

\* A mutant: the count is raised before __init__, which throws.
ConstructThrowsCounted ==
  /\ openCount' = openCount + 1
  /\ UNCHANGED <<rows, objects, open, leaking, abandoned, moves>>

\* __init__ throws while the file is opened, the table created or its rows
\* counted: __terminate__ has closed the connection, if there was one.
ConstructThrows == UNCHANGED vars

\* It throws where the last ID is read, after iDatabase::__init__: only
\* ~iDatabase runs then, and forgets the handle.
ConstructThrowsLate(c) ==
  /\ c \notin open
  /\ open' = open \cup {c}
  /\ abandoned' = abandoned \cup {c}
  /\ UNCHANGED <<rows, objects, leaking, openCount, moves>>

\* What the move constructor leaves behind.
Hollow ==
  [handle |-> Null, statement |-> 0, nextId |-> 0, count |-> -1,
   mistaken |-> 0, foreign |-> 0]

\* A mutant: the source keeps its handle.
MoveSharing(from, to) ==
  /\ from \in Live /\ to \notin Live /\ moves < MaxMoves
  /\ objects' = With(objects, to, objects[from])
  /\ moves' = moves + 1
  /\ UNCHANGED <<rows, open, leaking, openCount, abandoned>>

\* A mutant: the counters are not taken over, only the file and the handle.
MoveHandleOnly(from, to) ==
  /\ from \in Live /\ to \notin Live /\ moves < MaxMoves
  /\ objects' = With([objects EXCEPT ![from] = Hollow], to,
                     [objects[from] EXCEPT !.nextId = 0, !.count = -1])
  /\ moves' = moves + 1
  /\ UNCHANGED <<rows, open, leaking, openCount, abandoned>>

\* A move constructor: it takes everything over and counts nothing.
Move(from, to) ==
  /\ from \in Live /\ to \notin Live /\ moves < MaxMoves
  /\ objects' = With([objects EXCEPT ![from] = Hollow], to, objects[from])
  /\ moves' = moves + 1
  /\ UNCHANGED <<rows, open, leaking, openCount, abandoned>>

\* The destructor: sqlite3_close refuses a connection with statements left.
Destroy(o) ==
  LET c == objects[o].handle
  IN  /\ o \in Live
      /\ objects' = Without(objects, o)
      /\ openCount' = openCount - 1
      /\ open' = IF c \in leaking THEN open ELSE open \ {c}
      /\ UNCHANGED <<rows, leaking, abandoned, moves>>

-----------------------------------------------------------------------------
\* Object o prepares a statement; what its slot pointed to before is leaked.
Prepared(o) ==
  leaking' = IF objects[o].statement = 1 THEN leaking \cup {objects[o].handle}
                                         ELSE leaking

\* Object o now sees table t, and the others have n new rows behind their back.
Wrote(o, t, n) ==
  /\ rows' = t.rows
  /\ objects' = [k \in Live |->
       IF k = o THEN [objects[k] EXCEPT !.nextId = t.nextId, !.count = t.count,
                                        !.statement = 0]
       ELSE IF k \in Holding THEN [objects[k] EXCEPT !.foreign = @ + n]
       ELSE objects[k]]
  /\ Prepared(o)
  /\ UNCHANGED <<open, openCount, abandoned, moves>>

\* An add that stores its row is news to all other objects.
Add(o, row) ==
  LET n == IF WillCollide(Seen(o)) THEN 0 ELSE 1
  IN  /\ o \in Holding
      /\ objects[o].nextId < MaxId /\ objects[o].count < MaxCount
      /\ \A k \in Holding \ {o} : objects[k].foreign + n <= MaxForeign
      /\ Wrote(o, AddRow(Seen(o), row), n)

Delete(o, id) ==
  /\ o \in Holding /\ id \in DOMAIN rows
  /\ Wrote(o, DeleteRow(Seen(o), id), 0)

DeleteMany(o, ids) ==
  /\ o \in Holding /\ ids \subseteq DOMAIN rows
  /\ Wrote(o, DeleteRows(Seen(o), ids, Cardinality(ids)), 0)

Read(o, id) ==
  /\ o \in Holding /\ id \in DOMAIN rows
  /\ Prepared(o)
  /\ objects' = [objects EXCEPT ![o].statement = 0]
  /\ UNCHANGED <<rows, open, openCount, abandoned, moves>>

\* A read that throws keeps its statement.
ReadMissing(o) ==
  /\ o \in Holding
  /\ Prepared(o)
  /\ objects' = [objects EXCEPT ![o].statement = 1]
  /\ UNCHANGED <<rows, open, openCount, abandoned, moves>>

\* Whatever is asked of an object that has been moved from throws: there is
\* no handle to prepare a statement with.
Refused(o) == o \in Live \ Holding /\ UNCHANGED vars

Next ==
  \/ \E o \in Object :
       \/ \E c \in Connection : Construct(o, c)
       \/ Destroy(o) \/ ReadMissing(o) \/ Refused(o)
       \/ \E to \in Object : Move(o, to)
       \/ \E row \in Row : Add(o, row)
       \/ \E id \in 0..MaxId : Delete(o, id) \/ Read(o, id)
       \/ \E ids \in SUBSET (0..MaxId) : DeleteMany(o, ids)
  \/ ConstructThrows
  \/ \E c \in Connection : ConstructThrowsLate(c)

Spec == Init /\ [][Next]_vars

-----------------------------------------------------------------------------
\* Every object that holds a connection holds an open one, and alone: moves
\* and destructors neither share a handle nor close one twice.  A connection
\* nobody holds was left by a constructor that threw late, or has statements
\* that reads left behind.
ConnectionsAccounted ==
  /\ \A o \in Holding : objects[o].handle \in open \ abandoned
  /\ \A o, other \in Holding :
       o # other => objects[o].handle # objects[other].handle
  /\ \A c \in open \ abandoned :
       c \in leaking \/ \E o \in Holding : objects[o].handle = c

\* OPENED_..._TABLES_COUNT is the number of objects alive, less one for every
\* move there ever was, whatever constructors have thrown in between.
CountMissesMoves == openCount = Cardinality(Live) - moves

\* Objects that share a file never make it worse than one row for one row: an
\* object's m_rows falls short of the file by at most the rows the others have
\* added since it was opened, and no more rows than these (and the one that
\* __init__ may have mistaken) lie where its next additions will be lost.
LossBoundedBySharing ==
  \A o \in Holding :
    /\ objects[o].count + objects[o].foreign >= Cardinality(DOMAIN rows)
    /\ Cardinality(AtRisk(Seen(o))) <= objects[o].foreign + objects[o].mistaken
=============================================================================
