------------------------------ MODULE RowStore ------------------------------
(***************************************************************************)
(* What a table promises its caller, in the words of cycle_table.h,        *)
(* daily_table.h and policy_table.h: an added row is "stored into SQLite   *)
(* database" under a primary key of its own, a read returns that row, an   *)
(* update changes that row alone and returns it, a deletion removes the    *)
(* named rows and no others, a list returns all rows.  Nothing is said of  *)
(* how keys are chosen.                                                    *)
(***************************************************************************)
CONSTANTS Ids, Row

VARIABLES
  stored,  \* the rows in the database, by ID
  answer   \* the last call, the IDs it named, its outcome, the rows it returned

storeVars == <<stored, answer>>

NoRows == [k \in {} |-> {}]

Single(id, row) == [k \in {id} |-> row]

Answer(op, ids, outcome, rows) ==
  [op |-> op, ids |-> ids, outcome |-> outcome, rows |-> rows]

StoreInit == stored = NoRows /\ answer = Answer("open", {}, "ok", NoRows)

StoreAdd ==
  \E id \in Ids \ DOMAIN stored, row \in Row :
    /\ answer' = Answer("add", {id}, "ok", Single(id, row))
    /\ stored' = [k \in DOMAIN stored \cup {id} |-> IF k = id THEN row ELSE stored[k]]

StoreRead ==
  \E id \in DOMAIN stored :
    /\ answer' = Answer("read", {id}, "ok", Single(id, stored[id]))
    /\ UNCHANGED stored

StoreUpdate ==
  \E id \in DOMAIN stored, row \in Row :
    /\ answer' = Answer("update", {id}, "ok", Single(id, row))
    /\ stored' = [stored EXCEPT ![id] = row]

StoreDelete ==
  \E op \in {"delete", "deleteMany"}, ids \in SUBSET DOMAIN stored :
    /\ answer' = Answer(op, ids, "ok", NoRows)
    /\ stored' = [k \in DOMAIN stored \ ids |-> stored[k]]

StoreList ==
  /\ answer' = Answer("list", {}, "ok", stored)
  /\ UNCHANGED stored

\* Only an update and a deletion of many rows may be refused; it changes nothing.
StoreRefuse ==
  \E op \in {"update", "deleteMany"}, ids \in SUBSET DOMAIN stored :
    /\ answer' = Answer(op, ids, "TableException", NoRows)
    /\ UNCHANGED stored

\* Destroying the object and constructing another leaves the database alone.
StoreReopen ==
  \E op \in {"open", "close"} :
    /\ answer' = Answer(op, {}, "ok", NoRows)
    /\ UNCHANGED stored

StoreNext ==
  \/ StoreAdd \/ StoreRead \/ StoreUpdate \/ StoreDelete \/ StoreList
  \/ StoreRefuse \/ StoreReopen

StoreSpec == StoreInit /\ [][StoreNext]_storeVars
=============================================================================
