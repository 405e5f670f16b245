--------------------------- MODULE LedgerAccounts ---------------------------
(***************************************************************************)
(* Ledger implements Accounts, as long as none of its flaws strikes: the   *)
(* history of an account is read off the records its records table names,  *)
(* in the order of their IDs.                                              *)
(***************************************************************************)
EXTENDS Ledger

\* The n-th lowest of a set of IDs.
Nth(ids, n) == CHOOSE r \in ids : Cardinality({k \in ids : k < r}) = n - 1

History(b, id) ==
  [n \in 1..Cardinality(b.recs[id]) |-> b.daily.rows[Nth(b.recs[id], n)]]

Book == INSTANCE Accounts
          WITH Ids <- EntryId, Transaction <- Record, Written <- Pasted,
               history <- [id \in DOMAIN books.recs |-> History(books, id)],
               state <- books.cycle.rows, agreements <- policy.rows,
               request <- reply

\* Whatever a caller does to the ledger short of its flaws, each call does to
\* the accounts it names what it is for, and nothing to any other: it touches
\* no other history and no other entry, loses, doubles or reorders no
\* transaction, though record IDs are reused, entries and policies come and go
\* between two calls, and two updates make up a policy.  A call that throws
\* does nothing, but for a policy whose destination is gone.
ImplementsAccounts == Book!AccountsSpec
=============================================================================
