-------------------------- MODULE MCLedgerAccounts --------------------------
(***************************************************************************)
(* LedgerAccounts on a small instance; the amounts are those of MCLedger.  *)
(***************************************************************************)
EXTENDS LedgerAccounts, MCLedger
=============================================================================
