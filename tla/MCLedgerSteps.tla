---------------------------- MODULE MCLedgerSteps ----------------------------
(***************************************************************************)
(* LedgerSteps on small instances.  Half of what an entry opened with 2    *)
(* has is 1, so that a policy moves money; -3 takes a balance below zero.  *)
(* One policy is between two entries, and one from an entry to itself.     *)
(***************************************************************************)
EXTENDS LedgerSteps

AmountTwo == {2}
AmountThree == {-3}
RatioHalf == {50}
Transfers == {<<0, 1>>, <<0, 0>>}

Unescaped == [text \in Descriptions |-> text]
=============================================================================
