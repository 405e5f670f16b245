------------------------------ MODULE MCLedger ------------------------------
(***************************************************************************)
(* Ledger on small instances.  An account opened with 5 and a ratio of 50  *)
(* percent make the rounding of applyPolicy lose the odd unit; -9 can turn *)
(* a balance negative.  Of the texts "it's" is a syntax error in an UPDATE,*)
(* which stores "it''s" as the same.                                       *)
(***************************************************************************)
EXTENDS Ledger

AmountFive == {5}
AmountNine == {-9}
RatioHalf == {50}

SingleQuoted == {"it's"}
Unescaped == [text \in Descriptions |-> IF text = "it''s" THEN "it's" ELSE text]
=============================================================================
