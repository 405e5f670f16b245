----------------------------- MODULE MCRowTable -----------------------------
(***************************************************************************)
(* RowTable on a small instance: a plain row, one whose text has a single  *)
(* quote, and one with two quotes in a row, which an UPDATE stores as the  *)
(* single one.                                                             *)
(***************************************************************************)
EXTENDS RowTable

CONSTANTS plain, single, doubled

MCPasted == [row \in Row |-> IF row = doubled THEN single ELSE row]
MCUnpastable == {single}
=============================================================================
