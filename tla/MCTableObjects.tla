--------------------------- MODULE MCTableObjects ---------------------------
(***************************************************************************)
(* TableObjects on a small instance: interchangeable objects and           *)
(* connections, one content for all rows.                                  *)
(***************************************************************************)
EXTENDS TableObjects, TLC

Symmetry == Permutations(Object) \cup Permutations(Connection)
=============================================================================
