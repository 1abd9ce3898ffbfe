--------------------------- MODULE MCFileCreator ---------------------------
(* A download with two sources. *)
EXTENDS FileCreator, TLC

Symmetry == Permutations(Refs)
=============================================================================
