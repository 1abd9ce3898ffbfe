------------------------------ MODULE MCLinks ------------------------------
(* Small instances of Links for TLC.                                       *)
EXTENDS Links, TLC

\* Safety only: goroutine slots are interchangeable.
Symmetry == {d @@ a : d \in Permutations(Dialers), a \in Permutations(Accepters)}
=============================================================================
