----------------------------- MODULE MCFdTable -----------------------------
(* Small tables: the descriptions are interchangeable.                       *)
EXTENDS FdTable, TLC

Symmetry == Permutations(Descs)
=============================================================================
