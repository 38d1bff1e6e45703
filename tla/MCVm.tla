-------------------------------- MODULE MCVm --------------------------------
EXTENDS Vm

CONSTANTS p1, p2, t1, t2, c1

MCProcs == {p1, p2}
MCThreads == {t1, t2, c1}
MCProcOf == t1 :> p1 @@ t2 :> p1 @@ c1 :> p2
MCMap(fixed, b, n, anon, shared) ==
  [fixed |-> fixed, b |-> b, n |-> n, prot |-> "rw",
   flags |-> [anon |-> anon, shared |-> shared]]
MCMaps == {MCMap(TRUE, 0, 3, TRUE, FALSE), MCMap(FALSE, 1, 2, TRUE, TRUE),
           MCMap(TRUE, 1, 1, FALSE, TRUE), MCMap(FALSE, 1, 1, FALSE, FALSE)}
MCMappers == {t1}
MCSymmetry == Permutations(Frames)
=============================================================================
