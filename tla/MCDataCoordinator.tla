-------------------------- MODULE MCDataCoordinator --------------------------
(* DataCoordinator for TLC.  Calls, contexts and keys are interchangeable, *)
(* so it is enough that the first call comes before the second, in the     *)
(* first context and about the first key.  This is a constraint and no     *)
(* SYMMETRY, which liveness excludes: it cuts calls nobody has to make.    *)
EXTENDS DataCoordinator

CONSTANTS c1, c2, x1, x2, k1, k2

FirstCall ==
  IF calls[x1] = Unused THEN calls[x2] = Unused
  ELSE calls[x1].context = c1 /\ calls[x1].key = k1
=============================================================================
