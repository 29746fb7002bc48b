--------------------------- MODULE MCInstancePool ----------------------------
(***************************************************************************)
(* Small instances of InstancePool: three sizes, one for each decision of  *)
(* acquireScratch.                                                         *)
(***************************************************************************)
EXTENDS InstancePool, TLC

(* At the base scratch's limit, one past it, at and past MaxText.          *)
MCTotals == {BaseText, BaseText + 1, MaxText, MaxText + 1}

Symmetry == Permutations(Goroutine) \cup Permutations(Instance)
=============================================================================
