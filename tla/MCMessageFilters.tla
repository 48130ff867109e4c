-------------------------- MODULE MCMessageFilters --------------------------
(* Instances of MessageFilters for TLC. *)
EXTENDS MessageFilters, TLC

CONSTANTS f1, f2, f3, f4, f5

FiveFilters == {f1, f2, f3, f4, f5}
Alike == Permutations(FiveFilters)
=============================================================================
