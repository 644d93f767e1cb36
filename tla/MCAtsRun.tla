------------------------------ MODULE MCAtsRun ------------------------------
(* Small instances of AtsRun. *)
EXTENDS AtsRun, TLC
Symmetry == Permutations(Rows)
=============================================================================
