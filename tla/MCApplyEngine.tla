--------------------------- MODULE MCApplyEngine ---------------------------
(* Small instances of ApplyEngine.  Rows, tasks and feeders are              *)
(* interchangeable, so the safety runs explore one representative of each    *)
(* permutation.                                                              *)
EXTENDS ApplyEngine, TLC

Symmetry == Permutations(Rows) \cup Permutations(Tasks) \cup Permutations(Feeders)
=============================================================================
