---------------------------- MODULE MCInterviews ----------------------------
(* Small instances of Interviews: handlers are interchangeable. *)
EXTENDS Interviews, TLC

Symmetry == Permutations(Handlers)
=============================================================================
