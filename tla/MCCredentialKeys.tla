-------------------------- MODULE MCCredentialKeys --------------------------
(* Small instances of CredentialKeys: processes are interchangeable.  Sites are not, *)
(* because NoRequest names one of them.                                            *)
EXTENDS CredentialKeys, TLC

Symmetry == Permutations(Procs)
=============================================================================
