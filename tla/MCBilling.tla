----------------------------- MODULE MCBilling -----------------------------
(* Small instances of Billing: handlers and Stripe ids are interchangeable. *)
EXTENDS Billing, TLC

Symmetry == Permutations(Handlers) \cup Permutations(Subs)
=============================================================================
