------------------------- MODULE ApplicationLedger -------------------------
(***************************************************************************)
(* What the apply engine promises about evidence and money, with none of   *)
(* its machinery: an application is shown as submitted, or counted against *)
(* the plan, only after the employer's own page confirmed one (compliance  *)
(* section 2a, "never claim a submission we cannot evidence").             *)
(***************************************************************************)
EXTENDS Naturals

CONSTANT Rows            \* the JobApplication rows of one user

VARIABLES
    received,            \* received[r]: applications for r the employer confirmed
    claimed,             \* rows whose status reads "submitted"
    charged              \* charged[r]: units of the plan spent on r

ledger == <<received, claimed, charged>>

Init ==
    /\ received = [r \in Rows |-> 0]
    /\ claimed = {}
    /\ charged = [r \in Rows |-> 0]

\* The employer confirms one more application for r.
Receive(r) ==
    /\ received' = [received EXCEPT ![r] = @ + 1]
    /\ UNCHANGED <<claimed, charged>>

\* The dashboard may say "submitted" only of an application that was received.
Claim(r) ==
    /\ received[r] > 0
    /\ claimed' = claimed \cup {r}
    /\ UNCHANGED <<received, charged>>

\* Rows may leave "submitted": later progress, a cancel, a delete.
Withdraw(gone) ==
    /\ claimed' = claimed \ gone
    /\ UNCHANGED <<received, charged>>

\* Each confirmed application costs at most one unit.
Charge(r) ==
    /\ charged[r] < received[r]
    /\ charged' = [charged EXCEPT ![r] = @ + 1]
    /\ UNCHANGED <<received, claimed>>

Next ==
    \/ \E r \in Rows : Receive(r) \/ Claim(r) \/ Charge(r)
    \/ \E gone \in SUBSET Rows : Withdraw(gone)

Spec == Init /\ [][Next]_ledger
=============================================================================
