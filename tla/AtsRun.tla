------------------------------- MODULE AtsRun -------------------------------
(***************************************************************************)
(* Runs of an ATS adapter (services/ats/base.py) for rows of one user on   *)
(* one site: the standard flow up to the confirmation, the sign-in with a  *)
(* stored credential, the account made with the managed alias, and the     *)
(* verification mail that brings its rows back (services/apply_email.py,   *)
(* workers/tasks/apply.py).  The page is the environment: what a probe     *)
(* sees is a choice, except that the site shows its form only to a visitor *)
(* it signed in or asks for no sign-in, and its confirmation only for what *)
(* it accepted.  A credential is known by its password: each is generated  *)
(* once.                                                                   *)
(***************************************************************************)
EXTENDS Integers, FiniteSets

CONSTANTS
    Rows,          \* applications of the user on the site
    MaxEvents      \* bound: retries and switches of the user, and faults

ASSUME AtsAssumption == MaxEvents \in Nat

VARIABLES
    row,           \* row[r]: status and needs_action of the application
    run,           \* run[r]: the task of r: where it is, what it read, its result
    user,          \* the stored user: the managed alias, 0 for none, and automation
    aliases,       \* aliases generated so far
    credential,    \* the site credential stored for the user; 0 is none
    made,          \* credentials generated so far
    signups,       \* credentials whose sign-up form was sent
    dropped,       \* credentials that were deleted
    accounts,      \* accounts at the site
    accepted,      \* rows whose form the site accepted
    mail,          \* aliases the site has sent a verification mail to
    opened,        \* credentials a link was opened for without an error
    task,          \* verify_managed_account
    events

vars == <<row, run, user, aliases, credential, made, signups, dropped, accounts, accepted, mail,
          opened, task, events>>

RowStates == {"queued", "awaiting_email_verification", "parked", "submitted"}
RunPc == {"idle", "open", "login", "create", "alias", "find", "insert", "signup", "signed_up",
          "drop", "form", "confirm", "save"}
NoCredential == [id |-> 0, status |-> "none", alias |-> 0]
NewUser == [alias |-> 0, on |-> TRUE]
RunOf(pc, c, u, result) == [pc |-> pc, cred |-> c, user |-> u, result |-> result]
Holding(pc, c) == RunOf(pc, c, NewUser, "parked")        \* a run with a credential it read or made
Reading(pc, u) == RunOf(pc, NoCredential, u, "parked")   \* a run with the user it read
Ended(result) == RunOf("save", NoCredential, NewUser, result)
IdleRun == Holding("idle", NoCredential)
IdleTask == [pc |-> "idle", cred |-> 0, alias |-> 0, rows |-> {}]

Init ==
    /\ row = [r \in Rows |-> "queued"] /\ run = [r \in Rows |-> IdleRun]
    /\ user = NewUser /\ aliases = 0
    /\ credential = NoCredential /\ made = 0 /\ signups = {} /\ dropped = {}
    /\ accounts = {} /\ accepted = {} /\ mail = {} /\ opened = {}
    /\ task = IdleTask /\ events = 0

-----------------------------------------------------------------------------
At(r, pc) == run[r].pc = pc
Goes(r, pc) == run' = [run EXCEPT ![r].pc = pc]
Ends(r, result) == run' = [run EXCEPT ![r] = Ended(result)]
Parks(r) == Ends(r, "parked")
TaskAt(pc) == task.pc = pc
Event == events < MaxEvents /\ events' = events + 1
site == <<signups, accounts, accepted, mail>>
stored == <<credential, made, dropped>>
person == <<user, aliases>>
visits == <<opened, task>>

\* _submit_async: the credential of the job's site is read before the adapter runs.
Start(r) ==
    /\ row[r] = "queued" /\ At(r, "idle")
    /\ run' = [run EXCEPT ![r] = Holding("open", credential)]
    /\ UNCHANGED <<row, person, stored, site, visits, events>>

\* Up to the form or the wall: something is missing, the page does not load, shows a
\* challenge or is another host's; there is a form; or the site wants a sign-in.
run_standard_flow(r) ==
    /\ At(r, "open")
    /\ Parks(r) \/ Goes(r, "form") \/ Goes(r, IF run[r].cred.id = 0 THEN "create" ELSE "login")
    /\ UNCHANGED <<row, person, stored, site, visits, events>>

\* The site signs in who presents the address and password of a verified account, if nothing
\* is in the way; anything else parks, and no second attempt is made.
perform_login(r) ==
    LET c == run[r].cred
    IN  /\ At(r, "login")
        /\ \/ Parks(r)
           \/ [alias |-> c.alias, cred |-> c.id, verified |-> TRUE] \in accounts /\ Goes(r, "form")
        /\ UNCHANGED <<row, person, stored, site, visits, events>>

-----------------------------------------------------------------------------
(* _register_managed_account *)

\* The user is read, and has opted in or not.
Create(r) ==
    /\ At(r, "create")
    /\ Parks(r) \/ run' = [run EXCEPT ![r] = Reading("alias", user)]
    /\ UNCHANGED <<row, person, stored, site, visits, events>>

\* A first alias is saved with the whole user as it was read.
ensure_alias(r) ==
    LET given == [run[r].user EXCEPT !.alias = aliases + 1]
    IN  /\ At(r, "alias")
        /\ IF run[r].user.alias = 0
             THEN /\ user' = given /\ aliases' = aliases + 1
                  /\ run' = [run EXCEPT ![r] = Reading("find", given)]
             ELSE Goes(r, "find") /\ UNCHANGED person
        /\ UNCHANGED <<row, stored, site, visits, events>>

\* create_managed_credential looks for a credential of the site.
Find(r) ==
    /\ At(r, "find")
    /\ IF credential.id # 0 THEN Ends(r, "awaiting_email_verification") ELSE Goes(r, "insert")
    /\ UNCHANGED <<row, person, stored, site, visits, events>>

\* Mutant: a second credential of a site replaces the first.
InsertReplacing(r) ==
    LET new == [id |-> made + 1, status |-> "pending_verification", alias |-> run[r].user.alias]
    IN  /\ At(r, "insert")
        /\ made' = made + 1 /\ credential' = new /\ UNCHANGED dropped
        /\ run' = [run EXCEPT ![r] = Holding("signup", new)]
        /\ UNCHANGED <<row, person, site, visits, events>>

\* The unique index lets one of two inserts through; the other is an adapter_error.
Insert(r) ==
    LET new == [id |-> made + 1, status |-> "pending_verification", alias |-> run[r].user.alias]
    IN  /\ At(r, "insert")
        /\ IF credential.id # 0
             THEN Parks(r) /\ UNCHANGED stored
             ELSE /\ made' = made + 1 /\ credential' = new /\ UNCHANGED dropped
                  /\ run' = [run EXCEPT ![r] = Holding("signup", new)]
        /\ UNCHANGED <<row, person, site, visits, events>>

\* perform_registration up to its click: a challenge or a form it does not know, or the
\* click, on which the site makes an account of the address unless it has one.
perform_registration(r) ==
    LET c == run[r].cred
    IN  /\ At(r, "signup")
        /\ \/ Goes(r, "drop") /\ UNCHANGED site
           \/ /\ Goes(r, "signed_up")
              /\ signups' = signups \cup {c.id}
              /\ IF \E a \in accounts : a.alias = c.alias
                   THEN UNCHANGED <<accounts, mail>>
                   ELSE /\ accounts' = accounts
                              \cup {[alias |-> c.alias, cred |-> c.id, verified |-> FALSE]}
                        /\ mail' = mail \cup {c.alias}
              /\ UNCHANGED accepted
        /\ UNCHANGED <<row, person, stored, visits, events>>

\* The row waits for the mail, unless the page shows a challenge after the click.
Registered(r) ==
    /\ At(r, "signed_up")
    /\ Ends(r, "awaiting_email_verification") \/ Goes(r, "drop")
    /\ UNCHANGED <<row, person, stored, site, visits, events>>

Deleted(c) ==
    /\ credential' = IF credential.id = c THEN NoCredential ELSE credential
    /\ dropped' = dropped \cup {c}
    /\ UNCHANGED made

\* A sign-up that failed takes its credential with it.
DropCredential(r) ==
    /\ At(r, "drop")
    /\ Deleted(run[r].cred.id)
    /\ Parks(r)
    /\ UNCHANGED <<row, person, site, visits, events>>

-----------------------------------------------------------------------------
(* The form *)

\* The form is not known or has no control, or a challenge shows; or it is filled and sent:
\* the site accepts it or bounces it.
submit(r) ==
    /\ At(r, "form")
    /\ \/ Parks(r) /\ UNCHANGED accepted
       \/ Goes(r, "confirm") /\ accepted' \in {accepted, accepted \cup {r}}
    /\ UNCHANGED <<row, person, stored, signups, accounts, mail, visits, events>>

\* Mutant: a page without a complaint is taken for a confirmation.
confirmUnlessInvalid(r) ==
    /\ At(r, "confirm")
    /\ Parks(r) \/ Ends(r, "submitted")
    /\ UNCHANGED <<row, person, stored, site, visits, events>>

\* A challenge, a complaint or a page that says neither parks what may have gone out.
confirm(r) ==
    /\ At(r, "confirm")
    /\ Parks(r) \/ (r \in accepted /\ Ends(r, "submitted"))
    /\ UNCHANGED <<row, person, stored, site, visits, events>>

\* _submit_async saves the row it read, with the result.
SaveRow(r) ==
    /\ At(r, "save")
    /\ row' = [row EXCEPT ![r] = run[r].result]
    /\ run' = [run EXCEPT ![r] = IdleRun]
    /\ UNCHANGED <<person, stored, site, visits, events>>

-----------------------------------------------------------------------------
(* The mail and what follows it *)

\* ingest: mail to an alias no user has is dropped; the task is started for the pending
\* credential of the sender's domain, whichever that is by now.  One mail is followed at a
\* time, and may be delivered again.
ingest(a) ==
    /\ a \in mail /\ TaskAt("idle")
    /\ mail' \in {mail, mail \ {a}}
    /\ task' = IF a = user.alias /\ credential.status = "pending_verification"
                 THEN [IdleTask EXCEPT !.pc = "check", !.cred = credential.id, !.alias = a]
                 ELSE IdleTask
    /\ UNCHANGED <<row, run, person, stored, signups, accounts, accepted, opened, events>>

\* Mutant: a credential is active as soon as its mail is there.
CheckPendingActivating ==
    /\ TaskAt("check")
    /\ IF credential.id = task.cred /\ credential.status = "pending_verification"
         THEN task' = [task EXCEPT !.pc = "visit"] /\ credential' = [credential EXCEPT !.status = "active"]
         ELSE task' = IdleTask /\ UNCHANGED credential
    /\ UNCHANGED <<row, run, person, made, dropped, site, opened, events>>

CheckPending ==
    /\ TaskAt("check")
    /\ task' = IF credential.id = task.cred /\ credential.status = "pending_verification"
                 THEN [task EXCEPT !.pc = "visit"] ELSE IdleTask
    /\ UNCHANGED <<row, run, person, stored, site, opened, events>>

Confirmed(a) == [a EXCEPT !.verified = (@ \/ a.alias = task.alias)]

\* The link is opened: the page raises, and the mail is not looked at again, or it loads,
\* which may have confirmed the address or not (an expired link, one more click to make).
Visit ==
    /\ TaskAt("visit")
    /\ \/ task' = IdleTask /\ UNCHANGED <<opened, accounts>>
       \/ /\ task' = [task EXCEPT !.pc = "activate"]
          /\ opened' = opened \cup {task.cred}
          /\ accounts' \in {accounts, {Confirmed(a) : a \in accounts}}
    /\ UNCHANGED <<row, run, person, stored, signups, accepted, mail, events>>

\* The whole credential is saved, also one that was deleted during the visit; a second one
\* of the site refuses it.
Activate ==
    /\ TaskAt("activate")
    /\ IF credential.id \in {0, task.cred}
         THEN /\ credential' = [id |-> task.cred, status |-> "active", alias |-> task.alias]
              /\ task' = [task EXCEPT !.pc = "scan"]
         ELSE task' = IdleTask /\ UNCHANGED credential
    /\ UNCHANGED <<row, run, person, made, dropped, site, opened, events>>

\* Nothing is brought back while automation is paused or stopped, nor a row whose job is gone.
ScanWaiting ==
    /\ TaskAt("scan")
    /\ IF user.on
         THEN \E rs \in SUBSET {r \in Rows : row[r] = "awaiting_email_verification"} :
                 task' = [task EXCEPT !.pc = "requeue", !.rows = rs]
         ELSE task' = IdleTask
    /\ UNCHANGED <<row, run, person, stored, site, opened, events>>

\* Each row found is saved as queued, whatever became of it, and its task published.
Requeue ==
    /\ TaskAt("requeue")
    /\ IF task.rows = {}
         THEN task' = IdleTask /\ UNCHANGED row
         ELSE \E r \in task.rows : /\ row' = [row EXCEPT ![r] = "queued"]
                                   /\ task' = [task EXCEPT !.rows = @ \ {r}]
    /\ UNCHANGED <<run, person, stored, site, opened, events>>

-----------------------------------------------------------------------------
(* The user, and what can go wrong *)

apply_now(r) ==
    /\ Event
    /\ row[r] \notin {"queued", "submitted"}
    /\ row' = [row EXCEPT ![r] = "queued"]
    /\ UNCHANGED <<run, person, stored, site, visits>>

set_automation ==
    /\ Event
    /\ user' = [user EXCEPT !.on = ~@]
    /\ UNCHANGED <<row, run, aliases, stored, site, visits>>

delete_credential ==
    /\ Event
    /\ credential.id # 0 /\ Deleted(credential.id)
    /\ UNCHANGED <<row, run, person, site, visits>>

\* The adapter catches what is raised in it; what it stored by then stays.  Where nothing is
\* stored yet or any more, parking is one of a step's own outcomes.
AdapterError(r) ==
    /\ Event
    /\ run[r].pc \in {"alias", "find", "insert", "signup", "signed_up", "drop"}
    /\ Parks(r)
    /\ UNCHANGED <<row, person, stored, site, visits>>

\* The worker is lost, and the message of the row delivered again.
WorkerLost(r) ==
    /\ Event
    /\ ~At(r, "idle")
    /\ run' = [run EXCEPT ![r] = IdleRun]
    /\ UNCHANGED <<row, person, stored, site, visits>>

\* The task is lost with its worker.
TaskFails ==
    /\ Event
    /\ ~TaskAt("idle")
    /\ task' = IdleTask
    /\ UNCHANGED <<row, run, person, stored, site, opened>>

-----------------------------------------------------------------------------
RunStep(r) ==
    \/ Start(r) \/ run_standard_flow(r) \/ perform_login(r)
    \/ Create(r) \/ ensure_alias(r) \/ Find(r) \/ Insert(r)
    \/ perform_registration(r) \/ Registered(r) \/ DropCredential(r)
    \/ submit(r) \/ confirm(r) \/ SaveRow(r)
TaskStep == CheckPending \/ Visit \/ Activate \/ ScanWaiting \/ Requeue

Next ==
    \/ \E r \in Rows : RunStep(r) \/ apply_now(r) \/ AdapterError(r) \/ WorkerLost(r)
    \/ \E a \in mail : ingest(a)
    \/ TaskStep \/ TaskFails \/ set_automation \/ delete_credential

Spec == Init /\ [][Next]_vars

-----------------------------------------------------------------------------
(* Properties *)

\* Every variable keeps its shape.
AtsTypeOK ==
    /\ \A r \in Rows : /\ row[r] \in RowStates
                       /\ run[r].pc \in RunPc /\ run[r].result \in RowStates \ {"queued"}
    /\ user.alias \in 0..aliases /\ user.on \in BOOLEAN
    /\ credential.id \in 0..made
    /\ credential.status = "none" <=> credential.id = 0
    /\ signups \subseteq 1..made /\ dropped \subseteq 1..made /\ opened \subseteq 1..made
    /\ mail \subseteq {a.alias : a \in accounts} /\ accepted \subseteq Rows
    /\ task.rows \subseteq Rows /\ events \in 0..MaxEvents

\* A row shown as submitted is one the site accepted, through retries, lost workers and
\* stale requeues.
SubmittedMeansSent == \A r \in Rows : row[r] = "submitted" => r \in accepted

\* However many rows register at a time, and whatever is lost, the password a sign-up form
\* was sent with is the stored one, unless that one was deleted; so is that of every account.
PasswordsKept ==
    /\ signups \subseteq dropped \cup {credential.id}
    /\ \A a \in accounts : a.cred \in signups

\* No credential is shown active for which no link was opened, whichever of several
\* credentials the mail, the task and a deletion were about.
ActiveIsOpened == credential.status = "active" => credential.id \in opened

RunsTrue == AtsTypeOK /\ SubmittedMeansSent /\ PasswordsKept /\ ActiveIsOpened
=============================================================================
