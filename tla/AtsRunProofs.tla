---------------------------- MODULE AtsRunProofs ----------------------------
(***************************************************************************)
(* What the runs of an adapter owe the user, for any number of rows,       *)
(* retries and faults: no row is shown as sent that was not, the password  *)
(* of a sign-up that went out is kept unless its credential was deleted,   *)
(* and a credential is active only once a link was opened for it.          *)
(***************************************************************************)
EXTENDS AtsRun, TLAPS

Credentials == [id : Nat, status : {"none", "pending_verification", "active"}, alias : Nat]
Users == [alias : Nat, on : BOOLEAN]
TaskPc == {"idle", "check", "visit", "activate", "scan", "requeue"}
Tasks == [pc : TaskPc, cred : Nat, alias : Nat, rows : SUBSET Rows]
Results == RowStates \ {"queued"}
Run == [pc : RunPc, cred : Credentials, user : Users, result : Results]
Accounts == [alias : Nat, cred : Nat, verified : BOOLEAN]

\* AtsTypeOK with the records' fields, which the steps need to be followed.
Shape ==
    /\ AtsTypeOK
    /\ row \in [Rows -> RowStates] /\ run \in [Rows -> Run]
    /\ user \in Users /\ aliases \in Nat
    /\ credential \in Credentials /\ made \in Nat
    /\ accounts \subseteq Accounts
    /\ task \in Tasks

\* A result of "submitted" is one the site's confirmation was read for.
ResultsTrue == \A r \in Rows : run[r].result = "submitted" => r \in accepted

PastInsert == {"signup", "signed_up", "drop"}
PastVisit == {"activate", "scan", "requeue"}

\* Past its insert a run holds the stored credential, or one that was deleted; a task is about
\* one that was made and, past its visit, whose link was opened.
HeldCredentials ==
    /\ \A r \in Rows : run[r].pc \in PastInsert =>
          run[r].cred.id \in 1..made /\ run[r].cred.id \in dropped \cup {credential.id}
    /\ task.pc # "idle" => task.cred \in 1..made
    /\ task.pc \in PastVisit => task.cred \in opened

AtsInv ==
    /\ Shape /\ SubmittedMeansSent /\ ResultsTrue /\ HeldCredentials /\ PasswordsKept
    /\ ActiveIsOpened

\* The steps of a run on a page: no account or credential is made or dropped.
PageStep(r) ==
    \/ run_standard_flow(r) \/ perform_login(r) \/ Create(r) \/ ensure_alias(r) \/ Find(r)
    \/ Registered(r) \/ submit(r) \/ confirm(r) \/ AdapterError(r)

\* The steps that begin or end a run, or bring its row back.
EdgeStep(r) == Start(r) \/ SaveRow(r) \/ WorkerLost(r) \/ apply_now(r)

\* The steps of the task, but for the two that look for rows and bring them back.
LinkStep == CheckPending \/ Visit \/ Activate \/ TaskFails
RowsStep == ScanWaiting \/ Requeue

\* A run of r that has become x, while the others went on.
Became(r, x) == /\ run' \in [Rows -> Run] /\ run'[r] = x
                /\ \A s \in Rows \ {r} : run'[s] = run[s]

-----------------------------------------------------------------------------
(* One step of one run. *)

\* A run that is given a value takes it, and only that run.
LEMMA RunTakes ==
  ASSUME Shape, NEW r \in Rows, NEW x \in Run, run' = [run EXCEPT ![r] = x]
  PROVE  Became(r, x)
BY DEF Shape, Became

\* What a run is when it goes somewhere, ends, looks up the user or holds a credential.
Going(r, pc) == [pc |-> pc, cred |-> run[r].cred, user |-> run[r].user, result |-> run[r].result]

LEMMA RunForms ==
  ASSUME Shape, NEW r \in Rows
  PROVE  /\ \A pc \in RunPc : Going(r, pc) \in Run
         /\ \A result \in Results : Ended(result) \in Run
         /\ \A pc \in RunPc, u \in Users : Reading(pc, u) \in Run
         /\ \A pc \in RunPc, c \in Credentials : Holding(pc, c) \in Run
<1>1. run[r] \in Run
  BY DEF Shape
<1>2. NoCredential \in Credentials /\ NewUser \in Users
  BY DEF NoCredential, Credentials, NewUser, Users
<1>3. "parked" \in Results /\ "save" \in RunPc /\ "idle" \in RunPc
  BY DEF Results, RowStates, RunPc
<1>4. \A pc \in RunPc : Going(r, pc) \in Run
  BY <1>1 DEF Going, Run
<1>5. \A result \in Results : Ended(result) \in Run
  BY <1>2, <1>3 DEF Ended, RunOf, Run
<1>6. \A pc \in RunPc, u \in Users : Reading(pc, u) \in Run
  BY <1>2, <1>3 DEF Reading, RunOf, Run
<1>7. \A pc \in RunPc, c \in Credentials : Holding(pc, c) \in Run
  BY <1>2, <1>3 DEF Holding, RunOf, Run
<1>8. QED
  BY <1>4, <1>5, <1>6, <1>7

\* Where a run goes, and how it ends.
LEMMA RunMoves ==
  ASSUME Shape, NEW r \in Rows
  PROVE  /\ \A pc \in RunPc : Goes(r, pc) => Became(r, Going(r, pc))
         /\ \A result \in Results : Ends(r, result) => Became(r, Ended(result))
         /\ Parks(r) => Became(r, Ended("parked"))
<1>1. ASSUME NEW pc \in RunPc, Goes(r, pc)
      PROVE  Became(r, Going(r, pc))
  <2>1. run[r] \in Run
    BY DEF Shape
  <2>2. [run[r] EXCEPT !.pc = pc] = Going(r, pc)
    BY <2>1 DEF Run, Going
  <2>3. run' = [run EXCEPT ![r] = Going(r, pc)]
    BY <1>1, <2>2 DEF Goes
  <2>4. Going(r, pc) \in Run
    BY RunForms
  <2>5. QED
    BY <2>3, <2>4 DEF Shape, Became
<1>2. ASSUME NEW result \in Results, Ends(r, result)
      PROVE  Became(r, Ended(result))
  <2>1. run' = [run EXCEPT ![r] = Ended(result)]
    BY <1>2 DEF Ends
  <2>2. Ended(result) \in Run
    BY RunForms
  <2>3. QED
    BY <2>1, <2>2 DEF Shape, Became
<1>3. "parked" \in Results
  BY DEF Results, RowStates
<1>4. QED
  BY <1>1, <1>2, <1>3 DEF Parks

\* What a run becomes in a step on a page: it is nowhere past an insert where it was not, and
\* its result is a submission only with the site's consent.
PageTarget(r, x) ==
    /\ x.pc \in PastInsert => run[r].pc \in PastInsert /\ x.cred = run[r].cred
    /\ x.result = "submitted" => run[r].result = "submitted" \/ r \in accepted

LEMMA PageRuns ==
  ASSUME Shape, NEW r \in Rows, PageStep(r)
  PROVE  \E x \in Run : Became(r, x) /\ PageTarget(r, x)
<1> USE DEF At
<1>1. \A pc \in RunPc : Going(r, pc) \in Run /\ (pc \notin PastInsert => PageTarget(r, Going(r, pc)))
  BY RunForms DEF Going, PageTarget
<1>2. \A result \in Results : /\ Ended(result) \in Run
                              /\ result # "submitted" => PageTarget(r, Ended(result))
  BY RunForms DEF Ended, RunOf, PageTarget, PastInsert
<1>3. {"parked", "awaiting_email_verification", "submitted"} \subseteq Results
  BY DEF Results, RowStates
<1>4. ASSUME Parks(r) PROVE \E x \in Run : Became(r, x) /\ PageTarget(r, x)
  BY <1>2, <1>3, <1>4, RunMoves
<1>5. ASSUME Ends(r, "awaiting_email_verification")
      PROVE  \E x \in Run : Became(r, x) /\ PageTarget(r, x)
  BY <1>2, <1>3, <1>5, RunMoves
<1>6. ASSUME NEW pc \in RunPc \ PastInsert, Goes(r, pc)
      PROVE  \E x \in Run : Became(r, x) /\ PageTarget(r, x)
  BY <1>1, <1>6, RunMoves
<1>7. {"form", "create", "login", "find", "insert", "confirm"} \subseteq RunPc \ PastInsert
  BY DEF RunPc, PastInsert
<1>8. CASE run_standard_flow(r)
  <2>1. Parks(r) \/ Goes(r, "form") \/ Goes(r, "create") \/ Goes(r, "login")
    BY <1>8 DEF run_standard_flow
  <2>2. QED
    BY <2>1, <1>4, <1>6, <1>7
<1>9. CASE perform_login(r) \/ submit(r) \/ AdapterError(r)
  <2>1. Parks(r) \/ Goes(r, "form") \/ Goes(r, "confirm")
    BY <1>9 DEF perform_login, submit, AdapterError
  <2>2. QED
    BY <2>1, <1>4, <1>6, <1>7
<1>10. CASE Find(r)
  <2>1. Ends(r, "awaiting_email_verification") \/ Goes(r, "insert")
    BY <1>10 DEF Find
  <2>2. QED
    BY <2>1, <1>5, <1>6, <1>7
<1>11. CASE Create(r)
  <2>1. CASE Parks(r)
    BY <2>1, <1>4
  <2>2. CASE run' = [run EXCEPT ![r] = Reading("alias", user)]
    <3>1. "alias" \in RunPc /\ user \in Users
      BY DEF RunPc, Shape
    <3>2. Reading("alias", user) \in Run /\ PageTarget(r, Reading("alias", user))
      BY <3>1, RunForms DEF Reading, RunOf, PageTarget, PastInsert
    <3>3. QED
      BY <2>2, <3>2, RunTakes
  <2>3. QED
    BY <1>11, <2>1, <2>2 DEF Create
<1>12. CASE ensure_alias(r)
  <2>1. CASE run[r].user.alias # 0
    BY <1>12, <2>1, <1>6, <1>7 DEF ensure_alias
  <2>2. CASE run[r].user.alias = 0
    <3> DEFINE given == [run[r].user EXCEPT !.alias = aliases + 1]
    <3>1. "find" \in RunPc /\ given \in Users
      BY DEF RunPc, Shape, Run, Users
    <3>2. run' = [run EXCEPT ![r] = Reading("find", given)]
      BY <1>12, <2>2 DEF ensure_alias
    <3> HIDE DEF given
    <3>3. Reading("find", given) \in Run /\ PageTarget(r, Reading("find", given))
      BY <3>1, RunForms DEF Reading, RunOf, PageTarget, PastInsert
    <3>4. QED
      BY <3>2, <3>3, RunTakes
  <2>3. QED
    BY <2>1, <2>2
<1>13. CASE Registered(r)
  <2>1. CASE Ends(r, "awaiting_email_verification")
    BY <2>1, <1>5
  <2>2. CASE Goes(r, "drop")
    <3>1. "drop" \in RunPc /\ run[r].pc \in PastInsert
      BY <1>13 DEF Registered, RunPc, PastInsert
    <3>2. Going(r, "drop") \in Run /\ PageTarget(r, Going(r, "drop"))
      BY <3>1, RunForms DEF Going, PageTarget
    <3>3. QED
      BY <2>2, <3>1, <3>2, RunMoves
  <2>3. QED
    BY <1>13, <2>1, <2>2 DEF Registered
<1>14. CASE confirm(r)
  <2>1. CASE Parks(r)
    BY <2>1, <1>4
  <2>2. CASE r \in accepted /\ Ends(r, "submitted")
    <3>1. Became(r, Ended("submitted")) /\ Ended("submitted") \in Run
      BY <2>2, <1>2, <1>3, RunMoves
    <3>2. PageTarget(r, Ended("submitted"))
      BY <2>2 DEF PageTarget, Ended, RunOf, PastInsert
    <3>3. QED
      BY <3>1, <3>2
  <2>3. QED
    BY <1>14, <2>1, <2>2 DEF confirm
<1>15. QED
  BY <1>8, <1>9, <1>10, <1>11, <1>12, <1>13, <1>14 DEF PageStep

\* What else the steps on a page change: the alias that is given, the rows accepted.
PageFrame ==
    /\ UNCHANGED <<row, credential, made, dropped, signups, accounts, mail, opened, task>>
    /\ accepted \subseteq accepted' /\ accepted' \subseteq Rows /\ events' \in 0..MaxEvents
    /\ user' \in Users /\ aliases' \in Nat /\ user'.alias \in 0..aliases'

LEMMA PageFrames ==
  ASSUME Shape, NEW r \in Rows, PageStep(r)
  PROVE  PageFrame
<1> USE AtsAssumption DEF PageFrame, site, stored, person, visits, Event
<1>1. CASE ensure_alias(r)
  <2>1. UNCHANGED <<row, credential, made, dropped, signups, accounts, mail, opened, task,
                    accepted, events>>
    BY <1>1 DEF ensure_alias
  <2>2. user' \in Users /\ aliases' \in Nat /\ user'.alias \in 0..aliases'
    <3>1. CASE run[r].user.alias = 0
      <4>1. run[r].user \in Users
        BY DEF Shape, Run
      <4>2. aliases' = aliases + 1 /\ user' = [run[r].user EXCEPT !.alias = aliases + 1]
        BY <1>1, <3>1 DEF ensure_alias
      <4>3. QED
        BY <4>1, <4>2 DEF Shape, Users
    <3>2. CASE run[r].user.alias # 0
      BY <1>1, <3>2 DEF ensure_alias, Shape, AtsTypeOK
    <3>3. QED
      BY <3>1, <3>2
  <2>3. QED
    BY <2>1, <2>2 DEF Shape, AtsTypeOK
<1>2. CASE PageStep(r) /\ ~ensure_alias(r)
  <2>1. UNCHANGED <<row, credential, made, dropped, signups, accounts, mail, opened, task,
                    user, aliases>>
    BY <1>2 DEF PageStep, run_standard_flow, perform_login, Create, Find, Registered, submit,
       confirm, AdapterError
  <2>2. accepted \subseteq accepted' /\ accepted' \subseteq Rows /\ events' \in 0..MaxEvents
    BY <1>2
       DEF PageStep, run_standard_flow, perform_login, Create, Find, Registered, submit, confirm,
           AdapterError, Shape, AtsTypeOK
  <2>3. QED
    BY <2>1, <2>2 DEF Shape, AtsTypeOK
<1>3. QED
  BY <1>1, <1>2

\* What the steps at the edge of a run change.
EdgeFrame ==
    /\ UNCHANGED <<credential, made, dropped, signups, accounts, accepted, mail, opened, task,
                   user, aliases>>
    /\ events' \in 0..MaxEvents
    /\ run' \in [Rows -> Run]
    /\ \A s \in Rows : \/ run'[s] = run[s]
                       \/ run'[s].pc \notin PastInsert /\ run'[s].result = "parked"
    /\ row' \in [Rows -> RowStates]
    /\ \A s \in Rows : row'[s] = "submitted" => row[s] = "submitted" \/ run[s].result = "submitted"

LEMMA EdgeFrames ==
  ASSUME Shape, NEW r \in Rows, EdgeStep(r)
  PROVE  EdgeFrame
<1> USE AtsAssumption DEF EdgeStep, site, stored, person, visits, Event
<1> DEFINE started == Holding("open", credential)
<1>1. /\ UNCHANGED <<credential, made, dropped, signups, accounts, accepted, mail, opened, task,
                     user, aliases>>
      /\ events' \in 0..MaxEvents
  BY DEF Start, SaveRow, WorkerLost, apply_now, Shape, AtsTypeOK
<1>2. /\ IdleRun \in Run /\ IdleRun.pc \notin PastInsert /\ IdleRun.result = "parked"
      /\ started \in Run /\ started.pc \notin PastInsert /\ started.result = "parked"
  <2>1. {"open", "idle"} \subseteq RunPc /\ {credential, NoCredential} \subseteq Credentials
    BY DEF RunPc, Shape, NoCredential, Credentials
  <2>2. started \in Run /\ IdleRun \in Run
    BY <2>1, RunForms DEF IdleRun
  <2>3. QED
    BY <2>2 DEF IdleRun, Holding, RunOf, PastInsert
<1>3. \/ run' = run \/ run' = [run EXCEPT ![r] = IdleRun] \/ run' = [run EXCEPT ![r] = started]
  BY DEF Start, SaveRow, WorkerLost, apply_now
<1>4. row' = row \/ row' = [row EXCEPT ![r] = run[r].result] \/ row' = [row EXCEPT ![r] = "queued"]
  BY DEF Start, SaveRow, WorkerLost, apply_now
<1> HIDE DEF started
<1>5. /\ run' \in [Rows -> Run]
      /\ \A s \in Rows : \/ run'[s] = run[s]
                         \/ run'[s].pc \notin PastInsert /\ run'[s].result = "parked"
  BY <1>2, <1>3 DEF Shape
<1>6. run[r].result \in RowStates /\ "queued" \in RowStates
  BY DEF Shape, Run, Results, RowStates
<1>7. /\ row' \in [Rows -> RowStates]
      /\ \A s \in Rows : row'[s] = "submitted" => row[s] = "submitted" \/ run[s].result = "submitted"
  BY <1>4, <1>6 DEF Shape
<1>8. QED
  BY <1>1, <1>5, <1>7 DEF EdgeFrame

\* The insert of a credential: refused, or made and held.
Inserted(r) ==
    \E c \in Credentials :
        /\ credential.id = 0 /\ c.id = made + 1 /\ c.status = "pending_verification"
        /\ made' = made + 1 /\ credential' = c /\ UNCHANGED dropped
        /\ Became(r, Holding("signup", c))
Refused(r) == UNCHANGED <<made, credential, dropped>> /\ Became(r, Ended("parked"))

LEMMA Inserts ==
  ASSUME Shape, NEW r \in Rows, Insert(r)
  PROVE  /\ Inserted(r) \/ Refused(r)
         /\ UNCHANGED <<row, user, aliases, signups, accounts, accepted, mail, opened, task, events>>
<1> DEFINE new == [id |-> made + 1, status |-> "pending_verification", alias |-> run[r].user.alias]
<1>1. UNCHANGED <<row, user, aliases, signups, accounts, accepted, mail, opened, task, events>>
  BY DEF Insert, site, person, visits
<1>2. CASE credential.id # 0
  <2>1. Parks(r) /\ UNCHANGED <<made, credential, dropped>>
    BY <1>2 DEF Insert, stored
  <2>2. QED
    BY <1>1, <2>1, RunMoves DEF Refused
<1>3. CASE credential.id = 0
  <2>1. /\ made' = made + 1 /\ credential' = new /\ UNCHANGED dropped
        /\ run' = [run EXCEPT ![r] = Holding("signup", new)]
    BY <1>3 DEF Insert
  <2>2. run[r].user.alias \in Nat /\ made \in Nat
    BY DEF Shape, Run, Users
  <2>3. new \in Credentials /\ new.id = made + 1 /\ new.status = "pending_verification"
    BY <2>2 DEF Credentials
  <2>4. "signup" \in RunPc
    BY DEF RunPc
  <2> HIDE DEF new
  <2>5. Became(r, Holding("signup", new))
    BY <2>1, <2>3, <2>4, RunForms, RunTakes
  <2>6. QED
    BY <1>1, <1>3, <2>1, <2>3, <2>5 DEF Inserted
<1>4. QED
  BY <1>2, <1>3

\* The sign-up: at most the credential of the run is signed up, with at most one account.
SignsUp(r) ==
    /\ UNCHANGED <<row, user, aliases, credential, made, dropped, accepted, opened, task, events>>
    /\ \E pc \in {"drop", "signed_up"} : Became(r, Going(r, pc))
    /\ signups' = signups \/ signups' = signups \cup {run[r].cred.id}
    /\ \/ UNCHANGED <<accounts, mail>>
       \/ \E a \in Accounts :
             /\ accounts' = accounts \cup {a} /\ mail' = mail \cup {a.alias}
             /\ a.cred = run[r].cred.id /\ a.cred \in signups'

LEMMA SignUps ==
  ASSUME Shape, NEW r \in Rows, perform_registration(r)
  PROVE  SignsUp(r) /\ run[r].pc \in PastInsert
<1> USE DEF At, site, person, stored, visits
<1> DEFINE c == run[r].cred
           a == [alias |-> c.alias, cred |-> c.id, verified |-> FALSE]
<1>1. /\ UNCHANGED <<row, user, aliases, credential, made, dropped, accepted, opened, task, events>>
      /\ run[r].pc \in PastInsert
  BY DEF perform_registration, PastInsert
<1>2. "drop" \in RunPc /\ "signed_up" \in RunPc
  BY DEF RunPc
<1>3. a \in Accounts /\ a.cred = c.id /\ a.alias = c.alias
  <2>1. run[r] \in Run
    BY DEF Shape
  <2>2. c.alias \in Nat /\ c.id \in Nat
    BY <2>1 DEF Run, Credentials
  <2>3. QED
    BY <2>2 DEF Accounts
<1>4. CASE Goes(r, "drop") /\ UNCHANGED <<signups, accounts, accepted, mail>>
  <2>1. Became(r, Going(r, "drop"))
    BY <1>2, <1>4, RunMoves
  <2>2. QED
    BY <1>1, <1>4, <2>1 DEF SignsUp
<1>5. CASE /\ Goes(r, "signed_up") /\ signups' = signups \cup {c.id}
           /\ \/ UNCHANGED <<accounts, mail>>
              \/ accounts' = accounts \cup {a} /\ mail' = mail \cup {c.alias}
  <2>1. Became(r, Going(r, "signed_up"))
    BY <1>2, <1>5, RunMoves
  <2> HIDE DEF a
  <2>2. QED
    BY <1>1, <1>3, <1>5, <2>1 DEF SignsUp
<1>6. QED
  BY <1>4, <1>5 DEF perform_registration

\* A deletion, by a run that failed to sign up or by the user.
Deletes ==
    /\ UNCHANGED <<row, user, aliases, made, signups, accounts, accepted, mail, opened, task>>
    /\ events' \in 0..MaxEvents
    /\ \E c \in 1..made : Deleted(c)
    /\ \/ UNCHANGED run
       \/ \E r \in Rows : Became(r, Ended("parked"))

LEMMA Deletions ==
  ASSUME Shape, HeldCredentials, delete_credential \/ \E r \in Rows : DropCredential(r)
  PROVE  Deletes
<1> USE AtsAssumption DEF site, person, visits, Event
<1>1. CASE delete_credential
  <2>1. credential.id \in 1..made
    BY <1>1 DEF delete_credential, Shape, AtsTypeOK
  <2>2. Deleted(credential.id) /\ events' \in 0..MaxEvents
    BY <1>1 DEF delete_credential, Shape, AtsTypeOK
  <2>3. UNCHANGED <<row, user, aliases, made, signups, accounts, accepted, mail, opened, task, run>>
    BY <1>1 DEF delete_credential, Deleted
  <2>4. QED
    BY <2>1, <2>2, <2>3 DEF Deletes
<1>2. ASSUME NEW r \in Rows, DropCredential(r) PROVE Deletes
  <2>1. run[r].cred.id \in 1..made
    BY <1>2 DEF DropCredential, At, HeldCredentials, PastInsert
  <2>2. Deleted(run[r].cred.id) /\ Became(r, Ended("parked"))
    BY <1>2, RunMoves DEF DropCredential
  <2>3. UNCHANGED <<row, user, aliases, made, signups, accounts, accepted, mail, opened, task>>
    BY <1>2 DEF DropCredential, Deleted
  <2>4. events' \in 0..MaxEvents
    BY <1>2 DEF DropCredential, Shape, AtsTypeOK
  <2>5. QED
    BY <2>1, <2>2, <2>3, <2>4 DEF Deletes
<1>3. QED
  BY <1>1, <1>2

-----------------------------------------------------------------------------
(* One step of the task. *)

\* What the task becomes in a step, and what it does to credential and accounts.
LinkFrame ==
    /\ UNCHANGED <<row, run, user, aliases, made, signups, dropped, accepted>>
    /\ events' \in 0..MaxEvents /\ mail' \subseteq mail
    /\ task' \in Tasks
    /\ \/ task' = IdleTask
       \/ task'.cred = task.cred /\ task.pc # "idle"
       \/ task'.pc = "check" /\ task'.cred = credential.id /\ credential.id # 0
    /\ task'.pc \in PastVisit => task'.cred \in opened'
    /\ opened' = opened \/ (task.pc # "idle" /\ opened' = opened \cup {task.cred})
    /\ \/ UNCHANGED credential
       \/ /\ credential' \in Credentials /\ credential'.status = "active"
          /\ credential'.id = task.cred /\ task.pc \in PastVisit
          /\ credential.id \in {0, task.cred}
    /\ accounts' = accounts \/ accounts' = {Confirmed(a) : a \in accounts}

LEMMA LinkFrames ==
  ASSUME Shape, HeldCredentials, LinkStep \/ \E a \in mail : ingest(a)
  PROVE  LinkFrame
<1> USE AtsAssumption DEF site, person, stored, visits, Event, TaskAt
<1>0. /\ IdleTask \in Tasks /\ IdleTask.pc = "idle"
      /\ task \in Tasks /\ credential \in Credentials /\ events \in 0..MaxEvents
      /\ task.cred \in Nat
      /\ credential.status = "none" <=> credential.id = 0
  BY DEF IdleTask, Tasks, TaskPc, Shape, AtsTypeOK
<1>1. CASE TaskFails
  <2>1. /\ UNCHANGED <<row, run, user, aliases, made, signups, dropped, accepted, mail, opened,
                       credential, accounts>>
        /\ task' = IdleTask /\ events' \in 0..MaxEvents
    BY <1>1, <1>0 DEF TaskFails
  <2>2. QED
    BY <2>1, <1>0 DEF LinkFrame, PastVisit
<1>2. CASE CheckPending
  <2>1. /\ UNCHANGED <<row, run, user, aliases, made, signups, dropped, accepted, mail, opened,
                       credential, accounts, events>>
        /\ task.pc = "check"
        /\ task' = IdleTask \/ task' = [task EXCEPT !.pc = "visit"]
    BY <1>2 DEF CheckPending
  <2>2. /\ [task EXCEPT !.pc = "visit"] \in Tasks
        /\ [task EXCEPT !.pc = "visit"].cred = task.cred
        /\ [task EXCEPT !.pc = "visit"].pc = "visit"
    BY <1>0 DEF Tasks, TaskPc
  <2>3. QED
    BY <2>1, <2>2, <1>0 DEF LinkFrame, PastVisit
<1>3. CASE Visit
  <2>1. /\ UNCHANGED <<row, run, user, aliases, made, signups, dropped, accepted, mail,
                       credential, events>>
        /\ task.pc = "visit"
        /\ \/ task' = IdleTask /\ UNCHANGED <<opened, accounts>>
           \/ /\ task' = [task EXCEPT !.pc = "activate"] /\ opened' = opened \cup {task.cred}
              /\ accounts' = accounts \/ accounts' = {Confirmed(a) : a \in accounts}
    BY <1>3 DEF Visit
  <2>2. /\ [task EXCEPT !.pc = "activate"] \in Tasks
        /\ [task EXCEPT !.pc = "activate"].cred = task.cred
        /\ [task EXCEPT !.pc = "activate"].pc = "activate"
    BY <1>0 DEF Tasks, TaskPc
  <2>3. QED
    BY <2>1, <2>2, <1>0 DEF LinkFrame, PastVisit
<1>4. CASE Activate
  <2> DEFINE c == [id |-> task.cred, status |-> "active", alias |-> task.alias]
  <2>1. /\ UNCHANGED <<row, run, user, aliases, made, signups, dropped, accepted, mail, opened,
                       accounts, events>>
        /\ task.pc = "activate"
        /\ \/ task' = IdleTask /\ UNCHANGED credential
           \/ /\ credential.id \in {0, task.cred}
              /\ credential' = c /\ task' = [task EXCEPT !.pc = "scan"]
    BY <1>4 DEF Activate
  <2>2. /\ [task EXCEPT !.pc = "scan"] \in Tasks
        /\ [task EXCEPT !.pc = "scan"].cred = task.cred
        /\ [task EXCEPT !.pc = "scan"].pc = "scan"
        /\ c \in Credentials /\ c.id = task.cred /\ c.status = "active"
    BY <1>0 DEF Tasks, TaskPc, Credentials
  <2>3. task.cred \in opened
    BY <2>1 DEF HeldCredentials, PastVisit
  <2> HIDE DEF c
  <2>4. QED
    BY <2>1, <2>2, <2>3, <1>0 DEF LinkFrame, PastVisit
<1>5. ASSUME NEW a \in mail, ingest(a) PROVE LinkFrame
  <2> DEFINE t == [IdleTask EXCEPT !.pc = "check", !.cred = credential.id, !.alias = a]
  <2>1. /\ UNCHANGED <<row, run, user, aliases, made, signups, dropped, accepted, opened,
                       credential, accounts, events>>
        /\ mail' \subseteq mail /\ task.pc = "idle"
        /\ task' = IdleTask \/ (credential.status = "pending_verification" /\ task' = t)
    BY <1>5 DEF ingest
  <2>2. a \in Nat
    BY DEF Shape, AtsTypeOK, Accounts
  <2>3. t \in Tasks /\ t.pc = "check" /\ t.cred = credential.id
    BY <1>0, <2>2 DEF IdleTask, Tasks, TaskPc, Credentials
  <2> HIDE DEF t
  <2>4. CASE task' = t /\ credential.status = "pending_verification"
    BY <2>1, <2>3, <2>4, <1>0 DEF LinkFrame, PastVisit
  <2>5. CASE task' = IdleTask
    BY <2>1, <2>5, <1>0 DEF LinkFrame, PastVisit
  <2>6. QED
    BY <2>1, <2>4, <2>5
<1>6. QED
  BY <1>1, <1>2, <1>3, <1>4, <1>5 DEF LinkStep

\* Looking for rows and bringing them back.
RowsFrame ==
    /\ UNCHANGED <<run, user, aliases, made, signups, dropped, accepted, credential, accounts, mail,
                   opened, events>>
    /\ task' \in Tasks
    /\ task' = IdleTask \/ (task.pc \in PastVisit /\ task'.cred = task.cred)
    /\ row' \in [Rows -> RowStates]
    /\ \A s \in Rows : row'[s] = "submitted" => row[s] = "submitted"

LEMMA RowsFrames ==
  ASSUME Shape, RowsStep
  PROVE  RowsFrame
<1> USE DEF site, person, stored, visits, TaskAt
<1>0. IdleTask \in Tasks /\ task \in Tasks /\ row \in [Rows -> RowStates] /\ "queued" \in RowStates
  BY DEF IdleTask, Tasks, TaskPc, Shape, RowStates
<1>1. CASE ScanWaiting
  <2>1. /\ UNCHANGED <<row, run, user, aliases, made, signups, dropped, accepted, credential,
                       accounts, mail, opened, events>>
        /\ task.pc = "scan"
        /\ task' = IdleTask \/ \E rs \in SUBSET Rows : task' = [task EXCEPT !.pc = "requeue", !.rows = rs]
    BY <1>1 DEF ScanWaiting
  <2>2. \A rs \in SUBSET Rows : /\ [task EXCEPT !.pc = "requeue", !.rows = rs] \in Tasks
                                /\ [task EXCEPT !.pc = "requeue", !.rows = rs].cred = task.cred
    BY <1>0 DEF Tasks, TaskPc
  <2>3. QED
    BY <1>0, <2>1, <2>2 DEF RowsFrame, PastVisit
<1>2. CASE Requeue
  <2>1. /\ UNCHANGED <<run, user, aliases, made, signups, dropped, accepted, credential, accounts,
                       mail, opened, events>>
        /\ task.pc = "requeue"
    BY <1>2 DEF Requeue
  <2>2. CASE task' = IdleTask /\ UNCHANGED row
    BY <1>0, <2>1, <2>2 DEF RowsFrame, PastVisit
  <2>3. ASSUME NEW r \in task.rows, row' = [row EXCEPT ![r] = "queued"],
               task' = [task EXCEPT !.rows = @ \ {r}]
        PROVE  RowsFrame
    <3>1. task' \in Tasks /\ task'.cred = task.cred
      BY <1>0, <2>3 DEF Tasks
    <3>2. row' \in [Rows -> RowStates] /\ \A s \in Rows : row'[s] = "submitted" => row[s] = "submitted"
      BY <1>0, <2>3
    <3>3. QED
      BY <2>1, <3>1, <3>2 DEF RowsFrame, PastVisit
  <2>4. QED
    BY <1>2, <2>2, <2>3 DEF Requeue
<1>3. QED
  BY <1>1, <1>2 DEF RowsStep

\* The user switches automation on or off.
LEMMA Switches ==
  ASSUME Shape, set_automation
  PROVE  /\ UNCHANGED <<row, run, aliases, credential, made, dropped, signups, accounts, accepted,
                        mail, opened, task>>
         /\ user' \in Users /\ user'.alias = user.alias /\ events' \in 0..MaxEvents
<1>1. UNCHANGED <<row, run, aliases, credential, made, dropped, signups, accounts, accepted, mail,
                  opened, task>>
  BY DEF set_automation, stored, site, visits
<1>2. user' = [user EXCEPT !.on = ~@] /\ user \in Users
  BY DEF set_automation, Shape
<1>3. user' \in Users /\ user'.alias = user.alias
  BY <1>2 DEF Users
<1>4. events' \in 0..MaxEvents
  BY AtsAssumption DEF set_automation, Event, Shape, AtsTypeOK
<1>5. QED
  BY <1>1, <1>3, <1>4

\* Every step is one of these.
LEMMA StepKinds ==
  ASSUME [Next]_vars
  PROVE  \/ \E r \in Rows : PageStep(r) \/ EdgeStep(r) \/ Insert(r) \/ perform_registration(r)
         \/ delete_credential \/ \E r \in Rows : DropCredential(r)
         \/ LinkStep \/ \E a \in mail : ingest(a)
         \/ RowsStep \/ set_automation \/ UNCHANGED vars
BY DEF Next, RunStep, TaskStep, PageStep, EdgeStep, LinkStep, RowsStep

-----------------------------------------------------------------------------
(* Every step keeps the invariant, one part at a time. *)

LEMMA NextShape == ASSUME Shape, HeldCredentials, [Next]_vars PROVE Shape'
<1> USE AtsAssumption DEF Shape, AtsTypeOK
<1>0. \A x \in Run : x.pc \in RunPc /\ x.result \in RowStates \ {"queued"}
  BY DEF Run, Results
<1>1. ASSUME NEW r \in Rows, PageStep(r) PROVE Shape'
  <2>1. PageFrame /\ run' \in [Rows -> Run]
    BY <1>1, PageFrames, PageRuns DEF Became
  <2>2. /\ UNCHANGED <<row, credential, made, dropped, signups, accounts, mail, opened, task>>
        /\ accepted' \subseteq Rows /\ events' \in 0..MaxEvents
        /\ user' \in Users /\ aliases' \in Nat /\ user'.alias \in 0..aliases'
    BY <2>1 DEF PageFrame
  <2>3. user'.on \in BOOLEAN
    BY <2>2 DEF Users
  <2>4. QED
    BY <2>1, <2>2, <2>3, <1>0
<1>2. ASSUME NEW r \in Rows, EdgeStep(r) PROVE Shape'
  <2>1. EdgeFrame
    BY <1>2, EdgeFrames
  <2>2. QED
    BY <2>1, <1>0 DEF EdgeFrame
<1>3. ASSUME NEW r \in Rows, Insert(r) PROVE Shape'
  <2>1. /\ UNCHANGED <<row, user, aliases, signups, accounts, accepted, mail, opened, task, events>>
        /\ Inserted(r) \/ Refused(r)
    BY <1>3, Inserts
  <2>2. run' \in [Rows -> Run]
    BY <2>1 DEF Inserted, Refused, Became
  <2>3. /\ made' \in Nat /\ made <= made' /\ dropped' = dropped
        /\ credential' \in Credentials /\ credential'.id \in 0..made'
        /\ credential'.status = "none" <=> credential'.id = 0
    BY <2>1 DEF Inserted, Refused
  <2>4. QED
    BY <2>1, <2>2, <2>3, <1>0
<1>4. ASSUME NEW r \in Rows, perform_registration(r) PROVE Shape'
  <2>1. SignsUp(r) /\ run[r].cred.id \in 1..made
    BY <1>4, SignUps DEF HeldCredentials
  <2>2. run' \in [Rows -> Run]
    BY <2>1 DEF SignsUp, Became
  <2>3. signups' \subseteq 1..made
    BY <2>1 DEF SignsUp
  <2>4. accounts' \subseteq Accounts /\ mail' \subseteq {a.alias : a \in accounts'}
    BY <2>1 DEF SignsUp
  <2>5. QED
    BY <2>1, <2>2, <2>3, <2>4, <1>0 DEF SignsUp
<1>5. ASSUME delete_credential \/ \E r \in Rows : DropCredential(r) PROVE Shape'
  <2>1. Deletes
    BY <1>5, Deletions
  <2>2. run' \in [Rows -> Run]
    BY <2>1 DEF Deletes, Became
  <2>3. /\ credential' \in Credentials /\ credential'.id \in 0..made'
        /\ credential'.status = "none" <=> credential'.id = 0
        /\ dropped' \subseteq 1..made'
    BY <2>1 DEF Deletes, Deleted, NoCredential, Credentials
  <2>4. QED
    BY <2>1, <2>2, <2>3, <1>0 DEF Deletes
<1>6. ASSUME LinkStep \/ \E a \in mail : ingest(a) PROVE Shape'
  <2>1. LinkFrame
    BY <1>6, LinkFrames
  <2>2. task.pc # "idle" => task.cred \in 1..made
    BY DEF HeldCredentials
  <2>3. /\ credential' \in Credentials /\ credential'.id \in 0..made'
        /\ credential'.status = "none" <=> credential'.id = 0
    BY <2>1, <2>2 DEF LinkFrame, PastVisit
  <2>4. opened' \subseteq 1..made'
    BY <2>1, <2>2 DEF LinkFrame
  <2>5. accounts' \subseteq Accounts /\ {a.alias : a \in accounts'} = {a.alias : a \in accounts}
    <3>1. CASE accounts' = accounts
      BY <3>1
    <3>2. CASE accounts' = {Confirmed(a) : a \in accounts}
      <4>1. \A a \in accounts : Confirmed(a) \in Accounts /\ Confirmed(a).alias = a.alias
        BY DEF Confirmed, Accounts
      <4> HIDE DEF Shape, AtsTypeOK
      <4>2. QED
        BY <3>2, <4>1
    <3>3. QED
      BY <2>1, <3>1, <3>2 DEF LinkFrame
  <2>6. task' \in Tasks /\ task'.rows \subseteq Rows
    BY <2>1 DEF LinkFrame, Tasks
  <2>7. QED
    BY <2>1, <2>3, <2>4, <2>5, <2>6 DEF LinkFrame
<1>7. ASSUME RowsStep PROVE Shape'
  <2>1. RowsFrame
    BY <1>7, RowsFrames
  <2>2. task'.rows \subseteq Rows
    BY <2>1 DEF RowsFrame, Tasks
  <2>3. QED
    BY <2>1, <2>2 DEF RowsFrame
<1>8. ASSUME set_automation PROVE Shape'
  <2>1. /\ UNCHANGED <<row, run, aliases, credential, made, dropped, signups, accounts, accepted,
                       mail, opened, task>>
        /\ user' \in Users /\ user'.alias = user.alias /\ events' \in 0..MaxEvents
    BY <1>8, Switches
  <2>2. user'.on \in BOOLEAN
    BY <2>1 DEF Users
  <2>3. QED
    BY <2>1, <2>2
<1>9. CASE UNCHANGED vars
  BY <1>9 DEF vars
<1>10. QED
  BY <1>1, <1>2, <1>3, <1>4, <1>5, <1>6, <1>7, <1>8, <1>9, StepKinds

\* Only a confirmation that was read becomes a result, and only a result a submitted row.
LEMMA NextResults ==
  ASSUME Shape, HeldCredentials, SubmittedMeansSent, ResultsTrue, [Next]_vars
  PROVE  SubmittedMeansSent' /\ ResultsTrue'
<1> USE DEF SubmittedMeansSent, ResultsTrue
<1>1. ASSUME NEW r \in Rows, PageStep(r) PROVE SubmittedMeansSent' /\ ResultsTrue'
  <2>1. PageFrame
    BY <1>1, PageFrames
  <2>2. PICK x \in Run : Became(r, x) /\ PageTarget(r, x)
    BY <1>1, PageRuns
  <2>3. QED
    BY <2>1, <2>2 DEF PageFrame, Became, PageTarget
<1>2. ASSUME NEW r \in Rows, EdgeStep(r) PROVE SubmittedMeansSent' /\ ResultsTrue'
  <2>1. EdgeFrame
    BY <1>2, EdgeFrames
  <2>2. QED
    BY <2>1 DEF EdgeFrame
<1>3. ASSUME NEW r \in Rows, Insert(r) PROVE SubmittedMeansSent' /\ ResultsTrue'
  <2>1. UNCHANGED <<row, accepted>> /\ (Inserted(r) \/ Refused(r))
    BY <1>3, Inserts
  <2>2. /\ \A s \in Rows \ {r} : run'[s] = run[s]
        /\ run'[r].result = "parked"
    <3>1. \A c \in Credentials : Holding("signup", c).result = "parked"
      BY DEF Holding, RunOf
    <3>2. Ended("parked").result = "parked"
      BY DEF Ended, RunOf
    <3>3. \E x : Became(r, x) /\ x.result = "parked"
      BY <2>1, <3>1, <3>2 DEF Inserted, Refused
    <3>4. QED
      BY <3>3 DEF Became
  <2>3. QED
    BY <2>1, <2>2
<1>4. ASSUME NEW r \in Rows, perform_registration(r) PROVE SubmittedMeansSent' /\ ResultsTrue'
  <2>1. SignsUp(r)
    BY <1>4, SignUps
  <2>2. /\ \A s \in Rows \ {r} : run'[s] = run[s]
        /\ run'[r].result = run[r].result
    BY <2>1 DEF SignsUp, Became, Going
  <2>3. QED
    BY <2>1, <2>2 DEF SignsUp
<1>5. ASSUME delete_credential \/ \E r \in Rows : DropCredential(r)
      PROVE  SubmittedMeansSent' /\ ResultsTrue'
  <2>1. Deletes
    BY <1>5, Deletions
  <2>2. \A s \in Rows : run'[s] = run[s] \/ run'[s].result = "parked"
    BY <2>1 DEF Deletes, Became, Ended, RunOf
  <2>3. QED
    BY <2>1, <2>2 DEF Deletes
<1>6. ASSUME LinkStep \/ \E a \in mail : ingest(a) PROVE SubmittedMeansSent' /\ ResultsTrue'
  BY <1>6, LinkFrames DEF LinkFrame
<1>7. ASSUME RowsStep PROVE SubmittedMeansSent' /\ ResultsTrue'
  BY <1>7, RowsFrames DEF RowsFrame
<1>8. ASSUME set_automation PROVE SubmittedMeansSent' /\ ResultsTrue'
  BY <1>8, Switches
<1>9. CASE UNCHANGED vars
  BY <1>9 DEF vars
<1>10. QED
  BY <1>1, <1>2, <1>3, <1>4, <1>5, <1>6, <1>7, <1>8, <1>9, StepKinds

\* Insert finds nothing stored, so whatever other runs hold was deleted; a saved activation
\* stores what is held again.
LEMMA NextHeld == ASSUME Shape, HeldCredentials, [Next]_vars PROVE HeldCredentials'
<1> USE DEF HeldCredentials
<1>0. made \in Nat /\ credential.id \in 0..made /\ dropped \subseteq 1..made
  BY DEF Shape, AtsTypeOK
<1>1. ASSUME NEW r \in Rows, PageStep(r) PROVE HeldCredentials'
  <2>1. PageFrame
    BY <1>1, PageFrames
  <2>2. PICK x \in Run : Became(r, x) /\ PageTarget(r, x)
    BY <1>1, PageRuns
  <2>3. QED
    BY <2>1, <2>2 DEF PageFrame, Became, PageTarget
<1>2. ASSUME NEW r \in Rows, EdgeStep(r) PROVE HeldCredentials'
  <2>1. EdgeFrame
    BY <1>2, EdgeFrames
  <2>2. QED
    BY <2>1 DEF EdgeFrame
<1>3. ASSUME NEW r \in Rows, Insert(r) PROVE HeldCredentials'
  <2>1. UNCHANGED <<opened, task>> /\ (Inserted(r) \/ Refused(r))
    BY <1>3, Inserts
  <2>2. CASE Refused(r)
    <3>1. run'[r].pc = "save"
      BY <2>2 DEF Refused, Became, Ended, RunOf
    <3>2. QED
      BY <2>1, <2>2, <3>1 DEF Refused, Became, PastInsert
  <2>3. CASE Inserted(r)
    <3>1. PICK c \in Credentials :
             /\ credential.id = 0 /\ c.id = made + 1
             /\ made' = made + 1 /\ credential' = c /\ dropped' = dropped
             /\ Became(r, Holding("signup", c))
      BY <2>3 DEF Inserted
    <3>2. run'[r].cred = c /\ \A s \in Rows \ {r} : run'[s] = run[s]
      BY <3>1 DEF Became, Holding, RunOf
    <3>3. \A s \in Rows \ {r} : run[s].pc \in PastInsert => run[s].cred.id \in dropped
      BY <3>1
    <3>4. QED
      BY <1>0, <2>1, <3>1, <3>2, <3>3
  <2>4. QED
    BY <2>1, <2>2, <2>3
<1>4. ASSUME NEW r \in Rows, perform_registration(r) PROVE HeldCredentials'
  <2>1. SignsUp(r) /\ run[r].pc \in PastInsert
    BY <1>4, SignUps
  <2>2. /\ \A s \in Rows \ {r} : run'[s] = run[s]
        /\ run'[r].cred = run[r].cred
    BY <2>1 DEF SignsUp, Became, Going
  <2>3. QED
    BY <2>1, <2>2 DEF SignsUp
<1>5. ASSUME delete_credential \/ \E r \in Rows : DropCredential(r) PROVE HeldCredentials'
  <2>1. Deletes
    BY <1>5, Deletions
  <2>2. \A s \in Rows : run'[s] = run[s] \/ run'[s].pc = "save"
    BY <2>1 DEF Deletes, Became, Ended, RunOf
  <2>3. dropped \cup {credential.id} \subseteq dropped' \cup {credential'.id} \cup {0}
    BY <2>1 DEF Deletes, Deleted
  <2>4. \A s \in Rows : run'[s].pc \in PastInsert =>
           run'[s].cred.id \in 1..made /\ run'[s].cred.id \in dropped' \cup {credential'.id}
    <3> SUFFICES ASSUME NEW s \in Rows, run'[s].pc \in PastInsert
                 PROVE  run'[s].cred.id \in 1..made /\ run'[s].cred.id \in dropped' \cup {credential'.id}
      OBVIOUS
    <3>1. run'[s] = run[s]
      BY <2>2 DEF PastInsert
    <3>2. run[s].cred.id \in 1..made /\ run[s].cred.id \in dropped \cup {credential.id}
      BY <3>1
    <3>3. run[s].cred.id # 0
      BY <1>0, <3>2
    <3>4. QED
      BY <2>3, <3>1, <3>2, <3>3
  <2>5. QED
    BY <2>1, <2>4 DEF Deletes
<1>6. ASSUME LinkStep \/ \E a \in mail : ingest(a) PROVE HeldCredentials'
  <2>1. LinkFrame
    BY <1>6, LinkFrames
  <2>2. /\ \A r \in Rows : run'[r] = run[r]
        /\ made' = made /\ dropped' = dropped
    BY <2>1 DEF LinkFrame
  <2>3. credential'.id = credential.id \/ credential.id = 0
    BY <2>1 DEF LinkFrame
  <2>4. \A s \in Rows : run'[s].pc \in PastInsert =>
           run'[s].cred.id \in 1..made /\ run'[s].cred.id \in dropped' \cup {credential'.id}
    BY <1>0, <2>2, <2>3
  <2>5. /\ IdleTask.pc = "idle"
        /\ task'.pc # "idle" => task'.cred \in 1..made
    <3>1. IdleTask.pc = "idle"
      BY DEF IdleTask
    <3>2. CASE task' = IdleTask
      BY <3>1, <3>2
    <3>3. CASE task'.cred = task.cred /\ task.pc # "idle"
      BY <3>1, <3>3
    <3>4. CASE task'.pc = "check" /\ task'.cred = credential.id /\ credential.id # 0
      BY <1>0, <3>1, <3>4
    <3>5. QED
      BY <2>1, <3>2, <3>3, <3>4 DEF LinkFrame
  <2>6. task'.pc \in PastVisit => task'.cred \in opened'
    BY <2>1 DEF LinkFrame
  <2>7. QED
    BY <2>2, <2>4, <2>5, <2>6
<1>7. ASSUME RowsStep PROVE HeldCredentials'
  <2>1. RowsFrame
    BY <1>7, RowsFrames
  <2>2. IdleTask.pc = "idle"
    BY DEF IdleTask
  <2>3. QED
    BY <2>1, <2>2 DEF RowsFrame, PastVisit
<1>8. ASSUME set_automation PROVE HeldCredentials'
  BY <1>8, Switches
<1>9. CASE UNCHANGED vars
  BY <1>9 DEF vars
<1>10. QED
  BY <1>1, <1>2, <1>3, <1>4, <1>5, <1>6, <1>7, <1>8, <1>9, StepKinds

\* A sign-up goes out with the credential its run holds, and what is stored changes only by a
\* deletion or where nothing is stored.
LEMMA NextKept ==
  ASSUME Shape, HeldCredentials, PasswordsKept, ActiveIsOpened, [Next]_vars
  PROVE  PasswordsKept' /\ ActiveIsOpened'
<1> USE DEF PasswordsKept, ActiveIsOpened
<1>0. signups \subseteq 1..made
  BY DEF Shape, AtsTypeOK
<1>1. ASSUME NEW r \in Rows, PageStep(r) \/ EdgeStep(r) PROVE PasswordsKept' /\ ActiveIsOpened'
  <2>1. UNCHANGED <<credential, dropped, signups, accounts, opened>>
    BY <1>1, PageFrames, EdgeFrames DEF PageFrame, EdgeFrame
  <2>2. QED
    BY <2>1
<1>2. ASSUME NEW r \in Rows, Insert(r) PROVE PasswordsKept' /\ ActiveIsOpened'
  <2>1. UNCHANGED <<signups, accounts, opened>> /\ (Inserted(r) \/ Refused(r))
    BY <1>2, Inserts
  <2>2. CASE Refused(r)
    BY <2>1, <2>2 DEF Refused
  <2>3. CASE Inserted(r)
    <3>1. credential.id = 0 /\ dropped' = dropped /\ credential'.status # "active"
      BY <2>3 DEF Inserted
    <3>2. QED
      BY <1>0, <2>1, <3>1
  <2>4. QED
    BY <2>1, <2>2, <2>3
<1>3. ASSUME NEW r \in Rows, perform_registration(r) PROVE PasswordsKept' /\ ActiveIsOpened'
  <2>1. SignsUp(r) /\ run[r].cred.id \in dropped \cup {credential.id}
    BY <1>3, SignUps DEF HeldCredentials
  <2>2. UNCHANGED <<credential, dropped, opened>> /\ signups \subseteq signups'
    BY <2>1 DEF SignsUp
  <2>3. signups' \subseteq dropped \cup {credential.id}
    BY <2>1 DEF SignsUp
  <2>4. \A a \in accounts' : a.cred \in signups'
    BY <2>1, <2>2 DEF SignsUp
  <2>5. QED
    BY <2>2, <2>3, <2>4
<1>4. ASSUME delete_credential \/ \E r \in Rows : DropCredential(r)
      PROVE  PasswordsKept' /\ ActiveIsOpened'
  <2>1. Deletes
    BY <1>4, Deletions
  <2>2. UNCHANGED <<signups, accounts, opened>>
    BY <2>1 DEF Deletes
  <2>3. /\ dropped \cup {credential.id} \subseteq dropped' \cup {credential'.id}
        /\ credential' = credential \/ credential'.status # "active"
    BY <2>1 DEF Deletes, Deleted, NoCredential
  <2>4. QED
    BY <2>2, <2>3
<1>5. ASSUME LinkStep \/ \E a \in mail : ingest(a) PROVE PasswordsKept' /\ ActiveIsOpened'
  <2>1. LinkFrame
    BY <1>5, LinkFrames
  <2>2. signups' = signups /\ dropped' = dropped /\ opened \subseteq opened'
    BY <2>1 DEF LinkFrame
  <2>3. /\ credential'.id = credential.id \/ credential.id = 0
        /\ credential'.status = "active" => credential'.id \in opened'
    <3>1. task.pc \in PastVisit => task.cred \in opened
      BY DEF HeldCredentials
    <3>2. QED
      BY <2>1, <2>2, <3>1 DEF LinkFrame
  <2>4. \A a \in accounts' : a.cred \in signups
    <3>1. CASE accounts' = accounts
      BY <3>1
    <3>2. CASE accounts' = {Confirmed(a) : a \in accounts}
      <4>1. \A a \in accounts : Confirmed(a).cred = a.cred
        BY DEF Confirmed, Shape, Accounts
      <4>2. QED
        BY <3>2, <4>1
    <3>3. QED
      BY <2>1, <3>1, <3>2 DEF LinkFrame
  <2>5. signups' \subseteq dropped' \cup {credential'.id}
    BY <1>0, <2>2, <2>3
  <2>6. QED
    BY <2>2, <2>3, <2>4, <2>5
<1>6. ASSUME RowsStep \/ set_automation \/ UNCHANGED vars PROVE PasswordsKept' /\ ActiveIsOpened'
  <2>1. UNCHANGED <<credential, dropped, signups, accounts, opened>>
    BY <1>6, RowsFrames, Switches DEF RowsFrame, vars
  <2>2. QED
    BY <2>1
<1>7. QED
  BY <1>1, <1>2, <1>3, <1>4, <1>5, <1>6, StepKinds

-----------------------------------------------------------------------------
\* The invariant holds at the start.
LEMMA InitInv == Init => AtsInv
<1> SUFFICES ASSUME Init PROVE AtsInv
  OBVIOUS
<1>1. /\ NoCredential \in Credentials /\ NoCredential.id = 0 /\ NoCredential.status = "none"
      /\ NewUser \in Users /\ NewUser.alias = 0 /\ NewUser.on = TRUE
      /\ IdleTask \in Tasks /\ IdleTask.pc = "idle" /\ IdleTask.rows = {}
  BY DEF NoCredential, Credentials, NewUser, Users, IdleTask, Tasks, TaskPc
<1>2. IdleRun \in Run /\ IdleRun.pc = "idle" /\ IdleRun.result = "parked"
  <2>1. IdleRun = [pc |-> "idle", cred |-> NoCredential, user |-> NewUser, result |-> "parked"]
    BY DEF IdleRun, Holding, RunOf
  <2>2. QED
    BY <1>1, <2>1 DEF Run, RunPc, Results, RowStates
<1>3. /\ run \in [Rows -> Run] /\ row \in [Rows -> RowStates]
      /\ \A r \in Rows : run[r] = IdleRun /\ row[r] = "queued"
  BY <1>2 DEF Init, RowStates
<1>4. AtsTypeOK
  <2>1. \A r \in Rows : /\ row[r] \in RowStates
                        /\ run[r].pc \in RunPc /\ run[r].result \in RowStates \ {"queued"}
    BY <1>2, <1>3 DEF RunPc, RowStates
  <2>2. user.alias \in 0..aliases /\ user.on \in BOOLEAN
    <3>1. user \in Users /\ user.alias = 0 /\ aliases = 0
      BY <1>1 DEF Init
    <3>2. QED
      BY <3>1 DEF Users
  <2>3. credential.id \in 0..made /\ (credential.status = "none" <=> credential.id = 0)
    BY <1>1 DEF Init
  <2>4. /\ signups \subseteq 1..made /\ dropped \subseteq 1..made /\ opened \subseteq 1..made
        /\ mail \subseteq {a.alias : a \in accounts} /\ accepted \subseteq Rows
    BY DEF Init
  <2>5. task.rows \subseteq Rows /\ events \in 0..MaxEvents
    BY <1>1, AtsAssumption DEF Init
  <2>6. QED
    BY <2>1, <2>2, <2>3, <2>4, <2>5 DEF AtsTypeOK
<1>5. Shape
  BY <1>1, <1>3, <1>4 DEF Init, Shape
<1>6. SubmittedMeansSent /\ ResultsTrue /\ HeldCredentials
  BY <1>1, <1>2, <1>3
     DEF Init, SubmittedMeansSent, ResultsTrue, HeldCredentials, PastInsert, PastVisit
<1>7. PasswordsKept /\ ActiveIsOpened
  BY <1>1 DEF Init, PasswordsKept, ActiveIsOpened
<1>8. QED
  BY <1>5, <1>6, <1>7 DEF AtsInv

\* No row is shown as submitted that the site did not accept; the password of every sign-up
\* that went out is the stored one, unless that one was deleted, by a failed sign-up or by the
\* user; no credential is active for which no link was opened: for any rows, retries and faults.
THEOREM AtsRunCorrect == Spec => []RunsTrue
<1>1. AtsInv /\ [Next]_vars => AtsInv'
  BY NextShape, NextResults, NextHeld, NextKept DEF AtsInv
<1>2. AtsInv => RunsTrue
  BY DEF AtsInv, Shape, RunsTrue
<1>3. QED
  BY <1>1, <1>2, InitInv, PTL DEF Spec
=============================================================================
