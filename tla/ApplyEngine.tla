---------------------------- MODULE ApplyEngine ----------------------------
(***************************************************************************)
(* The apply engine of one user: the JobApplication rows, everything that  *)
(* queues one (the apply sweep, "Apply", "Apply top N", the requeue after  *)
(* an e-mail verification), the submit_application tasks on the "apply"    *)
(* queue, and everything else that rewrites a row under their feet (stop,  *)
(* a hand-set status, a cover-letter save, the purge).                     *)
(*                                                                         *)
(* One action is one database or broker round trip.  Document.save()       *)
(* writes the whole document and upserts it, so a save is a blind write of *)
(* the status its holder read earlier.                                     *)
(***************************************************************************)
EXTENDS Integers, FiniteSets

CONSTANTS
    Rows, Tasks, Feeders,       \* rows; task ids in use at once; concurrent feeders
    NoRow,
    ApplySlots,                 \* concurrency of the "apply" worker
    MaxConcurrentPerUser,       \* MAX_CONCURRENT_PER_USER
    PlanLimit,                  \* applications the plan allows per period
    BatchMax,                   \* rows one "Apply top N" asks for
    Tailored,                   \* profile.resume_strategy == "tailored"
    Happens,                    \* the kinds of environment event an instance allows
    MaxEvents                   \* bound on the number of environment events

EventKinds ==
    {"match", "reap", "purge", "sweep", "apply_now", "apply_batch", "verified",
     "run", "pause", "stop", "set_status", "edit",
     "apply_crash", "process_crash", "hard_kill", "tailor_error", "task_error",
     "meter_error", "retry_error", "api_publish_error", "task_publish_error"}

ASSUME RowsAssumption == NoRow \notin Rows
ASSUME SlotsAssumption == ApplySlots \in Nat \ {0}
ASSUME CapAssumption == MaxConcurrentPerUser \in Nat /\ BatchMax \in Nat
ASSUME LimitAssumption == PlanLimit \in Nat
ASSUME EventsAssumption ==
    /\ Happens \subseteq EventKinds
    /\ MaxEvents \in Nat
    /\ Tailored \in BOOLEAN
ASSUME RowsFinite == IsFiniteSet(Rows)
ASSUME TasksFinite == IsFiniteSet(Tasks)

VARIABLES
    row,          \* row[r]: the status stored for r
    reaped,       \* rows whose Job the retention TTL has removed
    automation,   \* user.automation_state
    used,         \* subscription.applications_used
    feeder,       \* feeder[f]: an HTTP handler or task that queues rows
    task,         \* task[t]: a submit_application message, or its run
    stopping,     \* set_automation("stopped"): rows it has still to cancel
    edit,         \* a letter edit or regeneration: the document it read
    purging,      \* _purge_stale_matches: the ids it aggregated
    sent,         \* sent[r]: forms submitted to r's employer
    received,     \* received[r]: those the employer's page confirmed
    charged,      \* charged[r]: usage increments made for r
    beside,       \* beside[f]: rows somebody else queued since sweep f counted
    events        \* environment events so far

world == <<sent, received, charged>>
vars == <<row, reaped, automation, used, feeder, task, stopping, edit, purging,
          sent, received, charged, beside, events>>

\* "none": not matched yet; "purged": deleted.  "awaiting" is NEEDS_INFO with
\* needs_action "awaiting_email_verification", "needs_info" any other action;
\* "interview" stands for INTERVIEW, OFFER and REJECTED; only _mark_failed writes
\* FAILED, and nothing reaches it (see TaskFails).
Statuses == {"none", "matched", "queued", "needs_info", "awaiting", "submitted",
             "confirmed", "interview", "purged"}
Gone == {"none", "purged"}
AlreadySubmitted == {"submitted", "confirmed"}
UserSettable == {"confirmed", "interview"}

\* What _submit_async has decided to write.
Outcomes == {"none", "no_quota", "needs_info", "awaiting", "submitted"}
StatusFor(outcome) ==
    CASE outcome = "no_quota" -> "matched"
      [] outcome \in {"needs_info", "awaiting", "submitted"} -> outcome

Feeds == {"sweep", "apply_now", "apply_batch", "verified"}
FeederPc == {"idle", "eligible", "pick", "queue", "publish"}
TaskPc == {"free", "tailor", "tailoring", "queued", "gate", "apply", "record",
           "meter"}

IdleFeeder == [pc |-> "idle", kind |-> "sweep", room |-> 0, todo |-> {}, cur |-> NoRow]
FreeTask == [pc |-> "free", row |-> NoRow, tries |-> 0, out |-> "none", snap |-> "none"]

Init ==
    /\ row = [r \in Rows |-> "none"]
    /\ reaped = {}
    /\ automation = "running"
    /\ used = 0
    /\ feeder = [f \in Feeders |-> IdleFeeder]
    /\ task = [t \in Tasks |-> FreeTask]
    /\ stopping = [on |-> FALSE, todo |-> {}]
    /\ edit = [row |-> NoRow, snap |-> "none"]
    /\ purging = {}
    /\ sent = [r \in Rows |-> 0]
    /\ received = [r \in Rows |-> 0]
    /\ charged = [r \in Rows |-> 0]
    /\ beside = [f \in Feeders |-> {}]
    /\ events = 0

-----------------------------------------------------------------------------
Event(kind) ==
    /\ kind \in Happens
    /\ events < MaxEvents
    /\ events' = events + 1

In(statuses) == {r \in Rows : row[r] \in statuses}
Save(r, status) == row' = [row EXCEPT ![r] = status]
Running == {t \in Tasks : task[t].pc \in {"gate", "apply", "record", "meter"}}
CanApply == used < PlanLimit
Halted == automation \in {"paused", "stopped"}
Lesser(m, n) == IF m < n THEN m ELSE n

TaskStep(t, new) == task' = [task EXCEPT ![t] = new]
At(t, pc) == task[t].pc = pc
FeederAt(f, pc) == feeder[f].pc = pc

\* A step of a feeder alone, which is done with its budget when it is done.
FeederStep(f, new) ==
    /\ feeder' = [feeder EXCEPT ![f] = new]
    /\ beside' = [beside EXCEPT ![f] = IF new.pc = "idle" THEN {} ELSE @]

\* r becomes queued while the sweeps among fs are at work, by none of them.
Sweeping == {f \in Feeders : feeder[f].kind = "sweep" /\ ~FeederAt(f, "idle")}
QueuedBeside(fs, r) ==
    beside' = [f \in Feeders |-> IF f \in fs \cap Sweeping /\ row[r] # "queued"
                                    THEN beside[f] \cup {r} ELSE beside[f]]

\* The rows a query sorted by score and limited to n may return.
Best(n, statuses) ==
    {S \in SUBSET In(statuses) : Cardinality(S) = Lesser(n, Cardinality(In(statuses)))}

-----------------------------------------------------------------------------
(* Rows come and go. *)

\* match_jobs_for_user inserts one MATCHED row per scored job.
Match(r) ==
    /\ Event("match")
    /\ row[r] = "none"
    /\ r \notin reaped
    /\ Save(r, "matched")
    /\ UNCHANGED <<reaped, automation, used, feeder, task, stopping, edit, purging, world, beside>>

\* MongoDB's TTL monitor removes the Job behind r.
ReapJob(r) ==
    /\ Event("reap")
    /\ r \notin reaped
    /\ reaped' = reaped \cup {r}
    /\ UNCHANGED <<row, automation, used, feeder, task, stopping, edit, purging, world, beside>>

\* _purge_stale_matches: aggregate the ids, then delete by id alone.
PurgeScan ==
    /\ Event("purge")
    /\ purging = {}
    /\ In({"matched"}) \cap reaped # {}
    /\ purging' = In({"matched"}) \cap reaped
    /\ UNCHANGED <<row, reaped, automation, used, feeder, task, stopping, edit, world, beside>>

PurgeDelete ==
    /\ purging # {}
    /\ row' = [r \in Rows |-> IF r \in purging THEN "purged" ELSE row[r]]
    /\ purging' = {}
    /\ UNCHANGED <<reaped, automation, used, feeder, task, stopping, edit, world, events, beside>>

\* update_application_status: no check of the status it replaces.
SetStatus(r, status) ==
    /\ Event("set_status")
    /\ row[r] \notin Gone
    /\ status \in UserSettable
    /\ Save(r, status)
    /\ UNCHANGED <<reaped, automation, used, feeder, task, stopping, edit, purging, world, beside>>

\* edit_cover_letter and regenerate_cover_letter read the row, and save all of
\* it back later.  The first refuses a row that went out; the second refuses a row
\* without its Job, and calls a model in between.
EditRead(r) ==
    /\ Event("edit")
    /\ edit.row = NoRow
    /\ row[r] \notin Gone
    /\ r \in reaped => row[r] \notin AlreadySubmitted
    /\ edit' = [row |-> r, snap |-> row[r]]
    /\ UNCHANGED <<row, reaped, automation, used, feeder, task, stopping, purging, world, beside>>

EditSave ==
    /\ edit.row # NoRow
    /\ Save(edit.row, edit.snap)
    /\ edit' = [row |-> NoRow, snap |-> "none"]
    /\ IF edit.snap = "queued" THEN QueuedBeside(Feeders, edit.row) ELSE UNCHANGED beside
    /\ UNCHANGED <<reaped, automation, used, feeder, task, stopping, purging, world, events>>

-----------------------------------------------------------------------------
(* set_automation.  Running and paused are one save of the user; stopped    *)
(* first returns every row it saw queued to matched, one save each.         *)

SetRunning(state) ==
    /\ \/ state = "running" /\ Event("run")
       \/ state = "paused" /\ Event("pause")
    /\ automation # state
    /\ automation' = state
    /\ UNCHANGED <<row, reaped, used, feeder, task, stopping, edit, purging, world, beside>>

StopScan ==
    /\ Event("stop")
    /\ ~stopping.on
    /\ stopping' = [on |-> TRUE, todo |-> In({"queued"})]
    /\ UNCHANGED <<row, reaped, automation, used, feeder, task, edit, purging, world, beside>>

StopCancel(r) ==
    /\ stopping.on
    /\ r \in stopping.todo
    /\ Save(r, "matched")
    /\ stopping' = [stopping EXCEPT !.todo = @ \ {r}]
    /\ UNCHANGED <<reaped, automation, used, feeder, task, edit, purging, world, events, beside>>

StopFinish ==
    /\ stopping.on
    /\ stopping.todo = {}
    /\ automation' = "stopped"
    /\ stopping' = [on |-> FALSE, todo |-> {}]
    /\ UNCHANGED <<row, reaped, used, feeder, task, edit, purging, world, events, beside>>

-----------------------------------------------------------------------------
(* Feeders: whatever turns rows QUEUED and publishes submit tasks for them. *)

\* apply_now: read the row, refuse what is queued or submitted, check the quota.
ApplyNow(f, r) ==
    /\ Event("apply_now")
    /\ FeederAt(f, "idle")
    /\ row[r] \notin Gone \cup AlreadySubmitted \cup {"queued"}
    /\ CanApply
    /\ FeederStep(f, [IdleFeeder EXCEPT !.pc = "queue", !.kind = "apply_now", !.todo = {r}])
    /\ UNCHANGED <<row, reaped, automation, used, task, stopping, edit, purging, world>>

\* apply_batch: the best BatchMax matched rows.
ApplyBatch(f) ==
    /\ Event("apply_batch")
    /\ FeederAt(f, "idle")
    /\ \E S \in Best(BatchMax, {"matched"}) :
          /\ S # {}
          /\ FeederStep(f, [IdleFeeder EXCEPT !.pc = "queue", !.kind = "apply_batch", !.todo = S])
    /\ UNCHANGED <<row, reaped, automation, used, task, stopping, edit, purging, world>>

\* Mutant: a budget that ignores what is already in flight.
SweepCountFresh(f) ==
    /\ Event("sweep")
    /\ FeederAt(f, "idle")
    /\ FeederStep(f, [IdleFeeder EXCEPT !.pc = "eligible", !.room = MaxConcurrentPerUser])
    /\ UNCHANGED <<row, reaped, automation, used, task, stopping, edit, purging, world>>

\* _enqueue_async: count what is in flight ...
SweepCount(f) ==
    /\ Event("sweep")
    /\ FeederAt(f, "idle")
    /\ Cardinality(In({"queued"})) < MaxConcurrentPerUser
    /\ FeederStep(f, [IdleFeeder EXCEPT !.pc = "eligible",
                        !.room = MaxConcurrentPerUser - Cardinality(In({"queued"}))])
    /\ UNCHANGED <<row, reaped, automation, used, task, stopping, edit, purging, world>>

\* ... then the user's switch and the quota ...
SweepEligible(f) ==
    /\ FeederAt(f, "eligible")
    /\ IF Halted \/ ~CanApply
         THEN FeederStep(f, IdleFeeder)
         ELSE FeederStep(f, [feeder[f] EXCEPT !.pc = "pick"])
    /\ UNCHANGED <<row, reaped, automation, used, task, stopping, edit, purging, world, events>>

\* ... then the best matched rows, up to the budget counted at the start.
SweepPick(f) ==
    /\ FeederAt(f, "pick")
    /\ feeder[f].kind = "sweep"
    /\ \E S \in Best(feeder[f].room, {"matched"}) :
          FeederStep(f, IF S = {} THEN IdleFeeder
                                  ELSE [feeder[f] EXCEPT !.pc = "queue", !.todo = S])
    /\ UNCHANGED <<row, reaped, automation, used, task, stopping, edit, purging, world, events>>

\* _verify_managed_async, once the credential is active: nothing is requeued for
\* a user who is paused or stopped at this moment ...
Verified(f) ==
    /\ Event("verified")
    /\ FeederAt(f, "idle")
    /\ ~Halted
    /\ FeederStep(f, [IdleFeeder EXCEPT !.pc = "pick", !.kind = "verified"])
    /\ UNCHANGED <<row, reaped, automation, used, task, stopping, edit, purging, world>>

\* ... else every row awaiting the e-mail whose Job still exists.
VerifiedPick(f) ==
    /\ FeederAt(f, "pick")
    /\ feeder[f].kind = "verified"
    /\ LET S == In({"awaiting"}) \ reaped
       IN  FeederStep(f, IF S = {} THEN IdleFeeder
                                   ELSE [feeder[f] EXCEPT !.pc = "queue", !.todo = S])
    /\ UNCHANGED <<row, reaped, automation, used, task, stopping, edit, purging, world, events>>

\* One turn of the loop: save the row as QUEUED.  Only apply_batch looks at the
\* quota again first.
QueueRow(f, r) ==
    /\ FeederAt(f, "queue")
    /\ r \in feeder[f].todo
    /\ feeder[f].kind = "apply_batch" => CanApply
    /\ Save(r, "queued")
    /\ feeder' = [feeder EXCEPT ![f] = [feeder[f] EXCEPT !.pc = "publish", !.cur = r,
                                                         !.todo = @ \ {r}]]
    /\ QueuedBeside(Feeders \ {f}, r)
    /\ UNCHANGED <<reaped, automation, used, task, stopping, edit, purging, world, events>>

BatchBreak(f) ==
    /\ FeederAt(f, "queue")
    /\ feeder[f].kind = "apply_batch"
    /\ ~CanApply
    /\ FeederStep(f, IdleFeeder)
    /\ UNCHANGED <<row, reaped, automation, used, task, stopping, edit, purging, world, events>>

\* Mutant: the handler keeps its hold on the row it has just published.
AfterTurnHolding(f) ==
    IF feeder[f].todo = {} THEN IdleFeeder ELSE [feeder[f] EXCEPT !.pc = "queue"]

AfterTurn(f) ==
    IF feeder[f].todo = {} THEN IdleFeeder
                           ELSE [feeder[f] EXCEPT !.pc = "queue", !.cur = NoRow]

\* apply_async; a sweep tailors the resume first when the profile asks for it.
Publish(f, t) ==
    /\ FeederAt(f, "publish")
    /\ At(t, "free")
    /\ TaskStep(t, [FreeTask EXCEPT
                      !.pc = IF Tailored /\ feeder[f].kind = "sweep" THEN "tailor" ELSE "queued",
                      !.row = feeder[f].cur])
    /\ FeederStep(f, AfterTurn(f))
    /\ UNCHANGED <<row, reaped, automation, used, stopping, edit, purging, world, events>>

\* Mutant: the handler reports the broker error and leaves the row as it is.
PublishFailsKeeping(f) ==
    /\ Event("api_publish_error")
    /\ FeederAt(f, "publish")
    /\ feeder[f].kind \in {"apply_now", "apply_batch"}
    /\ FeederStep(f, IdleFeeder)
    /\ UNCHANGED <<row, reaped, automation, used, task, stopping, edit, purging, world>>

\* The broker is down: the two HTTP handlers put the row back and stop.
PublishFails(f) ==
    /\ Event("api_publish_error")
    /\ FeederAt(f, "publish")
    /\ feeder[f].kind \in {"apply_now", "apply_batch"}
    /\ Save(feeder[f].cur, "matched")
    /\ FeederStep(f, IdleFeeder)
    /\ UNCHANGED <<reaped, automation, used, task, stopping, edit, purging, world>>

\* ... and the two tasks let the exception end them; so does losing the process.
FeederDies(f) ==
    /\ \/ Event("task_publish_error")
          /\ FeederAt(f, "publish")
          /\ feeder[f].kind \in {"sweep", "verified"}
       \/ Event("process_crash")
          /\ ~FeederAt(f, "idle")
    /\ FeederStep(f, IdleFeeder)
    /\ UNCHANGED <<row, reaped, automation, used, task, stopping, edit, purging, world>>

-----------------------------------------------------------------------------
(* tailor_for_application, chained in front of the submit task. *)

TailorRead(t) ==
    /\ At(t, "tailor")
    /\ IF row[task[t].row] \in Gone \/ task[t].row \in reaped
         THEN TaskStep(t, [task[t] EXCEPT !.pc = "queued"])
         ELSE TaskStep(t, [task[t] EXCEPT !.pc = "tailoring", !.snap = row[task[t].row]])
    /\ UNCHANGED <<row, reaped, automation, used, feeder, stopping, edit, purging, world, events, beside>>

\* The model calls took minutes; the whole document read before them is saved.
TailorSave(t) ==
    /\ At(t, "tailoring")
    /\ Save(task[t].row, task[t].snap)
    /\ TaskStep(t, [task[t] EXCEPT !.pc = "queued", !.snap = "none"])
    /\ IF task[t].snap = "queued" THEN QueuedBeside(Feeders, task[t].row) ELSE UNCHANGED beside
    /\ UNCHANGED <<reaped, automation, used, feeder, stopping, edit, purging, world, events>>

\* Skipped, or no text came back: the chain goes on with the base resume.
TailorSkip(t) ==
    /\ At(t, "tailoring")
    /\ TaskStep(t, [task[t] EXCEPT !.pc = "queued", !.snap = "none"])
    /\ UNCHANGED <<row, reaped, automation, used, feeder, stopping, edit, purging, world, events, beside>>

\* An exception is retried from the start (the count of the two retries is left out).
TailorRaises(t) ==
    /\ Event("tailor_error")
    /\ At(t, "tailoring")
    /\ TaskStep(t, [task[t] EXCEPT !.pc = "tailor", !.snap = "none"])
    /\ UNCHANGED <<row, reaped, automation, used, feeder, stopping, edit, purging, world, beside>>

\* A lost or killed tailoring process is not redelivered, and with no retry left
\* self.retry raises the exc it was handed, which the handler does not catch: the
\* chain ends, and no submit task follows.
TailorLost(t) ==
    /\ Event("process_crash") \/ Event("hard_kill") \/ Event("retry_error")
    /\ At(t, "tailoring")
    /\ TaskStep(t, FreeTask)
    /\ UNCHANGED <<row, reaped, automation, used, feeder, stopping, edit, purging, world, beside>>

-----------------------------------------------------------------------------
(* submit_application. *)

\* Mutant: no check for a row that already went out.
StartUnguarded(t) ==
    /\ At(t, "queued")
    /\ Cardinality(Running) < ApplySlots
    /\ IF row[task[t].row] \in Gone THEN TaskStep(t, FreeTask)
                                    ELSE TaskStep(t, [task[t] EXCEPT !.pc = "gate"])
    /\ UNCHANGED <<row, reaped, automation, used, feeder, stopping, edit, purging, world, events, beside>>

\* A slot of the "apply" worker takes the message and reads the row.
Start(t) ==
    /\ At(t, "queued")
    /\ Cardinality(Running) < ApplySlots
    /\ IF row[task[t].row] \in Gone \cup AlreadySubmitted
         THEN TaskStep(t, FreeTask)
         ELSE TaskStep(t, [task[t] EXCEPT !.pc = "gate"])
    /\ UNCHANGED <<row, reaped, automation, used, feeder, stopping, edit, purging, world, events, beside>>

\* Mutant: the gate trusts the check its feeder made.
GateUnchecked(t) ==
    /\ At(t, "gate")
    /\ \/ TaskStep(t, [task[t] EXCEPT !.pc = "record", !.out = "needs_info"])
       \/ TaskStep(t, [task[t] EXCEPT !.pc = "apply"])
    /\ UNCHANGED <<row, reaped, automation, used, feeder, stopping, edit, purging, world, events, beside>>

\* The entitlement gate, then the job and its adapter: no quota and no adapter
\* are both decided here and written by Record.
Gate(t) ==
    /\ At(t, "gate")
    /\ \/ ~CanApply
          /\ TaskStep(t, [task[t] EXCEPT !.pc = "record", !.out = "no_quota"])
       \/ CanApply
          /\ TaskStep(t, [task[t] EXCEPT !.pc = "record", !.out = "needs_info"])
       \/ CanApply
          /\ task[t].row \notin reaped
          /\ TaskStep(t, [task[t] EXCEPT !.pc = "apply"])
    /\ UNCHANGED <<row, reaped, automation, used, feeder, stopping, edit, purging, world, events, beside>>

\* Mutant: a clicked submit button is taken for a submission.
AdapterTrustsClick(t) ==
    /\ At(t, "apply")
    /\ \E out \in {"needs_info", "awaiting", "submitted"}, confirmed \in {0, 1} :
          /\ sent' = [sent EXCEPT ![task[t].row] = @ + IF out = "submitted" THEN 1 ELSE 0]
          /\ received' = [received EXCEPT ![task[t].row] = @ + confirmed]
          /\ TaskStep(t, [task[t] EXCEPT !.pc = "record", !.out = out])
    /\ UNCHANGED <<row, reaped, automation, used, feeder, stopping, edit, purging, charged, events, beside>>

\* adapter.apply: parks before the form goes out (a login, a captcha, an account
\* awaiting its e-mail), or clicks submit and is, or is not, shown a confirmation.
Adapter(t) ==
    /\ At(t, "apply")
    /\ \E out \in {"needs_info", "awaiting", "submitted"}, clicked \in {0, 1} :
          /\ out = "submitted" => clicked = 1
          /\ out = "awaiting" => clicked = 0
          /\ sent' = [sent EXCEPT ![task[t].row] = @ + clicked]
          /\ received' = [received EXCEPT
                            ![task[t].row] = @ + IF out = "submitted" THEN 1 ELSE 0]
          /\ TaskStep(t, [task[t] EXCEPT !.pc = "record", !.out = out])
    /\ UNCHANGED <<row, reaped, automation, used, feeder, stopping, edit, purging, charged, events, beside>>

\* Mutant: every attempt is metered, whatever became of it.
RecordMetersAll(t) ==
    /\ At(t, "record")
    /\ Save(task[t].row, StatusFor(task[t].out))
    /\ TaskStep(t, [task[t] EXCEPT !.pc = "meter"])
    /\ UNCHANGED <<reaped, automation, used, feeder, stopping, edit, purging, world, events, beside>>

\* The save of the outcome; only a submission goes on to be metered.
Record(t) ==
    /\ At(t, "record")
    /\ Save(task[t].row, StatusFor(task[t].out))
    /\ TaskStep(t, IF task[t].out = "submitted" THEN [task[t] EXCEPT !.pc = "meter"]
                                               ELSE FreeTask)
    /\ UNCHANGED <<reaped, automation, used, feeder, stopping, edit, purging, world, events, beside>>

\* increment_application_usage: one $inc.
Meter(t) ==
    /\ At(t, "meter")
    /\ used' = used + 1
    /\ charged' = [charged EXCEPT ![task[t].row] = @ + 1]
    /\ TaskStep(t, FreeTask)
    /\ UNCHANGED <<row, reaped, automation, feeder, stopping, edit, purging, sent, received, events, beside>>

\* Mutant: a run that failed puts its row back to matched before it is retried.
TaskRaisesResetting(t) ==
    /\ \/ Event("task_error") /\ task[t].pc \in {"gate", "apply", "record"}
       \/ Event("meter_error") /\ At(t, "meter")
    /\ task[t].tries = 0
    /\ Save(task[t].row, "matched")
    /\ TaskStep(t, [FreeTask EXCEPT !.pc = "queued", !.row = task[t].row, !.tries = 1])
    /\ UNCHANGED <<reaped, automation, used, feeder, stopping, edit, purging, world, beside>>

\* An exception anywhere is retried once.
TaskRaises(t) ==
    /\ \/ Event("task_error") /\ task[t].pc \in {"gate", "apply", "record"}
       \/ Event("meter_error") /\ At(t, "meter")
    /\ task[t].tries = 0
    /\ TaskStep(t, [FreeTask EXCEPT !.pc = "queued", !.row = task[t].row, !.tries = 1])
    /\ UNCHANGED <<row, reaped, automation, used, feeder, stopping, edit, purging, world, beside>>

\* The exception of the retry, or one whose retry the broker does not take.
\* self.retry(exc=exc) raises exc again, not the MaxRetriesExceededError the handler
\* waits for, so _mark_failed is not called and the row stays as it is.
TaskFails(t) ==
    /\ Event("retry_error")
    /\ t \in Running
    /\ TaskStep(t, FreeTask)
    /\ UNCHANGED <<row, reaped, automation, used, feeder, stopping, edit, purging, world, beside>>

\* The hard time limit kills the child and acknowledges the message.
TaskKilled(t) ==
    /\ Event("hard_kill")
    /\ t \in Running
    /\ TaskStep(t, FreeTask)
    /\ UNCHANGED <<row, reaped, automation, used, feeder, stopping, edit, purging, world, beside>>

\* Mutant: the message is acknowledged on delivery and dies with the worker.
WorkerLostAcked(t) ==
    /\ Event("apply_crash")
    /\ t \in Running
    /\ TaskStep(t, FreeTask)
    /\ UNCHANGED <<row, reaped, automation, used, feeder, stopping, edit, purging, world, beside>>

\* The worker process is lost: acks_late and reject_on_worker_lost put the
\* message back as it was delivered.
WorkerLost(t) ==
    /\ Event("apply_crash")
    /\ t \in Running
    /\ TaskStep(t, [task[t] EXCEPT !.pc = "queued", !.out = "none"])
    /\ UNCHANGED <<row, reaped, automation, used, feeder, stopping, edit, purging, world, beside>>

-----------------------------------------------------------------------------
RowAction(r) ==
    \/ Match(r) \/ ReapJob(r) \/ EditRead(r) \/ StopCancel(r)
    \/ \E status \in UserSettable : SetStatus(r, status)

FeederAction(f) ==
    \/ ApplyBatch(f) \/ SweepCount(f) \/ SweepEligible(f) \/ SweepPick(f)
    \/ Verified(f) \/ VerifiedPick(f) \/ BatchBreak(f)
    \/ PublishFails(f) \/ FeederDies(f)
    \/ \E r \in Rows : ApplyNow(f, r) \/ QueueRow(f, r)
    \/ \E t \in Tasks : Publish(f, t)

TaskAction(t) ==
    \/ TailorRead(t) \/ TailorSave(t) \/ TailorSkip(t) \/ TailorRaises(t)
    \/ TailorLost(t)
    \/ Start(t) \/ Gate(t) \/ Adapter(t) \/ Record(t) \/ Meter(t)
    \/ TaskRaises(t) \/ TaskFails(t) \/ TaskKilled(t) \/ WorkerLost(t)

UserAction ==
    \/ SetRunning("running") \/ SetRunning("paused") \/ StopScan \/ StopFinish
    \/ EditSave \/ PurgeScan \/ PurgeDelete

Next ==
    \/ \E r \in Rows : RowAction(r)
    \/ \E f \in Feeders : FeederAction(f)
    \/ \E t \in Tasks : TaskAction(t)
    \/ UserAction

Spec == Init /\ [][Next]_vars

\* What the runtime keeps doing: a handler or task that has begun goes on, and
\* the workers keep taking messages.  Users, sweeps and faults promise nothing.
FeederProgress(f) ==
    \/ SweepEligible(f) \/ SweepPick(f) \/ VerifiedPick(f) \/ BatchBreak(f)
    \/ \E r \in Rows : QueueRow(f, r)
    \/ \E t \in Tasks : Publish(f, t)

TaskProgress(t) ==
    \/ TailorRead(t) \/ TailorSave(t) \/ TailorSkip(t)
    \/ Start(t) \/ Gate(t) \/ Adapter(t) \/ Record(t) \/ Meter(t)

Fairness ==
    /\ \A f \in Feeders : WF_vars(FeederProgress(f))
    /\ \A t \in Tasks : WF_vars(TaskProgress(t))
    /\ WF_vars(StopFinish \/ \E r \in Rows : StopCancel(r))
    /\ WF_vars(EditSave) /\ WF_vars(PurgeDelete)

FairSpec == Spec /\ Fairness

-----------------------------------------------------------------------------
(* Properties. *)

\* A feeder holds a row exactly while it publishes it.
FeederRecord ==
    {x \in [pc : FeederPc, kind : Feeds, room : Nat, todo : SUBSET Rows,
            cur : Rows \cup {NoRow}] : (x.cur = NoRow) <=> (x.pc # "publish")}

\* A task names a row while it is in use, and a submission it has still to write
\* or to meter only after the adapter returned.
TaskRecord ==
    {x \in [pc : TaskPc, row : Rows \cup {NoRow}, tries : {0, 1}, out : Outcomes,
            snap : Statuses] :
        /\ (x.row = NoRow) <=> (x.pc = "free")
        /\ x.pc = "record" => x.out # "none"
        /\ x.pc = "meter" => x.out = "submitted"
        /\ x.out = "submitted" => x.pc \in {"record", "meter"}}

\* Every variable keeps its shape.
TypeOK ==
    /\ row \in [Rows -> Statuses]
    /\ reaped \in SUBSET Rows
    /\ automation \in {"running", "paused", "stopped"}
    /\ used \in Nat
    /\ feeder \in [Feeders -> FeederRecord]
    /\ task \in [Tasks -> TaskRecord]
    /\ stopping \in [on : BOOLEAN, todo : SUBSET Rows]
    /\ edit \in [row : Rows \cup {NoRow}, snap : Statuses]
    /\ purging \in SUBSET Rows
    /\ sent \in [Rows -> Nat]
    /\ received \in [Rows -> Nat]
    /\ charged \in [Rows -> Nat]
    /\ beside \in [Feeders -> SUBSET Rows]
    /\ events \in Nat

\* "submitted" is only recorded when the ATS confirmation page says so
\* (compliance section 2a), and the plan is charged only for those: whoever
\* writes a row, and whatever stale copy of it they write.
Evidence ==
    \A r \in Rows :
        /\ row[r] = "submitted" => received[r] > 0
        /\ charged[r] <= received[r]

\* The engine implements its promise.
Ledger == INSTANCE ApplicationLedger WITH claimed <- In({"submitted"})
ImplementsLedger == Ledger!Spec

\* The gate and the increment are separate round trips, so the plan limit can be
\* passed, but only by the runs that were between the two: never by as many as
\* the "apply" worker has slots, however many rows the feeders queued, and
\* however often runs were lost or retried.
OvershootBounded == used < PlanLimit + ApplySlots

\* Why both hold.  Every copy of a row that says "submitted", in the database, in a
\* letter edit or in a tailoring task, belongs to a received application, and each
\* submission still to be charged has its own.
Owed(r) == {t \in Tasks : task[t].row = r /\ task[t].out = "submitted"}
Proven ==
    /\ \A r \in Rows : row[r] = "submitted" => received[r] > 0
    /\ edit.row \in Rows /\ edit.snap = "submitted" => received[edit.row] > 0
    /\ \A t \in Tasks : task[t].row \in Rows /\ task[t].snap = "submitted"
                          => received[task[t].row] > 0
    /\ \A r \in Rows : charged[r] + Cardinality(Owed(r)) <= received[r]

\* The runs between the gate and the increment hold a slot each.
Spending == {t \in Tasks : At(t, "apply") \/ task[t].out = "submitted"}
SlotsHeld ==
    /\ Cardinality(Running) <= ApplySlots
    /\ used + Cardinality(Spending) < PlanLimit + ApplySlots

\* The inductive invariant: no copy of a row, stale or not, and no run in
\* progress can make Evidence or OvershootBounded fail at a later step.
IInv == TypeOK /\ Proven /\ SlotsHeld

\* Submissions stop exactly at the plan limit.
NeverOverLimit == used <= PlanLimit

\* A row that says "queued" is some feeder's to publish or some task's to finish,
\* so the dashboard never shows work that nobody will do.
QueuedHasWork ==
    \A r \in In({"queued"}) :
        \/ \E f \in Feeders : feeder[f].cur = r
        \/ \E t \in Tasks : task[t].row = r /\ ~At(t, "meter")

\* No row stays queued for ever: it goes out, parks or is put back, also when a
\* worker dies under its run or the run raises once ("do not leave the row stuck in
\* QUEUED forever").
QueuedResolves == \A r \in Rows : (row[r] = "queued") ~> (row[r] # "queued")

\* A retried task never double-submits: no row is received twice.
AtMostOnce == \A r \in Rows : received[r] <= 1

\* Every submission is metered: when no task is left, what the employer
\* confirmed is what the plan was charged.
QuietMeansCharged == (\A t \in Tasks : At(t, "free")) => charged = received

\* Where one feeder at a time authorises work and nobody else writes rows, a row
\* recorded as submitted stays so: neither a retry after a failed increment nor
\* the purge takes it back.
SubmittedSticks ==
    [][\A r \in Rows : row[r] = "submitted" => row'[r] = "submitted"]_vars

\* What a sweep queues never brings the rows in flight above
\* MAX_CONCURRENT_PER_USER, but for those that other sweeps, "Apply", "Apply top N",
\* requeues and stale saves queued since it counted: what was in flight then, the
\* sweep took into account, whatever has happened to those rows meanwhile.
SweepRespectsCap ==
    \A f \in Feeders : FeederAt(f, "publish") /\ feeder[f].kind = "sweep"
        => Cardinality(In({"queued"}) \ beside[f]) <= MaxConcurrentPerUser

\* MAX_CONCURRENT_PER_USER as compliance.md states it, for every feeder.
CapKept == Cardinality(In({"queued"})) <= MaxConcurrentPerUser

\* Nothing goes out in the user's name after they said stop: a row that is no
\* longer queued because stop cancelled it is not started by the message that was
\* already on the broker.
StopMeansStop ==
    [][\A t \in Tasks :
          automation = "stopped" /\ At(t, "queued") /\ row[task[t].row] = "matched"
             => task'[t].pc # "gate"]_vars

\* The purge deletes only rows for which nothing was ever attempted.
AttemptedRowsKept == \A r \in Rows : row[r] = "purged" => sent[r] = 0
=============================================================================
