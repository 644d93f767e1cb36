------------------------- MODULE ApplyEngineProofs -------------------------
(***************************************************************************)
(* Proofs about ApplyEngine for every number of rows, tasks, feeders,      *)
(* slots and events, every plan limit, and every set of fault kinds.       *)
(***************************************************************************)
EXTENDS ApplyEngine, TLAPS, FiniteSetTheorems

-----------------------------------------------------------------------------
(* Records of feeders and tasks, and one update of either table. *)

\* The records feeders move through.
LEMMA IdleFeederType == IdleFeeder \in FeederRecord
  BY RowsAssumption DEF IdleFeeder, FeederRecord, FeederPc, Feeds

\* A feeder record about to queue some rows.
LEMMA FeederQueueType ==
  ASSUME NEW x \in FeederRecord, x.cur = NoRow, NEW S \in SUBSET Rows, NEW kind \in Feeds
  PROVE  /\ [x EXCEPT !.pc = "queue", !.todo = S] \in FeederRecord
         /\ [IdleFeeder EXCEPT !.pc = "queue", !.kind = kind, !.todo = S] \in FeederRecord
  BY RowsAssumption DEF IdleFeeder, FeederRecord, FeederPc, Feeds

\* Replacing one feeder, or one task, by a record of its type keeps the table typed.
LEMMA FeederUpdate ==
  ASSUME TypeOK, NEW f \in Feeders, NEW x \in FeederRecord, FeederStep(f, x)
  PROVE  feeder' \in [Feeders -> FeederRecord] /\ beside' \in [Feeders -> SUBSET Rows]
  BY DEF FeederStep, TypeOK

\* So does counting a row among those queued beside a sweep.
LEMMA BesideUpdate ==
  ASSUME TypeOK, NEW F, NEW r \in Rows, QueuedBeside(F, r)
  PROVE  beside' \in [Feeders -> SUBSET Rows]
  BY DEF QueuedBeside, TypeOK

\* The same for the table of tasks.
LEMMA TaskUpdate ==
  ASSUME TypeOK, NEW t \in Tasks, NEW x \in TaskRecord, TaskStep(t, x)
  PROVE  task' \in [Tasks -> TaskRecord]
  BY DEF TaskStep, TypeOK

\* A free task, and a message that waits for a slot.
LEMMA FreeTaskType ==
  /\ FreeTask \in TaskRecord
  /\ \A r \in Rows, pc \in {"tailor", "queued"}, tries \in {0, 1} :
        [FreeTask EXCEPT !.pc = pc, !.row = r, !.tries = tries] \in TaskRecord
  BY RowsAssumption DEF FreeTask, TaskRecord, TaskPc, Outcomes, Statuses

-----------------------------------------------------------------------------
(* Type correctness. *)

\* The engine starts well typed.
LEMMA InitTypeOK == Init => TypeOK
<1> SUFFICES ASSUME Init PROVE TypeOK
  OBVIOUS
<1>1. feeder \in [Feeders -> FeederRecord]
  BY IdleFeederType DEF Init
<1>2. task \in [Tasks -> TaskRecord]
  BY FreeTaskType DEF Init
<1>3. QED
  BY <1>1, <1>2 DEF Init, TypeOK, Statuses

\* The steps that touch neither feeders nor tasks.
LEMMA RowTypeOK ==
  ASSUME TypeOK, NEW r \in Rows, RowAction(r)
  PROVE  TypeOK'
<1> USE DEF Event, Save, world, Statuses, TypeOK, In
<1>1. CASE Match(r)
  BY <1>1 DEF Match
<1>2. CASE ReapJob(r)
  BY <1>2 DEF ReapJob
<1>3. CASE EditRead(r)
  BY <1>3 DEF EditRead
<1>4. CASE StopCancel(r)
  BY <1>4 DEF StopCancel
<1>5. CASE \E status \in UserSettable : SetStatus(r, status)
  BY <1>5 DEF SetStatus, UserSettable
<1>6. QED
  BY <1>1, <1>2, <1>3, <1>4, <1>5 DEF RowAction

\* The switch, the letter edits and the purge.
LEMMA UserTypeOK ==
  ASSUME TypeOK, UserAction
  PROVE  TypeOK'
<1> USE DEF Event, Save, world, Statuses, TypeOK, In
<1>1. CASE StopScan
  BY <1>1 DEF StopScan
<1>2. CASE StopFinish
  BY <1>2 DEF StopFinish
<1>3. CASE EditSave
  <2>1. edit.row \in Rows
    BY <1>3 DEF EditSave
  <2>2. beside' \in [Feeders -> SUBSET Rows]
    BY <1>3, <2>1, BesideUpdate DEF EditSave
  <2>3. QED
    BY <1>3, <2>1, <2>2 DEF EditSave
<1>4. CASE PurgeScan
  BY <1>4 DEF PurgeScan
<1>5. CASE PurgeDelete
  BY <1>5 DEF PurgeDelete
<1>6. CASE SetRunning("running") \/ SetRunning("paused")
  BY <1>6 DEF SetRunning
<1>7. QED
  BY <1>1, <1>2, <1>3, <1>4, <1>5, <1>6 DEF UserAction

\* The feeders: a row is held exactly from QueueRow to the end of the turn.
LEMMA FeederTypeOK ==
  ASSUME TypeOK, NEW f \in Feeders, FeederAction(f)
  PROVE  TypeOK'
<1> USE DEF Event, Save, world, Statuses, FeederAt
<1> DEFINE x == feeder[f]
           Typed == feeder' \in [Feeders -> FeederRecord] /\ beside' \in [Feeders -> SUBSET Rows]
<1>0. /\ x \in FeederRecord
      /\ IdleFeeder \in FeederRecord
      /\ IdleFeeder.cur = NoRow
  BY IdleFeederType DEF TypeOK, IdleFeeder
<1>1. CASE ApplyBatch(f)
  <2>1. PICK S \in SUBSET Rows :
          FeederStep(f, [IdleFeeder EXCEPT !.pc = "queue", !.kind = "apply_batch", !.todo = S])
    BY <1>1 DEF ApplyBatch, Best, In
  <2>2. Typed
    BY <1>0, <2>1, FeederQueueType, FeederUpdate DEF Feeds
  <2>3. QED
    BY <1>1, <2>2 DEF ApplyBatch, TypeOK

<1>2. CASE \E r \in Rows : ApplyNow(f, r)
  <2>1. PICK r \in Rows : ApplyNow(f, r)
    BY <1>2
  <2>2. Typed
    BY <1>0, <2>1, FeederQueueType, FeederUpdate DEF ApplyNow, Feeds
  <2>3. QED
    BY <2>1, <2>2 DEF ApplyNow, TypeOK

<1>3. CASE SweepCount(f)
  <2> DEFINE room == MaxConcurrentPerUser - Cardinality(In({"queued"}))
  <2>1. room \in Nat
    <3>1. IsFiniteSet(Rows) => Cardinality(In({"queued"})) \in Nat
      BY FS_Subset, FS_CardinalityType DEF In
    <3>2. QED
      BY <1>3, <3>1, RowsFinite, CapAssumption DEF SweepCount
  <2>2. [IdleFeeder EXCEPT !.pc = "eligible", !.room = room] \in FeederRecord
    BY <2>1, RowsAssumption DEF IdleFeeder, FeederRecord, FeederPc, Feeds
  <2>3. Typed
    BY <1>3, <2>2, FeederUpdate DEF SweepCount
  <2>4. QED
    BY <1>3, <2>3 DEF SweepCount, TypeOK

<1>4. CASE SweepEligible(f)
  <2>1. x.pc = "eligible" => [x EXCEPT !.pc = "pick"] \in FeederRecord
    BY <1>0 DEF FeederRecord, FeederPc
  <2>2. Typed
    BY <1>4, <1>0, <2>1, FeederUpdate DEF SweepEligible
  <2>3. QED
    BY <1>4, <2>2 DEF SweepEligible, TypeOK

<1>5. CASE SweepPick(f)
  <2>1. PICK S \in SUBSET Rows :
          FeederStep(f, IF S = {} THEN IdleFeeder
                                  ELSE [x EXCEPT !.pc = "queue", !.todo = S])
    BY <1>5 DEF SweepPick, Best, In
  <2>2. x.cur = NoRow
    BY <1>5, <1>0 DEF SweepPick, FeederRecord
  <2>3. Typed
    BY <1>0, <2>1, <2>2, FeederQueueType, FeederUpdate DEF Feeds
  <2>4. QED
    BY <1>5, <2>3 DEF SweepPick, TypeOK

<1>6. CASE VerifiedPick(f)
  <2>1. PICK S \in SUBSET Rows :
          FeederStep(f, IF S = {} THEN IdleFeeder
                                  ELSE [x EXCEPT !.pc = "queue", !.todo = S])
    BY <1>6 DEF VerifiedPick, In
  <2>2. x.cur = NoRow
    BY <1>6, <1>0 DEF VerifiedPick, FeederRecord
  <2>3. Typed
    BY <1>0, <2>1, <2>2, FeederQueueType, FeederUpdate DEF Feeds
  <2>4. QED
    BY <1>6, <2>3 DEF VerifiedPick, TypeOK

<1>7. CASE Verified(f)
  <2>1. [IdleFeeder EXCEPT !.pc = "pick", !.kind = "verified"] \in FeederRecord
    BY RowsAssumption DEF IdleFeeder, FeederRecord, FeederPc, Feeds
  <2>2. Typed
    BY <1>7, <2>1, FeederUpdate DEF Verified
  <2>3. QED
    BY <1>7, <2>2 DEF Verified, TypeOK

<1>8. CASE \E r \in Rows : QueueRow(f, r)
  <2>1. PICK r \in Rows : QueueRow(f, r)
    BY <1>8
  <2>2. [x EXCEPT !.pc = "publish", !.cur = r, !.todo = @ \ {r}] \in FeederRecord
    BY <1>0, RowsAssumption DEF FeederRecord, FeederPc
  <2>3. Typed
    <3>1. beside' \in [Feeders -> SUBSET Rows]
      BY <2>1, BesideUpdate DEF QueueRow
    <3>2. feeder' \in [Feeders -> FeederRecord]
      BY <2>1, <2>2 DEF QueueRow, TypeOK
    <3>3. QED
      BY <3>1, <3>2
  <2>4. QED
    BY <2>1, <2>3 DEF QueueRow, TypeOK

<1>9. CASE BatchBreak(f)
  <2>1. Typed
    BY <1>9, <1>0, FeederUpdate DEF BatchBreak
  <2>2. QED
    BY <1>9, <2>1 DEF BatchBreak, TypeOK

<1>10. CASE \E t \in Tasks : Publish(f, t)
  <2>1. PICK t \in Tasks : Publish(f, t)
    BY <1>10
  <2>2. AfterTurn(f) \in FeederRecord
    BY <1>0, RowsAssumption DEF AfterTurn, FeederRecord, FeederPc
  <2>3. Typed
    BY <2>1, <2>2, FeederUpdate DEF Publish
  <2>4. x.cur \in Rows
    BY <1>0, <2>1 DEF Publish, FeederRecord
  <2>5. \A pc \in {"tailor", "queued"} :
          [FreeTask EXCEPT !.pc = pc, !.row = x.cur] \in TaskRecord
    BY <2>4, RowsAssumption DEF FreeTask, TaskRecord, TaskPc, Outcomes
  <2>6. task' \in [Tasks -> TaskRecord]
    BY <2>1, <2>5, TaskUpdate DEF Publish
  <2>7. QED
    BY <2>1, <2>3, <2>6 DEF Publish, TypeOK

<1>11. CASE PublishFails(f)
  <2>1. x.cur \in Rows
    BY <1>11, <1>0 DEF PublishFails, FeederRecord
  <2>2. Typed
    BY <1>11, <1>0, FeederUpdate DEF PublishFails
  <2>3. QED
    BY <1>11, <2>1, <2>2 DEF PublishFails, TypeOK

<1>12. CASE FeederDies(f)
  <2>1. Typed
    BY <1>12, <1>0, FeederUpdate DEF FeederDies
  <2>2. QED
    BY <1>12, <2>1 DEF FeederDies, TypeOK

<1>13. QED
  BY <1>1, <1>2, <1>3, <1>4, <1>5, <1>6, <1>7, <1>8, <1>9, <1>10, <1>11, <1>12 DEF FeederAction

\* The tasks: out is "submitted" only between the adapter and the increment.
LEMMA TaskTypeOK ==
  ASSUME TypeOK, NEW t \in Tasks, TaskAction(t)
  PROVE  TypeOK'
<1> USE DEF Event, Save, world, At
<1> DEFINE x == task[t]
           Typed == task' \in [Tasks -> TaskRecord]
<1>a. x \in TaskRecord
  BY DEF TypeOK
<1>b. /\ x.pc # "free" => x.row \in Rows
      /\ x.row \in Rows => row[x.row] \in Statuses
  BY <1>a DEF TypeOK, TaskRecord
<1>0. /\ x \in TaskRecord
      /\ x.pc # "free" => x.row \in Rows
      /\ x.row \in Rows => row[x.row] \in Statuses
      /\ FreeTask \in TaskRecord
  BY <1>a, <1>b, FreeTaskType
<1>1. CASE TailorRead(t)
  <2>1. /\ [x EXCEPT !.pc = "queued"] \in TaskRecord
        /\ row[x.row] \in Statuses => [x EXCEPT !.pc = "tailoring", !.snap = row[x.row]] \in TaskRecord
    BY <1>1, <1>0, RowsAssumption DEF TailorRead, TaskRecord, TaskPc, Outcomes
  <2>2. Typed
    BY <1>1, <1>0, <2>1, TaskUpdate DEF TailorRead
  <2>3. QED
    BY <1>1, <1>0, <2>2 DEF TailorRead, TypeOK
<1>2. CASE TailorSave(t)
  <2>1. [x EXCEPT !.pc = "queued", !.snap = "none"] \in TaskRecord
    BY <1>2, <1>0, RowsAssumption DEF TailorSave, TaskRecord, TaskPc, Outcomes, Statuses
  <2>2. Typed
    BY <1>2, <1>0, <2>1, TaskUpdate DEF TailorSave
  <2>3. x.row \in Rows
    BY <1>2, <1>0 DEF TailorSave
  <2>4. beside' \in [Feeders -> SUBSET Rows]
    BY <1>2, <2>3, BesideUpdate DEF TailorSave, TypeOK
  <2>5. QED
    BY <1>2, <1>0, <2>2, <2>4 DEF TailorSave, TypeOK, TaskRecord
<1>3. CASE TailorSkip(t) \/ TailorRaises(t)
  <2>1. \A pc \in {"tailor", "queued"} : [x EXCEPT !.pc = pc, !.snap = "none"] \in TaskRecord
    BY <1>3, <1>0, RowsAssumption
       DEF TailorSkip, TailorRaises, TaskRecord, TaskPc, Outcomes, Statuses
  <2>2. Typed
    BY <1>3, <1>0, <2>1, TaskUpdate DEF TailorSkip, TailorRaises
  <2>3. QED
    BY <1>3, <1>0, <2>2 DEF TailorSkip, TailorRaises, TypeOK
<1>4. CASE TailorLost(t)
  <2>1. Typed
    BY <1>4, <1>0, TaskUpdate DEF TailorLost
  <2>2. QED
    BY <1>4, <1>0, <2>1 DEF TailorLost, TypeOK
<1>5. CASE Start(t)
  <2>1. [x EXCEPT !.pc = "gate"] \in TaskRecord
    BY <1>5, <1>0, RowsAssumption DEF Start, TaskRecord, TaskPc, Outcomes
  <2>2. Typed
    BY <1>5, <1>0, <2>1, TaskUpdate DEF Start
  <2>3. QED
    BY <1>5, <1>0, <2>2 DEF Start, TypeOK
<1>6. CASE Gate(t)
  <2>1. /\ [x EXCEPT !.pc = "apply"] \in TaskRecord
        /\ \A out \in {"no_quota", "needs_info"} : [x EXCEPT !.pc = "record", !.out = out] \in TaskRecord
    BY <1>6, <1>0, RowsAssumption DEF Gate, TaskRecord, TaskPc, Outcomes
  <2>2. Typed
    BY <1>6, <1>0, <2>1, TaskUpdate DEF Gate
  <2>3. QED
    BY <1>6, <1>0, <2>2 DEF Gate, TypeOK
<1>7. CASE Adapter(t)
  <2>1. \A out \in {"needs_info", "awaiting", "submitted"} :
           [x EXCEPT !.pc = "record", !.out = out] \in TaskRecord
    BY <1>7, <1>0, RowsAssumption DEF Adapter, TaskRecord, TaskPc, Outcomes
  <2>2. Typed
    BY <1>7, <1>0, <2>1, TaskUpdate DEF Adapter
  <2>3. QED
    BY <1>7, <1>0, <2>2 DEF Adapter, TypeOK
<1>8. CASE Record(t)
  <2>1. x.out = "submitted" => [x EXCEPT !.pc = "meter"] \in TaskRecord
    BY <1>8, <1>0, RowsAssumption DEF Record, TaskRecord, TaskPc, Outcomes
  <2>2. Typed
    BY <1>8, <1>0, <2>1, TaskUpdate DEF Record
  <2>3. QED
    BY <1>8, <1>0, <2>2 DEF Record, TypeOK, StatusFor, Statuses, TaskRecord, Outcomes
<1>9. CASE Meter(t)
  <2>1. Typed
    BY <1>9, <1>0, TaskUpdate DEF Meter
  <2>2. QED
    BY <1>9, <1>0, <2>1 DEF Meter, TypeOK
<1>10. CASE TaskRaises(t)
  <2>1. [FreeTask EXCEPT !.pc = "queued", !.row = x.row, !.tries = 1] \in TaskRecord
    BY <1>10, <1>0, FreeTaskType DEF TaskRaises
  <2>2. Typed
    BY <1>10, <1>0, <2>1, TaskUpdate DEF TaskRaises
  <2>3. QED
    BY <1>10, <1>0, <2>2 DEF TaskRaises, TypeOK
<1>11. CASE TaskFails(t) \/ TaskKilled(t)
  <2>1. Typed
    BY <1>11, <1>0, TaskUpdate DEF TaskFails, TaskKilled
  <2>2. QED
    BY <1>11, <1>0, <2>1 DEF TaskFails, TaskKilled, TypeOK
<1>12. CASE WorkerLost(t)
  <2>1. [x EXCEPT !.pc = "queued", !.out = "none"] \in TaskRecord
    BY <1>12, <1>0, RowsAssumption DEF WorkerLost, TaskRecord, TaskPc, Outcomes, Running
  <2>2. Typed
    BY <1>12, <1>0, <2>1, TaskUpdate DEF WorkerLost
  <2>3. QED
    BY <1>12, <1>0, <2>2 DEF WorkerLost, TypeOK
<1>13. QED
  BY <1>1, <1>2, <1>3, <1>4, <1>5, <1>6, <1>7, <1>8, <1>9, <1>10, <1>11, <1>12 DEF TaskAction

\* TypeOK is inductive.
LEMMA NextTypeOK == TypeOK /\ [Next]_vars => TypeOK'
<1>1. TypeOK /\ UNCHANGED vars => TypeOK'
  BY DEF TypeOK, vars
<1>2. QED
  BY <1>1, RowTypeOK, FeederTypeOK, TaskTypeOK, UserTypeOK DEF Next

\* Type correctness, for every instance.
THEOREM TypeCorrect == Spec => []TypeOK
  BY InitTypeOK, NextTypeOK, PTL DEF Spec

-----------------------------------------------------------------------------
(* Counting tasks. *)

\* Adding a task to a set of tasks, or taking it out, moves the count by at most one.
LEMMA Tally ==
  ASSUME NEW S \in SUBSET Tasks, NEW t \in Tasks
  PROVE  /\ Cardinality(S) \in Nat
         /\ Cardinality(S \cup {t}) = IF t \in S THEN Cardinality(S) ELSE Cardinality(S) + 1
         /\ Cardinality(S \ {t}) = IF t \in S THEN Cardinality(S) - 1 ELSE Cardinality(S)
<1>1. IsFiniteSet(S)
  BY TasksFinite, FS_Subset
<1>2. QED
  BY <1>1, FS_CardinalityType, FS_AddElement, FS_RemoveElement

\* Fewer tasks count no more.
LEMMA TallySubset ==
  ASSUME NEW S \in SUBSET Tasks, NEW U \in SUBSET S
  PROVE  Cardinality(U) <= Cardinality(S)
  BY TasksFinite, FS_Subset

-----------------------------------------------------------------------------
(* The slots of the "apply" worker. *)

RunningPc == {"gate", "apply", "record", "meter"}
Spends(x) == x.pc = "apply" \/ x.out = "submitted"

\* A step of one task keeps SlotsHeld if it takes a slot only when one is free,
\* starts to spend only below the plan limit and in a slot, and is charged only
\* as it stops spending.
LEMMA SlotsStep ==
  ASSUME TypeOK, SlotsHeld, NEW t \in Tasks, NEW x \in TaskRecord, TaskStep(t, x),
         x.pc \in RunningPc => t \in Running \/ Cardinality(Running) < ApplySlots,
         Spends(x) => used' = used /\ (t \in Spending \/ used < PlanLimit),
         ~Spends(x) => used' = used \/ (used' = used + 1 /\ t \in Spending)
  PROVE  SlotsHeld'
<1>1. Running' = IF x.pc \in RunningPc THEN Running \cup {t} ELSE Running \ {t}
  BY DEF TaskStep, TypeOK, Running, RunningPc
<1>2. Spending' = IF Spends(x) THEN Spending \cup {t} ELSE Spending \ {t}
  BY DEF TaskStep, TypeOK, Spending, Spends, At
<1>3. Running \in SUBSET Tasks /\ Spending \in SUBSET Tasks
  BY DEF Running, Spending
<1>4. Cardinality(Running') <= ApplySlots
  <2>1. /\ Cardinality(Running) \in Nat
        /\ Cardinality(Running \cup {t}) =
              IF t \in Running THEN Cardinality(Running) ELSE Cardinality(Running) + 1
        /\ Cardinality(Running \ {t}) =
              IF t \in Running THEN Cardinality(Running) - 1 ELSE Cardinality(Running)
    BY <1>3, Tally
  <2>2. QED
    BY <1>1, <2>1, SlotsAssumption DEF SlotsHeld
<1>5. Spending' \in SUBSET Running'
  BY DEF Spending, Running, At, TypeOK, TaskRecord, TaskStep
<1>6. Cardinality(Spending') <= Cardinality(Running')
  BY <1>3, <1>5, TallySubset DEF Running
<1>7. /\ Cardinality(Spending) \in Nat
      /\ Cardinality(Spending') \in Nat
      /\ Cardinality(Running') \in Nat
  BY <1>3, Tally DEF Spending, Running
<1>8. CASE Spends(x) /\ t \notin Spending
  BY <1>4, <1>6, <1>7, <1>8, LimitAssumption, SlotsAssumption DEF SlotsHeld, TypeOK
<1>9. CASE Spends(x) /\ t \in Spending
  BY <1>2, <1>3, <1>4, <1>9, Tally, LimitAssumption, SlotsAssumption DEF SlotsHeld, TypeOK
<1>10. CASE ~Spends(x)
  <2>1. Cardinality(Spending') =
           IF t \in Spending THEN Cardinality(Spending) - 1 ELSE Cardinality(Spending)
    BY <1>2, <1>3, <1>10, Tally
  <2>2. QED
    BY <2>1, <1>4, <1>7, <1>10, LimitAssumption, SlotsAssumption DEF SlotsHeld, TypeOK
<1>11. QED
  BY <1>8, <1>9, <1>10

\* Steps that leave the tasks and the counter alone.
LEMMA SlotsUnchanged ==
  ASSUME SlotsHeld, UNCHANGED <<task, used>>
  PROVE  SlotsHeld'
  BY DEF SlotsHeld, Running, Spending, At

\* Every step of a task is one SlotsStep allows.
LEMMA TaskSlotsHeld ==
  ASSUME TypeOK, TypeOK', SlotsHeld, NEW t \in Tasks, TaskAction(t)
  PROVE  SlotsHeld'
<1> DEFINE x == task'[t]
<1>0. /\ x \in TaskRecord
      /\ task[t] \in TaskRecord
      /\ used \in Nat
  BY DEF TypeOK
<1>1. TaskStep(t, x)
  BY DEF TaskAction, TaskStep, TypeOK, TailorRead, TailorSave, TailorSkip, TailorRaises, TailorLost, Start,
         Gate, Adapter, Record, Meter, TaskRaises, TaskFails, TaskKilled, WorkerLost
<1> DEFINE Allowed ==
             /\ x.pc \in RunningPc => t \in Running \/ Cardinality(Running) < ApplySlots
             /\ Spends(x) => used' = used /\ (t \in Spending \/ used < PlanLimit)
             /\ ~Spends(x) => used' = used \/ (used' = used + 1 /\ t \in Spending)
<1> USE <1>0 DEF Running, RunningPc, Spending, Spends, At, TaskStep, TaskRecord, TypeOK
<1>2. CASE TailorRead(t)
  <2>a. \/ x = [task[t] EXCEPT !.pc = "queued"]
        \/ x = [task[t] EXCEPT !.pc = "tailoring", !.snap = row[task[t].row]]
    BY <1>2 DEF TailorRead
  <2>1. x.pc \in {"queued", "tailoring"} /\ x.out = task[t].out /\ UNCHANGED used
    BY <1>2, <2>a DEF TailorRead
  <2>2. task[t].out # "submitted"
    BY <1>2 DEF TailorRead
  <2>3. Allowed
    BY <2>1, <2>2
  <2>4. QED
    BY <1>1, <2>3, SlotsStep
<1>3. CASE TailorSave(t)
  <2>1. Allowed
    BY <1>3 DEF TailorSave
  <2>2. QED
    BY <1>1, <2>1, SlotsStep
<1>4. CASE TailorSkip(t) \/ TailorRaises(t)
  <2>1. CASE TailorSkip(t)
    <3>1. Allowed
      BY <2>1 DEF TailorSkip
    <3>2. QED
      BY <1>1, <3>1, SlotsStep
  <2>2. CASE TailorRaises(t)
    <3>1. Allowed
      BY <2>2 DEF TailorRaises
    <3>2. QED
      BY <1>1, <3>1, SlotsStep
  <2>3. QED
    BY <1>4, <2>1, <2>2
<1>5. CASE TailorLost(t)
  <2>1. Allowed
    BY <1>5 DEF TailorLost, FreeTask
  <2>2. QED
    BY <1>1, <2>1, SlotsStep
<1>6. CASE Start(t)
  <2>1. Allowed
    BY <1>6 DEF Start, FreeTask
  <2>2. QED
    BY <1>1, <2>1, SlotsStep
<1>7. CASE Gate(t)
  <2>a. \/ \E out \in {"no_quota", "needs_info"} :
              x = [task[t] EXCEPT !.pc = "record", !.out = out]
        \/ x = [task[t] EXCEPT !.pc = "apply"] /\ used < PlanLimit
    BY <1>7 DEF Gate, CanApply
  <2>1. /\ t \in Running /\ UNCHANGED used /\ task[t].out # "submitted"
        /\ \/ x.pc = "record" /\ x.out \in {"no_quota", "needs_info"}
           \/ x.pc = "apply" /\ x.out # "submitted" /\ used < PlanLimit
    BY <1>7, <2>a DEF Gate
  <2>2. Allowed
    BY <2>1
  <2>3. QED
    BY <1>1, <2>2, SlotsStep
<1>8. CASE Adapter(t)
  <2>1. Allowed
    BY <1>8 DEF Adapter
  <2>2. QED
    BY <1>1, <2>1, SlotsStep
<1>9. CASE Record(t)
  <2>1. Allowed
    BY <1>9 DEF Record, FreeTask
  <2>2. QED
    BY <1>1, <2>1, SlotsStep
<1>10. CASE Meter(t)
  <2>1. Allowed
    BY <1>10 DEF Meter, FreeTask
  <2>2. QED
    BY <1>1, <2>1, SlotsStep
<1>11. CASE TaskRaises(t)
  <2>1. x = [FreeTask EXCEPT !.pc = "queued", !.row = task[t].row, !.tries = 1]
    BY <1>11 DEF TaskRaises
  <2>2. UNCHANGED used /\ t \in Running
    BY <1>11 DEF TaskRaises
  <2>3. x.pc = "queued" /\ x.out = "none"
    BY <2>1 DEF FreeTask
  <2>4. Allowed
    BY <2>2, <2>3
  <2>5. QED
    BY <1>1, <2>4, SlotsStep
<1>12. CASE TaskFails(t) \/ TaskKilled(t)
  <2>1. Allowed
    BY <1>12 DEF TaskFails, TaskKilled, FreeTask
  <2>2. QED
    BY <1>1, <2>1, SlotsStep
<1>13. CASE WorkerLost(t)
  <2>1. Allowed
    BY <1>13 DEF WorkerLost
  <2>2. QED
    BY <1>1, <2>1, SlotsStep
<1>14. QED
  BY <1>2, <1>3, <1>4, <1>5, <1>6, <1>7, <1>8, <1>9, <1>10, <1>11, <1>12, <1>13 DEF TaskAction

\* A published message holds no slot.
LEMMA FeederSlotsHeld ==
  ASSUME TypeOK, TypeOK', SlotsHeld, NEW f \in Feeders, FeederAction(f)
  PROVE  SlotsHeld'
<1>1. CASE \E t \in Tasks : Publish(f, t)
  <2>1. PICK t \in Tasks : Publish(f, t)
    BY <1>1
  <2> DEFINE x == task'[t]
  <2>2. TaskStep(t, x) /\ x \in TaskRecord /\ used' = used
    BY <2>1 DEF Publish, TaskStep, TypeOK
  <2>3. x.pc \in {"tailor", "queued"} /\ x.out = "none"
    BY <2>1 DEF Publish, TaskStep, FreeTask, TypeOK
  <2>4. QED
    BY <2>2, <2>3, SlotsStep DEF RunningPc, Spends
<1>2. CASE ~ \E t \in Tasks : Publish(f, t)
  <2>1. UNCHANGED <<task, used>>
    BY <1>2 DEF FeederAction, ApplyBatch, SweepCount, SweepEligible, SweepPick, Verified,
                VerifiedPick, BatchBreak, PublishFails, FeederDies, ApplyNow, QueueRow
  <2>2. QED
    BY <2>1, SlotsUnchanged
<1>3. QED
  BY <1>1, <1>2

\* SlotsHeld is inductive relative to TypeOK.
LEMMA NextSlotsHeld == TypeOK /\ TypeOK' /\ SlotsHeld /\ [Next]_vars => SlotsHeld'
<1> SUFFICES ASSUME TypeOK, TypeOK', SlotsHeld, [Next]_vars PROVE SlotsHeld'
  OBVIOUS
<1>1. ASSUME NEW r \in Rows, RowAction(r) PROVE SlotsHeld'
  BY <1>1, SlotsUnchanged DEF RowAction, Match, ReapJob, EditRead, StopCancel, SetStatus
<1>2. CASE UserAction
  BY <1>2, SlotsUnchanged DEF UserAction, SetRunning, StopScan, StopFinish, EditSave,
                              PurgeScan, PurgeDelete
<1>3. CASE UNCHANGED vars
  BY <1>3, SlotsUnchanged DEF vars
<1>4. QED
  BY <1>1, <1>2, <1>3, FeederSlotsHeld, TaskSlotsHeld DEF Next

-----------------------------------------------------------------------------
(* Evidence. *)

\* A run that is about to record or meter a submission has one to show for it.
LEMMA OwedReceived ==
  ASSUME TypeOK, Proven, NEW t \in Tasks, task[t].out = "submitted"
  PROVE  task[t].row \in Rows /\ received[task[t].row] > 0
<1> DEFINE r == task[t].row
<1>1. r \in Rows
  BY DEF TypeOK, TaskRecord
<1>2. t \in Owed(r) /\ Owed(r) \in SUBSET Tasks
  BY DEF Owed
<1>3. Cardinality(Owed(r) \ {t}) \in Nat
  BY <1>2, Tally DEF Owed
<1>4. Cardinality(Owed(r)) > 0
  BY <1>2, <1>3, Tally
<1>5. charged[r] + Cardinality(Owed(r)) <= received[r] /\ Cardinality(Owed(r)) \in Nat
  BY <1>1, <1>2, Tally DEF Proven
<1>6. QED
  BY <1>1, <1>4, <1>5 DEF TypeOK

\* A save of a status that is, or is not, "submitted".
LEMMA SaveProven ==
  ASSUME TypeOK, Proven, NEW r \in Rows, NEW status, Save(r, status),
         status = "submitted" => received[r] > 0, UNCHANGED received
  PROVE  \A q \in Rows : row'[q] = "submitted" => received'[q] > 0
  BY DEF Save, Proven, TypeOK

\* Steps of a task that neither start a submission nor charge one.
LEMMA OwedKept ==
  ASSUME TypeOK, Proven, NEW t \in Tasks, NEW x, TaskStep(t, x),
         x.out = "submitted" => x.row = task[t].row /\ task[t].out = "submitted",
         UNCHANGED <<received, charged>>
  PROVE  \A r \in Rows : charged'[r] + Cardinality(Owed(r)') <= received'[r]
<1> TAKE r \in Rows
<1>1. Owed(r)' \in SUBSET Owed(r) /\ Owed(r) \in SUBSET Tasks
  BY DEF Owed, TaskStep, TypeOK
<1>2. Cardinality(Owed(r)') <= Cardinality(Owed(r))
  BY <1>1, TallySubset
<1>3. /\ Cardinality(Owed(r)) \in Nat
      /\ Cardinality(Owed(r)') \in Nat
  BY <1>1, Tally
<1>4. QED
  BY <1>2, <1>3 DEF Proven, TypeOK

\* The same for steps that leave every task alone.
LEMMA OwedUnchanged ==
  ASSUME TypeOK, Proven, UNCHANGED <<task, received, charged>>
  PROVE  \A r \in Rows : charged'[r] + Cardinality(Owed(r)') <= received'[r]
  BY DEF Owed, Proven

\* What happens to a row from outside leaves every copy of it accounted for.
LEMMA RowProven ==
  ASSUME TypeOK, Proven, NEW r \in Rows, RowAction(r)
  PROVE  Proven'
<1>1. UNCHANGED <<task, received, charged>>
  BY DEF RowAction, Match, ReapJob, EditRead, StopCancel, SetStatus, world
<1>2. \A q \in Rows : row'[q] = "submitted" => received'[q] > 0
  <2>1. UNCHANGED row \/ \E status \in Statuses \ {"submitted"} : Save(r, status)
    BY DEF RowAction, Match, ReapJob, EditRead, StopCancel, SetStatus, UserSettable, Statuses
  <2>2. QED
    BY <1>1, <2>1, SaveProven DEF Proven
<1>3. edit'.row \in Rows /\ edit'.snap = "submitted" => received'[edit'.row] > 0
  BY <1>1 DEF RowAction, Match, ReapJob, EditRead, StopCancel, SetStatus, Proven
<1>4. QED
  BY <1>1, <1>2, <1>3, OwedUnchanged DEF Proven

\* A letter edit writes back a status it read: if "submitted", already received.
LEMMA UserProven ==
  ASSUME TypeOK, Proven, UserAction
  PROVE  Proven'
<1>1. UNCHANGED <<task, received, charged>>
  BY DEF UserAction, SetRunning, StopScan, StopFinish, EditSave, PurgeScan, PurgeDelete, world
<1>2. \A q \in Rows : row'[q] = "submitted" => received'[q] > 0
  <2>1. CASE EditSave
    <3>1. edit.row \in Rows
      BY <2>1 DEF EditSave, TypeOK
    <3>2. QED
      BY <1>1, <2>1, <3>1, SaveProven DEF EditSave, Proven
  <2>2. CASE PurgeDelete
    BY <1>1, <2>2 DEF PurgeDelete, Proven
  <2>3. CASE UNCHANGED row
    BY <1>1, <2>3 DEF Proven
  <2>4. QED
    BY <2>1, <2>2, <2>3 DEF UserAction, SetRunning, StopScan, StopFinish, PurgeScan
<1>3. edit'.row \in Rows /\ edit'.snap = "submitted" => received'[edit'.row] > 0
  BY <1>1, RowsAssumption
     DEF UserAction, SetRunning, StopScan, StopFinish, EditSave, PurgeScan, PurgeDelete, Proven
<1>4. QED
  BY <1>1, <1>2, <1>3, OwedUnchanged DEF Proven

\* Feeders write "queued" and "matched" only, and publish messages that owe nothing.
LEMMA FeederProven ==
  ASSUME TypeOK, Proven, NEW f \in Feeders, FeederAction(f)
  PROVE  Proven'
<1> USE DEF FeederAction, ApplyBatch, SweepCount, SweepEligible, SweepPick, Verified,
            VerifiedPick, BatchBreak, PublishFails, FeederDies, ApplyNow, QueueRow, Publish
<1>1. UNCHANGED <<edit, received, charged>>
  BY DEF world
<1>2. \A q \in Rows : row'[q] = "submitted" => received'[q] > 0
  <2>1. \/ UNCHANGED row
        \/ \E r \in Rows : Save(r, "queued")
        \/ feeder[f].cur \in Rows /\ Save(feeder[f].cur, "matched")
    BY DEF FeederAt, FeederRecord, TypeOK
  <2>2. QED
    BY <1>1, <2>1, SaveProven DEF Proven
<1>3. CASE UNCHANGED task
  BY <1>1, <1>2, <1>3, OwedUnchanged DEF Proven
<1>4. CASE \E t \in Tasks : Publish(f, t)
  <2>1. PICK t \in Tasks, pc \in {"tailor", "queued"} :
          TaskStep(t, [FreeTask EXCEPT !.pc = pc, !.row = feeder[f].cur])
    BY <1>4
  <2> DEFINE x == [FreeTask EXCEPT !.pc = pc, !.row = feeder[f].cur]
  <2>2. x.out = "none" /\ x.snap = "none"
    BY DEF FreeTask
  <2>3. \A r \in Rows : charged'[r] + Cardinality(Owed(r)') <= received'[r]
    BY <1>1, <2>1, <2>2, OwedKept
  <2>4. \A u \in Tasks : task'[u].row \in Rows /\ task'[u].snap = "submitted"
                         => received'[task'[u].row] > 0
    BY <1>1, <2>1, <2>2 DEF Proven, TaskStep, TypeOK
  <2>5. QED
    BY <1>1, <1>2, <2>3, <2>4 DEF Proven
<1>5. QED
  BY <1>3, <1>4

\* adapter.apply: a confirmed submission is received as it becomes owed.
LEMMA AdapterOwed ==
  ASSUME TypeOK, Proven, NEW t \in Tasks, Adapter(t)
  PROVE  \A r \in Rows : charged'[r] + Cardinality(Owed(r)') <= received'[r]
<1> DEFINE r0 == task[t].row
<1>0. task[t] \in TaskRecord /\ r0 \in Rows /\ task[t].out # "submitted"
  BY DEF Adapter, At, TypeOK, TaskRecord
<1>1. PICK out \in {"needs_info", "awaiting", "submitted"} :
        /\ TaskStep(t, [task[t] EXCEPT !.pc = "record", !.out = out])
        /\ received' = [received EXCEPT ![r0] = @ + IF out = "submitted" THEN 1 ELSE 0]
  BY DEF Adapter
<1>2. UNCHANGED charged
  BY DEF Adapter
<1> TAKE r \in Rows
<1>3. Owed(r) \in SUBSET Tasks /\ t \notin Owed(r)
  BY <1>0 DEF Owed
<1>4. Owed(r)' = IF out = "submitted" /\ r = r0 THEN Owed(r) \cup {t} ELSE Owed(r)
  BY <1>0, <1>1 DEF Owed, TaskStep, TypeOK
<1>5. /\ Cardinality(Owed(r)) \in Nat
      /\ Cardinality(Owed(r) \cup {t}) = Cardinality(Owed(r)) + 1
  BY <1>3, Tally
<1>6. charged[r] + Cardinality(Owed(r)) <= received[r]
  BY DEF Proven
<1>7. received'[r] = received[r] + IF out = "submitted" /\ r = r0 THEN 1 ELSE 0
  BY <1>0, <1>1 DEF TypeOK
<1>8. QED
  BY <1>2, <1>4, <1>5, <1>6, <1>7 DEF TypeOK

\* increment_application_usage: it is no longer owed once it is charged.
LEMMA MeterOwed ==
  ASSUME TypeOK, Proven, NEW t \in Tasks, Meter(t)
  PROVE  \A r \in Rows : charged'[r] + Cardinality(Owed(r)') <= received'[r]
<1> DEFINE r0 == task[t].row
<1>0. r0 \in Rows /\ task[t].out = "submitted"
  BY DEF Meter, At, TypeOK, TaskRecord
<1> TAKE r \in Rows
<1>1. Owed(r) \in SUBSET Tasks
  BY DEF Owed
<1>2. Owed(r)' = Owed(r) \ {t}
  BY DEF Meter, Owed, TaskStep, FreeTask, TypeOK
<1>3. t \in Owed(r) <=> r = r0
  BY <1>0 DEF Owed
<1>4. /\ Cardinality(Owed(r)) \in Nat
      /\ Cardinality(Owed(r) \ {t}) =
            IF t \in Owed(r) THEN Cardinality(Owed(r)) - 1 ELSE Cardinality(Owed(r))
  BY <1>1, Tally
<1>5. charged'[r] = IF r = r0 THEN charged[r] + 1 ELSE charged[r]
  BY <1>0 DEF Meter, TypeOK
<1>6. UNCHANGED received
  BY DEF Meter
<1>7. QED
  BY <1>2, <1>3, <1>4, <1>5, <1>6 DEF Proven, TypeOK

\* The task steps; <1>5 covers those that write no row and move no count.
LEMMA TaskProven ==
  ASSUME TypeOK, TypeOK', Proven, NEW t \in Tasks, TaskAction(t)
  PROVE  Proven'
<1> DEFINE x == task[t]
           new == task'[t]
           RowsOK == \A q \in Rows : row'[q] = "submitted" => received'[q] > 0
           SnapOK == new.row \in Rows /\ new.snap = "submitted" => received'[new.row] > 0
           OwedOK == \A r \in Rows : charged'[r] + Cardinality(Owed(r)') <= received'[r]
<1>0. /\ x \in TaskRecord
      /\ new \in TaskRecord
      /\ x.pc # "free" => x.row \in Rows
  BY DEF TypeOK, TaskRecord
<1>1. TaskStep(t, new)
  BY DEF TaskAction, TaskStep, TypeOK, TailorRead, TailorSave, TailorSkip, TailorRaises, TailorLost, Start,
         Gate, Adapter, Record, Meter, TaskRaises, TaskFails, TaskKilled, WorkerLost
<1>2. \A r \in Rows : received'[r] >= received[r]
  BY <1>0 DEF TaskAction, TypeOK, TailorRead, TailorSave, TailorSkip, TailorRaises, TailorLost, Start,
         Gate, Adapter, Record, Meter, TaskRaises, TaskFails, TaskKilled, WorkerLost, world, At
<1>3. UNCHANGED edit
  BY DEF TaskAction, TailorRead, TailorSave, TailorSkip, TailorRaises, TailorLost, Start,
         Gate, Adapter, Record, Meter, TaskRaises, TaskFails, TaskKilled, WorkerLost
<1>4. ASSUME RowsOK, SnapOK, OwedOK PROVE Proven'
  <2>1. \A u \in Tasks : task'[u].row \in Rows /\ task'[u].snap = "submitted"
                         => received'[task'[u].row] > 0
    BY <1>1, <1>2, <1>4 DEF Proven, TaskStep, TypeOK
  <2>2. edit'.row \in Rows /\ edit'.snap = "submitted" => received'[edit'.row] > 0
    BY <1>2, <1>3 DEF Proven, TypeOK
  <2>3. QED
    BY <1>4, <2>1, <2>2 DEF Proven
<1>5. ASSUME UNCHANGED <<row, received, charged>>,
             new.out = "submitted" => new.row = x.row /\ x.out = "submitted",
             new.snap = "none" \/ (new.row = x.row /\ new.snap \in {x.snap, row[x.row]})
      PROVE  Proven'
  <2>1. RowsOK
    BY <1>5 DEF Proven
  <2>2. SnapOK
    BY <1>5 DEF Proven
  <2>3. OwedOK
    BY <1>1, <1>5, OwedKept
  <2>4. QED
    BY <1>4, <2>1, <2>2, <2>3
<1> USE <1>0 DEF At, TaskStep, world, TaskRecord, TypeOK
<1>6. CASE TailorRead(t)
  <2>1. \/ new = [x EXCEPT !.pc = "queued"]
        \/ new = [x EXCEPT !.pc = "tailoring", !.snap = row[x.row]]
    BY <1>6 DEF TailorRead
  <2>2. QED
    BY <1>5, <1>6, <2>1 DEF TailorRead
<1>7. CASE TailorSave(t)
  <2>1. x.snap = "submitted" => received[x.row] > 0
    BY <1>7 DEF TailorSave, Proven
  <2>2. RowsOK
    BY <1>7, <2>1, SaveProven DEF TailorSave
  <2>3. new.snap = "none" /\ new.out = x.out /\ x.out # "submitted"
    BY <1>7 DEF TailorSave
  <2>4. OwedOK
    BY <1>1, <1>7, <2>3, OwedKept DEF TailorSave
  <2>5. QED
    BY <1>4, <2>2, <2>3, <2>4
<1>8. CASE TailorSkip(t) \/ TailorRaises(t)
  <2>1. CASE TailorSkip(t)
    BY <1>5, <2>1 DEF TailorSkip
  <2>2. CASE TailorRaises(t)
    BY <1>5, <2>2 DEF TailorRaises
  <2>3. QED
    BY <1>8, <2>1, <2>2
<1>9. CASE TailorLost(t)
  BY <1>5, <1>9 DEF TailorLost, FreeTask
<1>10. CASE Start(t)
  BY <1>5, <1>10 DEF Start, FreeTask
<1>11. CASE Gate(t)
  <2>1. \/ \E out \in {"no_quota", "needs_info"} : new = [x EXCEPT !.pc = "record", !.out = out]
        \/ new = [x EXCEPT !.pc = "apply"]
    BY <1>11 DEF Gate
  <2>2. QED
    BY <1>5, <1>11, <2>1 DEF Gate
<1>12. CASE Adapter(t)
  <2>1. UNCHANGED row /\ new.row = x.row /\ new.snap = x.snap
    BY <1>12 DEF Adapter
  <2>2. RowsOK
    BY <1>2, <2>1 DEF Proven
  <2>3. SnapOK
    <3>1. x.row \in Rows /\ x.snap = "submitted" => received[x.row] > 0
      BY DEF Proven
    <3>2. x.row \in Rows => received[x.row] \in Nat /\ received'[x.row] \in Nat
      OBVIOUS
    <3>3. QED
      BY <1>2, <2>1, <3>1, <3>2
  <2>4. QED
    BY <1>4, <1>12, <2>2, <2>3, AdapterOwed
<1>13. CASE Record(t)
  <2>1. StatusFor(x.out) = "submitted" => x.out = "submitted"
    BY <1>13 DEF Record, StatusFor, Outcomes
  <2>2. x.out = "submitted" => received[x.row] > 0
    BY OwedReceived
  <2>3. RowsOK
    BY <1>13, <2>1, <2>2, SaveProven DEF Record
  <2>4. \/ new = [x EXCEPT !.pc = "meter"]
        \/ new = FreeTask
    BY <1>13 DEF Record
  <2>5. OwedOK
    BY <1>1, <1>13, <2>4, OwedKept DEF Record, FreeTask
  <2>6. SnapOK
    BY <1>13, <2>4 DEF Record, FreeTask, Proven
  <2>7. QED
    BY <1>4, <2>3, <2>5, <2>6
<1>14. CASE Meter(t)
  <2>1. RowsOK /\ SnapOK
    BY <1>14 DEF Meter, FreeTask, Proven
  <2>2. QED
    BY <1>4, <1>14, <2>1, MeterOwed
<1>15. CASE TaskRaises(t)
  <2>1. new = [FreeTask EXCEPT !.pc = "queued", !.row = x.row, !.tries = 1]
    BY <1>15 DEF TaskRaises
  <2>2. UNCHANGED <<row, received, charged>>
    BY <1>15 DEF TaskRaises, world
  <2>3. new.out = "none" /\ new.snap = "none"
    BY <2>1 DEF FreeTask
  <2>4. QED
    BY <1>5, <2>2, <2>3
<1>16. CASE TaskFails(t) \/ TaskKilled(t)
  BY <1>5, <1>16 DEF TaskFails, TaskKilled, FreeTask
<1>17. CASE WorkerLost(t)
  BY <1>5, <1>17 DEF WorkerLost, Running
<1>18. QED
  BY <1>6, <1>7, <1>8, <1>9, <1>10, <1>11, <1>12, <1>13, <1>14, <1>15, <1>16, <1>17
     DEF TaskAction

-----------------------------------------------------------------------------
(* The inductive invariant and what follows from it. *)

\* The inductive invariant holds at the start ...
LEMMA InitIInv == Init => IInv
<1> SUFFICES ASSUME Init PROVE IInv
  OBVIOUS
<1>1. Running = {} /\ Spending = {} /\ \A r \in Rows : Owed(r) = {}
  BY DEF Init, FreeTask, Running, Spending, Owed, At
<1>2. SlotsHeld
  BY <1>1, FS_EmptySet, SlotsAssumption, LimitAssumption DEF SlotsHeld, Init
<1>3. Proven
  <2>1. \A r \in Rows : charged[r] + Cardinality(Owed(r)) <= received[r]
    BY <1>1, FS_EmptySet DEF Init
  <2>2. QED
    BY <2>1, RowsAssumption DEF Proven, Init, FreeTask
<1>4. QED
  BY <1>2, <1>3, InitTypeOK DEF IInv

\* ... and every step keeps it.
LEMMA NextIInv == IInv /\ [Next]_vars => IInv'
<1> SUFFICES ASSUME IInv, [Next]_vars PROVE IInv'
  OBVIOUS
<1>1. TypeOK /\ Proven /\ SlotsHeld
  BY DEF IInv
<1>2. TypeOK'
  BY <1>1, NextTypeOK
<1>3. SlotsHeld'
  BY <1>1, <1>2, NextSlotsHeld
<1>4. Proven'
  <2>1. CASE UNCHANGED vars
    BY <1>1, <2>1, OwedUnchanged DEF vars, Proven
  <2>2. QED
    BY <1>1, <1>2, <2>1, RowProven, UserProven, FeederProven, TaskProven DEF Next
<1>5. QED
  BY <1>2, <1>3, <1>4 DEF IInv

\* The inductive invariant holds throughout, for every instance.
THEOREM Invariance == Spec => []IInv
  BY InitIInv, NextIInv, PTL DEF Spec

\* A row says "submitted", and the plan is charged, only for applications the
\* employer's page confirmed: whatever stale copies are saved, whatever crashes.
THEOREM EvidenceCorrect == Spec => []Evidence
<1>1. IInv => Evidence
  <2> SUFFICES ASSUME IInv, NEW r \in Rows
               PROVE  (row[r] = "submitted" => received[r] > 0) /\ charged[r] <= received[r]
    BY DEF Evidence
  <2>1. Cardinality(Owed(r)) \in Nat
    <3>1. Owed(r) \in SUBSET Tasks
      BY DEF Owed
    <3>2. QED
      BY <3>1, TasksFinite, FS_Subset, FS_CardinalityType
  <2>2. QED
    BY <2>1 DEF IInv, Proven, TypeOK
<1>2. QED
  BY <1>1, Invariance, PTL

\* However many feeders, rows, crashes and retries: the plan limit is passed by
\* fewer applications than the "apply" worker has slots.
THEOREM OvershootCorrect == Spec => []OvershootBounded
<1>1. IInv => OvershootBounded
  <2> SUFFICES ASSUME IInv PROVE OvershootBounded
    OBVIOUS
  <2>1. Cardinality(Spending) \in Nat
    <3>1. Spending \in SUBSET Tasks
      BY DEF Spending
    <3>2. QED
      BY <3>1, TasksFinite, FS_Subset, FS_CardinalityType
  <2>2. QED
    BY <2>1, LimitAssumption, SlotsAssumption DEF IInv, SlotsHeld, OvershootBounded, TypeOK
<1>2. QED
  BY <1>1, Invariance, PTL

-----------------------------------------------------------------------------
(* Refinement of ApplicationLedger. *)

\* Saving one status is a claim or a withdrawal of that row.
LEMMA SaveMaps ==
  ASSUME TypeOK, NEW r \in Rows, NEW status, Save(r, status),
         status = "submitted" => received[r] > 0, UNCHANGED <<received, charged>>
  PROVE  Ledger!Next
<1>1. In({"submitted"})' = IF status = "submitted" THEN In({"submitted"}) \cup {r}
                                                  ELSE In({"submitted"}) \ {r}
  BY DEF Save, In, TypeOK
<1>2. CASE status = "submitted"
  BY <1>1, <1>2 DEF Ledger!Next, Ledger!Claim
<1>3. CASE status # "submitted"
  BY <1>1, <1>3 DEF Ledger!Next, Ledger!Withdraw
<1>4. QED
  BY <1>2, <1>3

\* A step that moves none of the three is a stutter.
LEMMA StutterMaps ==
  ASSUME UNCHANGED <<row, received, charged>>
  PROVE  UNCHANGED Ledger!ledger
  BY DEF In, Ledger!ledger

\* The initial states of the engine are initial states of the ledger.
LEMMA InitMaps == Init => Ledger!Init
  BY DEF Init, In, Ledger!Init

\* Every step of the engine is a step of the ledger, or a stutter.
LEMMA NextMaps ==
  ASSUME IInv, IInv', [Next]_vars
  PROVE  [Ledger!Next]_(Ledger!ledger)
<1>0. TypeOK /\ TypeOK' /\ Proven /\ Proven'
  BY DEF IInv
<1>1. CASE UNCHANGED vars
  BY <1>1, StutterMaps DEF vars
<1>2. ASSUME NEW r \in Rows, RowAction(r) PROVE [Ledger!Next]_(Ledger!ledger)
  <2>1. UNCHANGED <<received, charged>>
    BY <1>2 DEF RowAction, Match, ReapJob, EditRead, StopCancel, SetStatus, world
  <2>2. UNCHANGED row \/ \E status \in Statuses \ {"submitted"} : Save(r, status)
    BY <1>2 DEF RowAction, Match, ReapJob, EditRead, StopCancel, SetStatus, UserSettable, Statuses
  <2>3. QED
    BY <1>0, <2>1, <2>2, SaveMaps, StutterMaps
<1>3. CASE UserAction
  <2>1. UNCHANGED <<received, charged>>
    BY <1>3 DEF UserAction, SetRunning, StopScan, StopFinish, EditSave, PurgeScan, PurgeDelete, world
  <2>2. CASE EditSave
    <3>1. edit.row \in Rows /\ Save(edit.row, edit.snap)
      BY <1>0, <2>2 DEF EditSave, TypeOK
    <3>2. edit.snap = "submitted" => received[edit.row] > 0
      BY <1>0, <3>1 DEF Proven
    <3>3. QED
      BY <1>0, <2>1, <3>1, <3>2, SaveMaps
  <2>3. CASE PurgeDelete
    <3>1. In({"submitted"})' = In({"submitted"}) \ purging
      BY <1>0, <2>3 DEF PurgeDelete, In, TypeOK
    <3>2. purging \in SUBSET Rows
      BY <1>0 DEF TypeOK
    <3>3. Ledger!Withdraw(purging)
      BY <2>1, <3>1 DEF Ledger!Withdraw
    <3>4. QED
      BY <3>2, <3>3 DEF Ledger!Next
  <2>4. CASE UNCHANGED row
    BY <2>1, <2>4, StutterMaps
  <2>5. QED
    BY <1>3, <2>2, <2>3, <2>4 DEF UserAction, SetRunning, StopScan, StopFinish, PurgeScan
<1>4. ASSUME NEW f \in Feeders, FeederAction(f) PROVE [Ledger!Next]_(Ledger!ledger)
  <2> USE <1>4 DEF FeederAction, ApplyBatch, SweepCount, SweepEligible, SweepPick, Verified,
        VerifiedPick, BatchBreak, PublishFails, FeederDies, ApplyNow, QueueRow, Publish
  <2>1. UNCHANGED <<received, charged>>
    BY DEF world
  <2>2. \/ UNCHANGED row
        \/ \E r \in Rows : Save(r, "queued")
        \/ feeder[f].cur \in Rows /\ Save(feeder[f].cur, "matched")
    BY <1>0 DEF FeederAt, FeederRecord, TypeOK
  <2>3. QED
    BY <1>0, <2>1, <2>2, SaveMaps, StutterMaps
<1>5. ASSUME NEW t \in Tasks, TaskAction(t) PROVE [Ledger!Next]_(Ledger!ledger)
  <2> DEFINE x == task[t]
  <2>0. x \in TaskRecord /\ (x.pc # "free" => x.row \in Rows)
    BY <1>0 DEF TypeOK, TaskRecord
  <2>1. CASE Adapter(t)
    <3>1. x.row \in Rows /\ UNCHANGED <<row, charged>>
      BY <2>0, <2>1 DEF Adapter, At
    <3>2. UNCHANGED received \/ received' = [received EXCEPT ![x.row] = @ + 1]
      <4>1. PICK out \in {"needs_info", "awaiting", "submitted"} :
              received' = [received EXCEPT ![x.row] = @ + IF out = "submitted" THEN 1 ELSE 0]
        BY <2>1 DEF Adapter
      <4>2. CASE out = "submitted"
        BY <4>1, <4>2
      <4>3. CASE out # "submitted"
        <5>1. received' = [received EXCEPT ![x.row] = received[x.row] + 0]
          BY <4>1, <4>3
        <5>2. received \in [Rows -> Nat] /\ received[x.row] + 0 = received[x.row]
          BY <1>0, <3>1 DEF TypeOK
        <5>3. QED
          BY <5>1, <5>2
      <4>4. QED
        BY <4>2, <4>3
    <3>3. CASE received' = [received EXCEPT ![x.row] = @ + 1]
      <4>1. Ledger!Receive(x.row)
        BY <3>1, <3>3 DEF Ledger!Receive, In
      <4>2. QED
        BY <3>1, <4>1 DEF Ledger!Next
    <3>4. QED
      BY <3>1, <3>2, <3>3, StutterMaps
  <2>2. CASE Meter(t)
    <3>1. PICK r \in Rows : charged' = [charged EXCEPT ![r] = @ + 1]
      BY <2>0, <2>2 DEF Meter, At
    <3>2. UNCHANGED <<row, received>>
      BY <2>2 DEF Meter
    <3>3. charged'[r] <= received'[r]
      <4>1. Owed(r)' \in SUBSET Tasks
        BY DEF Owed
      <4>2. Cardinality(Owed(r)') \in Nat
        BY <4>1, TasksFinite, FS_Subset, FS_CardinalityType
      <4>3. charged'[r] + Cardinality(Owed(r)') <= received'[r]
        BY <1>0, <2>2, MeterOwed
      <4>4. QED
        BY <1>0, <4>2, <4>3 DEF TypeOK
    <3>4. Ledger!Charge(r)
      BY <1>0, <3>1, <3>2, <3>3 DEF Ledger!Charge, In, TypeOK
    <3>5. QED
      BY <3>4 DEF Ledger!Next
  <2>3. CASE Record(t)
    <3>1. x.row \in Rows /\ Save(x.row, StatusFor(x.out)) /\ UNCHANGED <<received, charged>>
      BY <2>0, <2>3 DEF Record, At, world
    <3>2. StatusFor(x.out) = "submitted" => x.out = "submitted"
      BY <2>0, <2>3 DEF Record, At, StatusFor, Outcomes, TaskRecord
    <3>3. x.out = "submitted" => received[x.row] > 0
      BY <1>0, OwedReceived
    <3>4. QED
      BY <1>0, <3>1, <3>2, <3>3, SaveMaps
  <2>4. CASE TailorSave(t)
    <3>1. x.row \in Rows /\ Save(x.row, x.snap) /\ UNCHANGED <<received, charged>>
      BY <2>0, <2>4 DEF TailorSave, At, world
    <3>2. x.snap = "submitted" => received[x.row] > 0
      BY <1>0, <3>1 DEF Proven
    <3>3. QED
      BY <1>0, <3>1, <3>2, SaveMaps
  <2>5. CASE UNCHANGED <<row, received, charged>>
    BY <2>5, StutterMaps
  <2>6. QED
    BY <1>5, <2>1, <2>2, <2>3, <2>4, <2>5
       DEF TaskAction, TailorRead, TailorSkip, TailorRaises, TailorLost, Start, Gate, TaskRaises,
           TaskFails, TaskKilled, WorkerLost, world
<1>6. QED
  BY <1>1, <1>2, <1>3, <1>4, <1>5 DEF Next

\* The engine implements the ledger: every step of it, faults included, is a step
\* of ApplicationLedger or changes nothing the ledger speaks of.
THEOREM LedgerImplemented == Spec => ImplementsLedger
<1>1. IInv /\ IInv' /\ [Next]_vars => [Ledger!Next]_(Ledger!ledger)
  BY NextMaps
<1>2. QED
  BY <1>1, InitMaps, Invariance, PTL DEF Spec, ImplementsLedger, Ledger!Spec

-----------------------------------------------------------------------------
(* What one step of a task or a feeder does, in its fields. *)

\* Updates of a task's record.
LEMMA TaskFields ==
  ASSUME NEW x \in TaskRecord, NEW pc, NEW out, NEW snap
  PROVE  /\ [x EXCEPT !.pc = pc].pc = pc
         /\ [x EXCEPT !.pc = pc].row = x.row
         /\ [x EXCEPT !.pc = pc].tries = x.tries
         /\ [x EXCEPT !.pc = pc].out = x.out
         /\ [x EXCEPT !.pc = pc, !.out = out].pc = pc
         /\ [x EXCEPT !.pc = pc, !.out = out].row = x.row
         /\ [x EXCEPT !.pc = pc, !.out = out].tries = x.tries
         /\ [x EXCEPT !.pc = pc, !.out = out].out = out
         /\ [x EXCEPT !.pc = pc, !.snap = snap].pc = pc
         /\ [x EXCEPT !.pc = pc, !.snap = snap].row = x.row
         /\ [x EXCEPT !.pc = pc, !.snap = snap].tries = x.tries
         /\ [x EXCEPT !.pc = pc, !.snap = snap].out = x.out
         /\ [x EXCEPT !.pc = pc, !.snap = snap].snap = snap
<1>1. DOMAIN x = {"pc", "row", "tries", "out", "snap"}
  BY DEF TaskRecord
<1>2. QED
  BY <1>1

\* A step of one task leaves the others as they are.
LEMMA TaskMoves ==
  ASSUME TypeOK, NEW t \in Tasks, NEW x, TaskStep(t, x)
  PROVE  task'[t] = x /\ \A s \in Tasks : s # t => task'[s] = task[s]
  BY DEF TaskStep, TypeOK

\* The task goes on with its row and its count of retries.
GoesOn(t) == task'[t].row = task[t].row /\ task'[t].tries = task[t].tries

\* Tailoring reads the row, unless it is gone, and starts anew or ends in the queue.
LEMMA TailorMoves ==
  ASSUME TypeOK, NEW t \in Tasks,
         TailorRead(t) \/ TailorSave(t) \/ TailorSkip(t) \/ TailorRaises(t)
  PROVE  /\ GoesOn(t) /\ task'[t].out = task[t].out
         /\ \/ task'[t].pc \in {"queued", "tailor"}
            \/ /\ task'[t].pc = "tailoring" /\ TailorRead(t)
               /\ row[task[t].row] \notin Gone /\ task'[t].snap = row[task[t].row]
<1>1. task[t] \in TaskRecord
  BY DEF TypeOK
<1>2. CASE TaskStep(t, [task[t] EXCEPT !.pc = "queued"])
  <2>1. task'[t] = [task[t] EXCEPT !.pc = "queued"]
    BY <1>2, TaskMoves
  <2>2. QED
    BY <1>1, <2>1, TaskFields DEF GoesOn
<1>3. ASSUME NEW pc, NEW snap, TaskStep(t, [task[t] EXCEPT !.pc = pc, !.snap = snap])
      PROVE  GoesOn(t) /\ task'[t].out = task[t].out /\ task'[t].pc = pc /\ task'[t].snap = snap
  <2>1. task'[t] = [task[t] EXCEPT !.pc = pc, !.snap = snap]
    BY <1>3, TaskMoves
  <2>2. QED
    BY <1>1, <2>1, TaskFields DEF GoesOn
<1>4. CASE TailorRead(t)
  <2>1. CASE row[task[t].row] \in Gone \/ task[t].row \in reaped
    BY <1>2, <1>4, <2>1, <1>1, TaskMoves, TaskFields DEF TailorRead, GoesOn
  <2>2. CASE ~(row[task[t].row] \in Gone \/ task[t].row \in reaped)
    <3>1. TaskStep(t, [task[t] EXCEPT !.pc = "tailoring", !.snap = row[task[t].row]])
      BY <1>4, <2>2 DEF TailorRead
    <3>2. QED
      BY <1>3, <1>4, <2>2, <3>1
  <2>3. QED
    BY <2>1, <2>2
<1>5. CASE TailorSave(t) \/ TailorSkip(t) \/ TailorRaises(t)
  BY <1>3, <1>5 DEF TailorSave, TailorSkip, TailorRaises
<1>6. QED
  BY <1>4, <1>5

\* The task is dropped, or takes a slot because its row has not gone out.
LEMMA StartMoves ==
  ASSUME TypeOK, NEW t \in Tasks, Start(t)
  PROVE  \/ row[task[t].row] \in Gone \cup AlreadySubmitted /\ task'[t] = FreeTask
         \/ /\ row[task[t].row] \notin Gone \cup AlreadySubmitted
            /\ GoesOn(t) /\ task'[t].pc = "gate" /\ task'[t].out = task[t].out
<1>1. task[t] \in TaskRecord
  BY DEF TypeOK
<1>2. CASE row[task[t].row] \in Gone \cup AlreadySubmitted
  <2>1. TaskStep(t, FreeTask)
    BY <1>2 DEF Start
  <2>2. QED
    BY <1>2, <2>1, TaskMoves
<1>3. CASE row[task[t].row] \notin Gone \cup AlreadySubmitted
  <2>1. TaskStep(t, [task[t] EXCEPT !.pc = "gate"])
    BY <1>3 DEF Start
  <2>2. task'[t] = [task[t] EXCEPT !.pc = "gate"]
    BY <2>1, TaskMoves
  <2>3. QED
    BY <1>1, <1>3, <2>2, TaskFields DEF GoesOn
<1>4. QED
  BY <1>2, <1>3

\* The gate decides to park, or to apply for a job that is still there.
LEMMA GateMoves ==
  ASSUME TypeOK, NEW t \in Tasks, Gate(t)
  PROVE  /\ GoesOn(t)
         /\ \/ task'[t].pc = "record" /\ task'[t].out \in {"no_quota", "needs_info"}
            \/ task'[t].pc = "apply" /\ task'[t].out = task[t].out /\ task[t].row \notin reaped
<1>1. task[t] \in TaskRecord
  BY DEF TypeOK
<1>2. CASE TaskStep(t, [task[t] EXCEPT !.pc = "apply"]) /\ task[t].row \notin reaped
  <2>1. task'[t] = [task[t] EXCEPT !.pc = "apply"]
    BY <1>2, TaskMoves
  <2>2. QED
    BY <1>1, <1>2, <2>1, TaskFields DEF GoesOn
<1>3. ASSUME NEW out \in {"no_quota", "needs_info"},
             TaskStep(t, [task[t] EXCEPT !.pc = "record", !.out = out])
      PROVE  GoesOn(t) /\ task'[t].pc = "record" /\ task'[t].out = out
  <2>1. task'[t] = [task[t] EXCEPT !.pc = "record", !.out = out]
    BY <1>3, TaskMoves
  <2>2. QED
    BY <1>1, <2>1, TaskFields DEF GoesOn
<1>4. QED
  BY <1>2, <1>3 DEF Gate

\* The adapter returns an outcome; a submission, and only that, is received.
LEMMA AdapterMoves ==
  ASSUME TypeOK, NEW t \in Tasks, Adapter(t)
  PROVE  /\ GoesOn(t) /\ task'[t].pc = "record"
         /\ task'[t].out \in {"needs_info", "awaiting", "submitted"}
         /\ \A r \in Rows : received'[r] = received[r] +
               IF r = task[t].row /\ task'[t].out = "submitted" THEN 1 ELSE 0
<1>1. task[t] \in TaskRecord
  BY DEF TypeOK
<1>2. PICK out \in {"needs_info", "awaiting", "submitted"} :
        /\ received' = [received EXCEPT ![task[t].row] = @ + IF out = "submitted" THEN 1 ELSE 0]
        /\ TaskStep(t, [task[t] EXCEPT !.pc = "record", !.out = out])
  BY DEF Adapter
<1>3. task'[t] = [task[t] EXCEPT !.pc = "record", !.out = out]
  BY <1>2, TaskMoves
<1>4. GoesOn(t) /\ task'[t].pc = "record" /\ task'[t].out = out
  BY <1>1, <1>3, TaskFields DEF GoesOn
<1>5. \A r \in Rows : received'[r] = received[r] +
        IF r = task[t].row /\ out = "submitted" THEN 1 ELSE 0
  BY <1>2 DEF TypeOK
<1>6. QED
  BY <1>2, <1>4, <1>5

\* A submission is saved and goes on to be metered, anything else is saved and done.
LEMMA RecordMoves ==
  ASSUME TypeOK, NEW t \in Tasks, Record(t)
  PROVE  \/ /\ task[t].out = "submitted" /\ Save(task[t].row, "submitted")
            /\ GoesOn(t) /\ task'[t].pc = "meter" /\ task'[t].out = "submitted"
         \/ /\ task[t].out # "submitted" /\ task'[t] = FreeTask
            /\ \E status \in {"matched", "needs_info", "awaiting"} : Save(task[t].row, status)
<1>1. task[t] \in TaskRecord
  BY DEF TypeOK
<1>2. CASE task[t].out = "submitted"
  <2>1. TaskStep(t, [task[t] EXCEPT !.pc = "meter"]) /\ Save(task[t].row, "submitted")
    BY <1>2 DEF Record, StatusFor
  <2>2. task'[t] = [task[t] EXCEPT !.pc = "meter"]
    BY <2>1, TaskMoves
  <2>3. QED
    BY <1>1, <1>2, <2>1, <2>2, TaskFields DEF GoesOn
<1>3. CASE task[t].out # "submitted"
  <2>1. TaskStep(t, FreeTask)
    BY <1>3 DEF Record
  <2>2. StatusFor(task[t].out) \in {"matched", "needs_info", "awaiting"}
    BY <1>1, <1>3 DEF Record, At, TaskRecord, Outcomes, StatusFor
  <2>3. QED
    BY <1>3, <2>1, <2>2, TaskMoves DEF Record
<1>4. QED
  BY <1>2, <1>3

\* A run that raises is retried once.
LEMMA RaiseMoves ==
  ASSUME TypeOK, NEW t \in Tasks, TaskRaises(t)
  PROVE  /\ task[t].tries = 0 /\ task'[t].row = task[t].row /\ task'[t].pc = "queued"
         /\ task'[t].tries = 1 /\ task'[t].out = "none"
<1>1. task'[t] = [FreeTask EXCEPT !.pc = "queued", !.row = task[t].row, !.tries = 1]
  BY TaskMoves DEF TaskRaises
<1>2. QED
  BY <1>1 DEF FreeTask, TaskRaises

\* The message of a lost run is back in the queue.
LEMMA LostMoves ==
  ASSUME TypeOK, NEW t \in Tasks, WorkerLost(t)
  PROVE  GoesOn(t) /\ task'[t].pc = "queued" /\ task'[t].out = "none"
<1>1. task[t] \in TaskRecord
  BY DEF TypeOK
<1>2. task'[t] = [task[t] EXCEPT !.pc = "queued", !.out = "none"]
  BY TaskMoves DEF WorkerLost
<1>3. QED
  BY <1>1, <1>2, TaskFields DEF GoesOn

\* A step of a task leaves the rest of the engine alone, but for its row.
LEMMA TaskKeeps ==
  ASSUME TypeOK, NEW t \in Tasks, TaskAction(t)
  PROVE  /\ UNCHANGED <<reaped, feeder, stopping, edit, purging>>
         /\ \A s \in Tasks : s # t => task'[s] = task[s]
         /\ \A r \in Rows : r # task[t].row => row'[r] = row[r]
<1>1. UNCHANGED <<reaped, feeder, stopping, edit, purging>>
  BY DEF TaskAction, TailorRead, TailorSave, TailorSkip, TailorRaises, TailorLost, Start, Gate, Adapter, Record,
         Meter, TaskRaises, TaskFails, TaskKilled, WorkerLost
<1>2. \A s \in Tasks : s # t => task'[s] = task[s]
  BY DEF TaskAction, TailorRead, TailorSave, TailorSkip, TailorRaises, TailorLost, Start, Gate, Adapter, Record,
         Meter, TaskRaises, TaskFails, TaskKilled, WorkerLost, TaskStep, TypeOK
<1>3. UNCHANGED row \/ \E status : Save(task[t].row, status)
  BY DEF TaskAction, TailorRead, TailorSave, TailorSkip, TailorRaises, TailorLost, Start, Gate, Adapter, Record,
         Meter, TaskRaises, TaskFails, TaskKilled, WorkerLost
<1>4. \A r \in Rows : r # task[t].row => row'[r] = row[r]
  BY <1>3 DEF Save, TypeOK
<1>5. QED
  BY <1>1, <1>2, <1>4

\* A step of one feeder leaves the others as they are.
LEMMA FeederMoves ==
  ASSUME TypeOK, NEW f \in Feeders, NEW x, FeederStep(f, x)
  PROVE  /\ feeder'[f] = x /\ \A g \in Feeders : g # f => feeder'[g] = feeder[g]
         /\ x.pc = "idle" \/ UNCHANGED beside
         /\ \A g \in Feeders : g # f => beside'[g] = beside[g]
  BY DEF FeederStep, TypeOK

\* A publication makes a message of the feeder's row.
LEMMA PublishMoves ==
  ASSUME TypeOK, NEW f \in Feeders, NEW t \in Tasks, Publish(f, t)
  PROVE  /\ At(t, "free") /\ FeederAt(f, "publish") /\ feeder[f].cur \in Rows
         /\ task'[t].row = feeder[f].cur /\ task'[t].tries = 0 /\ task'[t].out = "none"
         /\ task'[t].pc \in {"tailor", "queued"} /\ (~Tailored => task'[t].pc = "queued")
         /\ \A s \in Tasks : s # t => task'[s] = task[s]
         /\ feeder'[f] = AfterTurn(f)
         /\ \A g \in Feeders : g # f => feeder'[g] = feeder[g]
         /\ UNCHANGED <<row, reaped, stopping, edit, purging, received>>
<1>1. PICK pc \in {"tailor", "queued"} :
        /\ TaskStep(t, [FreeTask EXCEPT !.pc = pc, !.row = feeder[f].cur])
        /\ ~Tailored => pc = "queued"
  BY DEF Publish
<1>2. task'[t] = [FreeTask EXCEPT !.pc = pc, !.row = feeder[f].cur]
  BY <1>1, TaskMoves
<1>3. /\ task'[t].row = feeder[f].cur /\ task'[t].tries = 0 /\ task'[t].out = "none"
      /\ task'[t].pc = pc
  BY <1>2 DEF FreeTask
<1>4. feeder[f].cur \in Rows
  BY DEF Publish, FeederAt, TypeOK, FeederRecord
<1>5. QED
  BY <1>1, <1>3, <1>4, TaskMoves, FeederMoves DEF Publish, world

\* Updates of a feeder's record.
LEMMA FeederFields ==
  ASSUME NEW x \in FeederRecord, NEW pc, NEW S, NEW r
  PROVE  /\ [x EXCEPT !.pc = pc].pc = pc
         /\ [x EXCEPT !.pc = pc].kind = x.kind
         /\ [x EXCEPT !.pc = pc].room = x.room
         /\ [x EXCEPT !.pc = pc].todo = x.todo
         /\ [x EXCEPT !.pc = pc].cur = x.cur
         /\ [x EXCEPT !.pc = pc, !.todo = S].pc = pc
         /\ [x EXCEPT !.pc = pc, !.todo = S].kind = x.kind
         /\ [x EXCEPT !.pc = pc, !.todo = S].todo = S
         /\ [x EXCEPT !.pc = pc, !.todo = S].cur = x.cur
         /\ [x EXCEPT !.pc = pc, !.cur = r].pc = pc
         /\ [x EXCEPT !.pc = pc, !.cur = r].kind = x.kind
         /\ [x EXCEPT !.pc = pc, !.cur = r].todo = x.todo
         /\ [x EXCEPT !.pc = pc, !.cur = r].cur = r
         /\ [x EXCEPT !.pc = pc, !.cur = r, !.todo = S].pc = pc
         /\ [x EXCEPT !.pc = pc, !.cur = r, !.todo = S].kind = x.kind
         /\ [x EXCEPT !.pc = pc, !.cur = r, !.todo = S].todo = S
         /\ [x EXCEPT !.pc = pc, !.cur = r, !.todo = S].cur = r
<1>1. DOMAIN x = {"pc", "kind", "room", "todo", "cur"}
  BY DEF FeederRecord
<1>2. QED
  BY <1>1

\* A loop turn ends idle, or at the next row.
LEMMA TurnMoves ==
  ASSUME TypeOK, NEW f \in Feeders
  PROVE  \/ feeder[f].todo = {} /\ AfterTurn(f) = IdleFeeder
         \/ /\ AfterTurn(f).pc = "queue" /\ AfterTurn(f).kind = feeder[f].kind
            /\ AfterTurn(f).todo = feeder[f].todo /\ AfterTurn(f).cur = NoRow
<1>1. feeder[f] \in FeederRecord
  BY DEF TypeOK
<1>2. QED
  BY <1>1, FeederFields DEF AfterTurn

\* A loop turn saves a row as queued and holds it until it is published.
LEMMA QueueMoves ==
  ASSUME TypeOK, NEW f \in Feeders, NEW r \in Rows, QueueRow(f, r)
  PROVE  /\ feeder'[f].pc = "publish" /\ feeder'[f].kind = feeder[f].kind
         /\ feeder'[f].todo = feeder[f].todo \ {r} /\ feeder'[f].cur = r
         /\ r \in feeder[f].todo /\ row' = [row EXCEPT ![r] = "queued"]
         /\ feeder[f].cur = NoRow
         /\ \A g \in Feeders : g # f => feeder'[g] = feeder[g]
         /\ UNCHANGED <<reaped, task, stopping, edit, purging, received>>
<1>1. feeder[f] \in FeederRecord
  BY DEF TypeOK
<1>2. /\ feeder'[f] = [feeder[f] EXCEPT !.pc = "publish", !.cur = r, !.todo = @ \ {r}]
      /\ \A g \in Feeders : g # f => feeder'[g] = feeder[g]
  BY DEF QueueRow, TypeOK
<1>3. feeder'[f] = [feeder[f] EXCEPT !.pc = "publish", !.cur = r, !.todo = feeder[f].todo \ {r}]
  BY <1>1, <1>2 DEF FeederRecord
<1>4. feeder[f].cur = NoRow
  BY <1>1 DEF QueueRow, FeederRecord, FeederAt
<1>5. /\ feeder'[f].pc = "publish" /\ feeder'[f].kind = feeder[f].kind
      /\ feeder'[f].todo = feeder[f].todo \ {r} /\ feeder'[f].cur = r
  BY <1>1, <1>3, FeederFields
<1>6. QED
  BY <1>2, <1>4, <1>5 DEF QueueRow, Save, world

-----------------------------------------------------------------------------
(* What an instance that leaves some events out never has. *)

\* No letter edit, no stop and no tailoring is under way where none ever begins.
Absent ==
    /\ "edit" \notin Happens => edit.row = NoRow
    /\ "stop" \notin Happens => ~stopping.on
    /\ ~Tailored => \A t \in Tasks : task[t].pc \notin {"tailor", "tailoring"}

\* Nothing is under way at the start.
LEMMA InitAbsent == Init => Absent
  BY DEF Init, Absent, FreeTask

\* Only a letter edit, a stop and a Tailored sweep begin what they do.
LEMMA NextAbsent == TypeOK /\ Absent /\ [Next]_vars => Absent'
<1> SUFFICES ASSUME TypeOK, Absent, [Next]_vars PROVE Absent'
  OBVIOUS
<1>1. CASE \E r \in Rows : RowAction(r)
  BY <1>1 DEF Absent, RowAction, Match, ReapJob, EditRead, StopCancel, SetStatus, Event, TypeOK
<1>2. CASE UserAction
  BY <1>2 DEF Absent, UserAction, SetRunning, StopScan, StopFinish, EditSave, PurgeScan,
       PurgeDelete, Event, TypeOK
<1>3. CASE \E f \in Feeders : FeederAction(f)
  <2>1. PICK f \in Feeders : FeederAction(f)
    BY <1>3
  <2>2. UNCHANGED <<edit, stopping>>
    BY <2>1 DEF FeederAction, ApplyBatch, SweepCount, SweepEligible, SweepPick, Verified,
         VerifiedPick, BatchBreak, PublishFails, FeederDies, ApplyNow, QueueRow, Publish
  <2>3. UNCHANGED task \/ \E t \in Tasks : Publish(f, t)
    BY <2>1 DEF FeederAction, ApplyBatch, SweepCount, SweepEligible, SweepPick, Verified,
         VerifiedPick, BatchBreak, PublishFails, FeederDies, ApplyNow, QueueRow
  <2>4. ~Tailored => \A t \in Tasks : task'[t].pc \notin {"tailor", "tailoring"}
    BY <2>3, PublishMoves DEF Absent
  <2>5. QED
    BY <2>2, <2>4 DEF Absent
<1>4. CASE \E t \in Tasks : TaskAction(t)
  <2>1. PICK t \in Tasks : TaskAction(t)
    BY <1>4
  <2>2. UNCHANGED <<edit, stopping>>
    BY <2>1 DEF TaskAction, TailorRead, TailorSave, TailorSkip, TailorRaises, TailorLost, Start, Gate,
         Adapter, Record, Meter, TaskRaises, TaskFails, TaskKilled, WorkerLost
  <2>3. ASSUME ~Tailored PROVE task'[t].pc \notin {"tailor", "tailoring"}
    <3>1. ~At(t, "tailor") /\ ~At(t, "tailoring")
      BY <2>3 DEF Absent, At
    <3>2. FreeTask.pc = "free"
      BY DEF FreeTask
    <3>3. CASE Start(t) \/ Gate(t) \/ Adapter(t) \/ Record(t) \/ TaskRaises(t) \/ WorkerLost(t)
      BY <3>2, <3>3, StartMoves, GateMoves, AdapterMoves, RecordMoves, RaiseMoves, LostMoves
         DEF GoesOn
    <3>4. CASE Meter(t) \/ TaskFails(t) \/ TaskKilled(t)
      BY <3>2, <3>4, TaskMoves DEF Meter, TaskFails, TaskKilled
    <3>5. QED
      BY <2>1, <3>1, <3>3, <3>4
         DEF TaskAction, TailorRead, TailorSave, TailorSkip, TailorRaises, TailorLost
  <2>4. QED
    BY <2>1, <2>2, <2>3, TaskKeeps DEF Absent
<1>5. CASE UNCHANGED vars
  BY <1>5 DEF Absent, vars
<1>6. QED
  BY <1>1, <1>2, <1>3, <1>4, <1>5 DEF Next

-----------------------------------------------------------------------------
(* Queued rows have work, where nothing takes it from them. *)

\* Nothing that takes the last holder of a queued row away from it: stale copies, processes lost
\* between a save and a publish, kills by the hard time limit, and exceptions that end a task.
NoLoss ==
    Happens \cap {"edit", "process_crash", "hard_kill", "retry_error", "task_publish_error"} = {}

\* What happens to a row from outside queues none and moves no work.
LEMMA RowQueued ==
  ASSUME TypeOK, QueuedHasWork, NEW r \in Rows, RowAction(r)
  PROVE  QueuedHasWork'
<1>1. UNCHANGED <<feeder, task>>
  BY DEF RowAction, Match, ReapJob, EditRead, StopCancel, SetStatus
<1>2. In({"queued"})' \subseteq In({"queued"})
  BY DEF RowAction, Match, ReapJob, EditRead, StopCancel, SetStatus, UserSettable, In, Save,
         TypeOK
<1>3. QED
  BY <1>1, <1>2 DEF QueuedHasWork, At

\* Nor do the switch and the purge.
LEMMA UserQueued ==
  ASSUME TypeOK, Absent, "edit" \notin Happens, QueuedHasWork, UserAction
  PROVE  QueuedHasWork'
<1>1. UNCHANGED <<feeder, task>>
  BY DEF UserAction, SetRunning, StopScan, StopFinish, EditSave, PurgeScan, PurgeDelete
<1>2. In({"queued"})' \subseteq In({"queued"})
  BY DEF Absent, UserAction, SetRunning, StopScan, StopFinish, EditSave, PurgeScan, PurgeDelete,
         In, TypeOK
<1>3. QED
  BY <1>1, <1>2 DEF QueuedHasWork, At

\* A feeder holds what it queues until a message has it, or puts it back.
LEMMA FeederQueued ==
  ASSUME TypeOK, NoLoss, QueuedHasWork, NEW f \in Feeders, FeederAction(f)
  PROVE  QueuedHasWork'
<1>1. CASE \E t \in Tasks : Publish(f, t)
  <2>1. PICK t \in Tasks : Publish(f, t)
    BY <1>1
  <2>2. task[t].row = NoRow
    BY <2>1 DEF Publish, TypeOK, TaskRecord, At
  <2>3. QED
    BY <2>1, <2>2, PublishMoves, RowsAssumption DEF QueuedHasWork, In, At
<1>2. CASE \E r \in Rows : QueueRow(f, r)
  <2>1. PICK r \in Rows : QueueRow(f, r)
    BY <1>2
  <2>2. feeder[f].cur = NoRow /\ feeder'[f].cur = r /\ UNCHANGED task
    BY <2>1, QueueMoves
  <2>3. \A g \in Feeders : g # f => feeder'[g] = feeder[g]
    BY <2>1, QueueMoves
  <2>4. \A q \in Rows : q # r => row'[q] = row[q]
    BY <2>1 DEF QueueRow, Save, TypeOK
  <2>5. QED
    BY <2>2, <2>3, <2>4, RowsAssumption DEF QueuedHasWork, In, At
<1>3. CASE PublishFails(f)
  <2>1. /\ \A g \in Feeders : g # f => feeder'[g] = feeder[g]
        /\ UNCHANGED task
    BY <1>3 DEF PublishFails, FeederStep, TypeOK
  <2>2. /\ \A q \in Rows : q # feeder[f].cur => row'[q] = row[q]
        /\ feeder[f].cur \in Rows => row'[feeder[f].cur] = "matched"
    BY <1>3 DEF PublishFails, Save, TypeOK
  <2>3. QED
    BY <2>1, <2>2 DEF QueuedHasWork, In, At
<1>4. CASE \/ ApplyBatch(f) \/ SweepCount(f) \/ SweepEligible(f) \/ SweepPick(f)
           \/ Verified(f) \/ VerifiedPick(f) \/ BatchBreak(f) \/ FeederDies(f)
           \/ \E r \in Rows : ApplyNow(f, r)
  <2>1. UNCHANGED <<row, task>> /\ feeder[f].pc # "publish"
    BY <1>4 DEF ApplyBatch, SweepCount, SweepEligible, SweepPick, Verified, VerifiedPick,
         BatchBreak, FeederDies, ApplyNow, FeederAt, Event, NoLoss
  <2>2. feeder[f].cur = NoRow
    BY <2>1 DEF TypeOK, FeederRecord
  <2>3. \A g \in Feeders : g # f => feeder'[g] = feeder[g]
    BY <1>4 DEF ApplyBatch, SweepCount, SweepEligible, SweepPick, Verified, VerifiedPick,
         BatchBreak, FeederDies, ApplyNow, FeederStep, TypeOK
  <2>4. QED
    BY <2>1, <2>2, <2>3, RowsAssumption DEF QueuedHasWork, In, At
<1>5. QED
  BY <1>1, <1>2, <1>3, <1>4 DEF FeederAction

\* A run keeps its row until it has written another status on it.
LEMMA TaskQueued ==
  ASSUME TypeOK, NoLoss, QueuedHasWork, NEW t \in Tasks, TaskAction(t)
  PROVE  QueuedHasWork'
<1>1. \/ task[t].row \notin Rows
      \/ task'[t].row = task[t].row /\ task'[t].pc # "meter"
      \/ row'[task[t].row] # "queued"
      \/ At(t, "meter") /\ UNCHANGED row
  <2>1. CASE TailorRead(t) \/ TailorSave(t) \/ TailorSkip(t) \/ TailorRaises(t)
    BY <2>1, TailorMoves DEF GoesOn
  <2>2. CASE TailorLost(t) \/ TaskFails(t) \/ TaskKilled(t)
    BY <2>2 DEF TailorLost, TaskFails, TaskKilled, Event, NoLoss
  <2>3. CASE Start(t)
    BY <2>3, StartMoves DEF Start, GoesOn, Gone, AlreadySubmitted
  <2>4. CASE Gate(t) \/ WorkerLost(t) \/ Adapter(t)
    BY <2>4, GateMoves, LostMoves, AdapterMoves DEF GoesOn
  <2>5. CASE Record(t)
    BY <2>5, RecordMoves DEF Save, TypeOK
  <2>6. CASE Meter(t)
    BY <2>6 DEF Meter
  <2>7. CASE TaskRaises(t)
    BY <2>7, RaiseMoves
  <2>8. QED
    BY <2>1, <2>2, <2>3, <2>4, <2>5, <2>6, <2>7 DEF TaskAction
<1>2. QED
  BY <1>1, TaskKeeps DEF QueuedHasWork, In, At

\* QueuedHasWork: a row the dashboard shows queued is in some feeder's or some task's hands
\* (apply.py, jobs.py), for any number of feeders, with or without tailoring, and whatever
\* workers are lost and runs retried.
THEOREM QueuedHasWorkAlways ==
  ASSUME NoLoss
  PROVE  Spec => []QueuedHasWork
<1> DEFINE J == TypeOK /\ Absent /\ QueuedHasWork
<1>1. Init => J
  BY InitTypeOK, InitAbsent DEF Init, QueuedHasWork, In
<1>2. J /\ [Next]_vars => J'
  <2> SUFFICES ASSUME J, [Next]_vars PROVE QueuedHasWork'
    BY NextTypeOK, NextAbsent
  <2>1. CASE UNCHANGED vars
    BY <2>1 DEF vars, QueuedHasWork, In, At
  <2>2. QED
    BY <2>1, RowQueued, UserQueued, FeederQueued, TaskQueued DEF Next, NoLoss
<1>3. QED
  BY <1>1, <1>2, PTL DEF Spec

-----------------------------------------------------------------------------
(* The cap on what is in flight. *)

\* What f, a sweep, has in flight by its own count, and what it has still to queue fits beside it.
Counted(f) == In({"queued"}) \ beside[f]
Fits(f) ==
    /\ feeder[f].pc \in {"eligible", "pick"} =>
          Cardinality(Counted(f)) + feeder[f].room <= MaxConcurrentPerUser
    /\ feeder[f].pc \in {"queue", "publish"} =>
          Cardinality(Counted(f)) + Cardinality(feeder[f].todo) <= MaxConcurrentPerUser
CapInv == \A f \in Feeders : feeder[f].kind = "sweep" => Fits(f)

\* A set of rows, with and without one of them.
LEMMA RowTally ==
  ASSUME NEW S \in SUBSET Rows, NEW r \in Rows
  PROVE  /\ Cardinality(S) \in Nat
         /\ Cardinality(S \cup {r}) <= Cardinality(S) + 1
         /\ r \in S => Cardinality(S \ {r}) = Cardinality(S) - 1
         /\ \A U \in SUBSET S : Cardinality(U) \in Nat /\ Cardinality(U) <= Cardinality(S)
<1>1. IsFiniteSet(S) /\ Cardinality(S) \in Nat
  BY RowsFinite, FS_Subset, FS_CardinalityType
<1>2. QED
  BY <1>1, FS_Subset, FS_CardinalityType, FS_AddElement, FS_RemoveElement

\* The sizes that the budgets are made of.
LEMMA Sizes ==
  ASSUME TypeOK, NEW f \in Feeders
  PROVE  /\ feeder[f] \in FeederRecord
         /\ Counted(f) \in SUBSET Rows /\ Cardinality(Counted(f)) \in Nat
         /\ \A U \in SUBSET Counted(f) :
               Cardinality(U) \in Nat /\ Cardinality(U) <= Cardinality(Counted(f))
         /\ feeder[f].room \in Nat
         /\ feeder[f].todo \in SUBSET Rows /\ Cardinality(feeder[f].todo) \in Nat
<1>1. /\ feeder[f] \in FeederRecord /\ feeder[f].room \in Nat
      /\ feeder[f].todo \in SUBSET Rows /\ Counted(f) \in SUBSET Rows
  BY DEF TypeOK, FeederRecord, Counted, In
<1>2. IsFiniteSet(Counted(f)) /\ IsFiniteSet(feeder[f].todo)
  BY <1>1, RowsFinite, FS_Subset
<1>3. QED
  BY <1>1, <1>2, FS_Subset, FS_CardinalityType

\* A sweep that rests while nothing it counts is added keeps its budget.
LEMMA FitsKept ==
  ASSUME TypeOK, CapInv, NEW f \in Feeders, feeder'[f] = feeder[f],
         feeder[f].pc = "idle" \/ feeder[f].kind # "sweep" \/ Counted(f)' \subseteq Counted(f)
  PROVE  feeder'[f].kind = "sweep" => Fits(f)'
<1> SUFFICES ASSUME feeder[f].kind = "sweep", feeder[f].pc # "idle" PROVE Fits(f)'
  BY DEF Fits
<1>1. Fits(f)
  BY DEF CapInv
<1>2. Cardinality(Counted(f)') \in Nat /\ Cardinality(Counted(f)') <= Cardinality(Counted(f))
  BY Sizes
<1>3. QED
  BY <1>1, <1>2, Sizes, CapAssumption DEF Fits

\* A row that somebody else queues is not among those a sweep at work counts.
LEMMA BesideUncounted ==
  ASSUME TypeOK, NEW F, NEW r \in Rows, Save(r, "queued"), QueuedBeside(F, r),
         NEW f \in Feeders, f \in F
  PROVE  feeder[f].pc = "idle" \/ feeder[f].kind # "sweep" \/ Counted(f)' \subseteq Counted(f)
<1> SUFFICES ASSUME f \in Sweeping, NEW q \in Counted(f)' PROVE q \in Counted(f)
  BY DEF Sweeping, FeederAt
<1>1. beside'[f] = IF row[r] # "queued" THEN beside[f] \cup {r} ELSE beside[f]
  BY DEF QueuedBeside
<1>2. q \in Rows /\ row'[q] = "queued" /\ q \notin beside'[f]
  BY DEF Counted, In
<1>3. q # r => row'[q] = row[q]
  BY <1>2 DEF Save, TypeOK
<1>4. QED
  BY <1>1, <1>2, <1>3 DEF Counted, In

\* A step that queues no row and moves no feeder keeps the budgets in place.
LEMMA QueuedShrinks ==
  ASSUME TypeOK, CapInv, UNCHANGED <<feeder, beside>>, In({"queued"})' \subseteq In({"queued"})
  PROVE  CapInv'
<1>1. \A f \in Feeders : Counted(f)' \subseteq Counted(f)
  BY DEF Counted
<1>2. QED
  BY <1>1, FitsKept DEF CapInv

\* Nor does one that queues a row beside every sweep.
LEMMA QueuedByOthers ==
  ASSUME TypeOK, CapInv, UNCHANGED feeder, NEW r \in Rows, Save(r, "queued"),
         QueuedBeside(Feeders, r)
  PROVE  CapInv'
  BY BesideUncounted, FitsKept DEF CapInv

\* What happens to a row from outside does not queue it.
LEMMA RowCap ==
  ASSUME TypeOK, CapInv, NEW r \in Rows, RowAction(r)
  PROVE  CapInv'
<1>1. UNCHANGED <<feeder, beside>> /\ In({"queued"})' \subseteq In({"queued"})
  BY DEF RowAction, Match, ReapJob, EditRead, StopCancel, SetStatus, UserSettable, In, Save,
         TypeOK
<1>2. QED
  BY <1>1, QueuedShrinks

\* Nor does a stop or a purge; a letter edit may, beside every sweep.
LEMMA UserCap ==
  ASSUME TypeOK, CapInv, UserAction
  PROVE  CapInv'
<1>1. CASE EditSave /\ edit.snap = "queued"
  <2>1. /\ edit.row \in Rows /\ Save(edit.row, "queued") /\ UNCHANGED feeder
        /\ QueuedBeside(Feeders, edit.row)
    BY <1>1 DEF EditSave, TypeOK
  <2>2. QED
    BY <2>1, QueuedByOthers
<1>2. CASE ~(EditSave /\ edit.snap = "queued")
  <2>1. UNCHANGED <<feeder, beside>>
    BY <1>2 DEF UserAction, SetRunning, StopScan, StopFinish, EditSave, PurgeScan, PurgeDelete
  <2>2. In({"queued"})' \subseteq In({"queued"})
    BY <1>2 DEF UserAction, SetRunning, StopScan, StopFinish, EditSave, PurgeScan, PurgeDelete,
           In, Save, TypeOK
  <2>3. QED
    BY <2>1, <2>2, QueuedShrinks
<1>3. QED
  BY <1>1, <1>2

\* Nor does a run; tailoring may write back that its row was queued, beside every sweep.
LEMMA TaskCap ==
  ASSUME TypeOK, CapInv, NEW t \in Tasks, TaskAction(t)
  PROVE  CapInv'
<1>1. UNCHANGED feeder
  BY TaskKeeps
<1>2. CASE TailorSave(t) /\ task[t].snap = "queued"
  <2>1. task[t].row \in Rows
    BY <1>2 DEF TailorSave, At, TypeOK, TaskRecord
  <2>2. Save(task[t].row, "queued") /\ QueuedBeside(Feeders, task[t].row)
    BY <1>2 DEF TailorSave
  <2>3. QED
    BY <1>1, <2>1, <2>2, QueuedByOthers
<1>3. CASE ~(TailorSave(t) /\ task[t].snap = "queued")
  <2>1. \/ UNCHANGED row
        \/ \E status : status # "queued" /\ Save(task[t].row, status)
    <3>1. CASE Record(t)
      BY <3>1, RecordMoves
    <3>2. CASE TailorSave(t)
      BY <1>3, <3>2 DEF TailorSave
    <3>3. QED
      BY <3>1, <3>2 DEF TaskAction, TailorRead, TailorSkip, TailorRaises, TailorLost, Start, Gate,
         Adapter, Meter, TaskRaises, TaskFails, TaskKilled, WorkerLost
  <2>2. In({"queued"})' \subseteq In({"queued"})
    BY <2>1 DEF In, Save, TypeOK
  <2>3. UNCHANGED beside
    BY <1>3 DEF TaskAction, TailorRead, TailorSave, TailorSkip, TailorRaises, TailorLost, Start,
       Gate, Adapter, Record, Meter, TaskRaises, TaskFails, TaskKilled, WorkerLost
  <2>4. QED
    BY <1>1, <2>2, <2>3, QueuedShrinks
<1>4. QED
  BY <1>2, <1>3

\* What one feeder does costs no other its budget.
LEMMA OtherFits ==
  ASSUME TypeOK, CapInv, NEW f \in Feeders, FeederAction(f), NEW g \in Feeders, g # f
  PROVE  feeder'[g].kind = "sweep" => Fits(g)'
<1>1. CASE \E r \in Rows : QueueRow(f, r)
  <2>1. PICK r \in Rows : QueueRow(f, r)
    BY <1>1
  <2>2. feeder'[g] = feeder[g] /\ Save(r, "queued") /\ QueuedBeside(Feeders \ {f}, r)
    BY <2>1, QueueMoves DEF QueueRow
  <2>3. feeder[g].pc = "idle" \/ feeder[g].kind # "sweep" \/ Counted(g)' \subseteq Counted(g)
    BY <2>2, BesideUncounted
  <2>4. QED
    BY <2>2, <2>3, FitsKept
<1>2. CASE ~ \E r \in Rows : QueueRow(f, r)
  <2>1. PICK x : FeederStep(f, x)
    BY <1>2 DEF FeederAction, ApplyBatch, SweepCount, SweepEligible, SweepPick, Verified,
       VerifiedPick, BatchBreak, PublishFails, FeederDies, ApplyNow, Publish
  <2>2. feeder'[g] = feeder[g] /\ beside'[g] = beside[g]
    BY <2>1, FeederMoves
  <2>3. UNCHANGED row \/ Save(feeder[f].cur, "matched")
    BY <1>2 DEF FeederAction, ApplyBatch, SweepCount, SweepEligible, SweepPick, Verified,
       VerifiedPick, BatchBreak, PublishFails, FeederDies, ApplyNow, Publish
  <2>4. In({"queued"})' \subseteq In({"queued"})
    BY <2>3 DEF In, Save, TypeOK
  <2>5. QED
    BY <2>2, <2>4, FitsKept DEF Counted
<1>3. QED
  BY <1>1, <1>2

\* What a sweep queues it had reserved.
LEMMA OwnFits ==
  ASSUME TypeOK, CapInv, NEW f \in Feeders, FeederAction(f)
  PROVE  feeder'[f].kind = "sweep" => Fits(f)'
<1> DEFINE Q == Counted(f)
<1>1. feeder[f] \in FeederRecord /\ feeder[f].todo \in SUBSET Rows /\ feeder[f].room \in Nat
  BY Sizes
<1>2. Q \in SUBSET Rows /\ Cardinality(Q) \in Nat /\ Cardinality(feeder[f].todo) \in Nat
  BY Sizes
<1>3. ASSUME UNCHANGED row, NEW x, FeederStep(f, x), x.pc # "idle" PROVE UNCHANGED Q
  <2>1. UNCHANGED beside
    BY <1>3, FeederMoves
  <2>2. QED
    BY <1>3, <2>1 DEF Counted, In
<1>4. IdleFeeder \in FeederRecord /\ IdleFeeder.pc = "idle"
  BY IdleFeederType DEF IdleFeeder
<1>5. CASE feeder'[f].pc = "idle"
  BY <1>5 DEF Fits
<1>6. CASE feeder'[f].kind # "sweep"
  BY <1>6
<1>7. CASE \E r \in Rows : QueueRow(f, r)
  <2>1. PICK r \in Rows : QueueRow(f, r)
    BY <1>7
  <2>2. Q' \subseteq Q \cup {r}
    <3>1. beside'[f] = beside[f]
      BY <2>1 DEF QueueRow, QueuedBeside
    <3>2. QED
      BY <2>1, <3>1, QueueMoves DEF Counted, In, TypeOK
  <2>3. Cardinality(Q') \in Nat /\ Cardinality(Q') <= Cardinality(Q) + 1
    <3>1. /\ Cardinality(Q \cup {r}) <= Cardinality(Q) + 1
          /\ Cardinality(Q \cup {r}) \in Nat /\ Q \cup {r} \in SUBSET Rows
      BY <1>2, RowTally
    <3>2. \A U \in SUBSET (Q \cup {r}) :
            Cardinality(U) \in Nat /\ Cardinality(U) <= Cardinality(Q \cup {r})
      BY <3>1, RowTally
    <3>3. Cardinality(Q') \in Nat /\ Cardinality(Q') <= Cardinality(Q \cup {r})
      BY <2>2, <3>2
    <3>4. QED
      BY <1>2, <3>1, <3>3
  <2>4. Cardinality(feeder[f].todo \ {r}) = Cardinality(feeder[f].todo) - 1
    BY <1>1, <2>1, QueueMoves, RowTally
  <2>5. feeder[f].kind = "sweep" =>
          Cardinality(Q) + Cardinality(feeder[f].todo) <= MaxConcurrentPerUser
    BY <2>1 DEF QueueRow, FeederAt, CapInv, Fits
  <2>6. /\ feeder'[f].pc = "publish" /\ feeder'[f].kind = feeder[f].kind
        /\ feeder'[f].todo = feeder[f].todo \ {r}
    BY <2>1, QueueMoves
  <2>7. feeder[f].kind = "sweep" =>
          Cardinality(Q') + Cardinality(feeder'[f].todo) <= MaxConcurrentPerUser
    BY <1>2, <2>3, <2>4, <2>5, <2>6, CapAssumption
  <2>8. QED
    BY <2>6, <2>7 DEF Fits
<1>8. CASE SweepPick(f)
  <2>1. PICK S \in Best(feeder[f].room, {"matched"}) :
          FeederStep(f, IF S = {} THEN IdleFeeder
                                  ELSE [feeder[f] EXCEPT !.pc = "queue", !.todo = S])
    BY <1>8 DEF SweepPick
  <2>2. CASE S = {}
    BY <1>4, <1>5, <2>1, <2>2, FeederMoves
  <2>3. CASE S # {}
    <3>1. FeederStep(f, [feeder[f] EXCEPT !.pc = "queue", !.todo = S])
      BY <2>1, <2>3
    <3>2. feeder'[f] = [feeder[f] EXCEPT !.pc = "queue", !.todo = S]
      BY <3>1, FeederMoves
    <3>3. feeder'[f].pc = "queue" /\ feeder'[f].todo = S
      BY <1>1, <3>2, FeederFields
    <3>4. Cardinality(In({"matched"})) \in Nat
      BY RowsFinite, FS_Subset, FS_CardinalityType DEF In
    <3>5. Cardinality(S) <= feeder[f].room /\ Cardinality(S) \in Nat
      BY <1>1, <3>4 DEF Best, Lesser
    <3>6. UNCHANGED row /\ feeder[f].pc = "pick" /\ feeder[f].kind = "sweep"
      BY <1>8 DEF SweepPick, FeederAt
    <3>7. Cardinality(Q) + feeder[f].room <= MaxConcurrentPerUser
      BY <3>6 DEF CapInv, Fits
    <3>8. UNCHANGED Q
      <4>1. [feeder[f] EXCEPT !.pc = "queue", !.todo = S].pc # "idle"
        BY <3>2, <3>3
      <4>2. QED
        BY <1>3, <3>1, <3>6, <4>1
    <3>9. QED
      BY <1>1, <1>2, <3>3, <3>5, <3>7, <3>8, CapAssumption DEF Fits
  <2>4. QED
    BY <2>2, <2>3
<1>9. CASE SweepCount(f)
  <2> DEFINE x == [IdleFeeder EXCEPT !.pc = "eligible",
                     !.room = MaxConcurrentPerUser - Cardinality(In({"queued"}))]
  <2>1. UNCHANGED row /\ FeederStep(f, x)
    BY <1>9 DEF SweepCount
  <2>2. x.pc = "eligible" /\ x.room = MaxConcurrentPerUser - Cardinality(In({"queued"}))
    BY DEF IdleFeeder
  <2>3. feeder'[f] = x /\ UNCHANGED Q
    BY <1>3, <2>1, <2>2, FeederMoves
  <2>4. Cardinality(In({"queued"})) \in Nat /\ Cardinality(Q) <= Cardinality(In({"queued"}))
    <3>1. IsFiniteSet(In({"queued"})) /\ Q \subseteq In({"queued"})
      BY RowsFinite, FS_Subset DEF In, Counted
    <3>2. QED
      BY <3>1, FS_Subset, FS_CardinalityType
  <2> HIDE DEF x
  <2>5. QED
    BY <1>2, <2>2, <2>3, <2>4, CapAssumption DEF Fits
<1>10. CASE SweepEligible(f)
  <2>1. CASE FeederStep(f, [feeder[f] EXCEPT !.pc = "pick"])
    <3>1. feeder'[f] = [feeder[f] EXCEPT !.pc = "pick"]
      BY <2>1, FeederMoves
    <3>2. /\ feeder'[f].pc = "pick" /\ feeder'[f].kind = feeder[f].kind
          /\ feeder'[f].room = feeder[f].room
      BY <1>1, <3>1, FeederFields
    <3>3. UNCHANGED row /\ feeder[f].pc = "eligible"
      BY <1>10 DEF SweepEligible, FeederAt
    <3>4. UNCHANGED Q
      <4>1. [feeder[f] EXCEPT !.pc = "pick"].pc # "idle"
        BY <3>1, <3>2
      <4>2. QED
        BY <1>3, <2>1, <3>3, <4>1
    <3>5. QED
      BY <3>2, <3>3, <3>4 DEF CapInv, Fits
  <2>2. CASE FeederStep(f, IdleFeeder)
    BY <1>4, <1>5, <2>2, FeederMoves
  <2>3. QED
    BY <1>10, <2>1, <2>2 DEF SweepEligible
<1>11. CASE \E t \in Tasks : Publish(f, t)
  <2>1. CASE AfterTurn(f) = IdleFeeder
    BY <1>4, <1>5, <1>11, <2>1, PublishMoves
  <2>2. CASE AfterTurn(f) # IdleFeeder
    <3>1. /\ feeder'[f].pc = "queue" /\ feeder'[f].kind = feeder[f].kind
          /\ feeder'[f].todo = feeder[f].todo /\ AfterTurn(f).pc = "queue"
      BY <1>11, <2>2, TurnMoves, PublishMoves
    <3>2. UNCHANGED row /\ feeder[f].pc = "publish" /\ FeederStep(f, AfterTurn(f))
      BY <1>11 DEF Publish, FeederAt
    <3>3. UNCHANGED Q
      BY <1>3, <3>1, <3>2
    <3>4. QED
      BY <3>1, <3>2, <3>3 DEF CapInv, Fits
  <2>3. QED
    BY <2>1, <2>2
<1>12. CASE BatchBreak(f) \/ PublishFails(f) \/ FeederDies(f)
  BY <1>4, <1>5, <1>12, FeederMoves DEF BatchBreak, PublishFails, FeederDies
<1>13. CASE ApplyBatch(f) \/ (\E r \in Rows : ApplyNow(f, r)) \/ Verified(f)
  <2>1. ASSUME NEW kind \in {"apply_batch", "apply_now"}, NEW S,
               FeederStep(f, [IdleFeeder EXCEPT !.pc = "queue", !.kind = kind, !.todo = S])
        PROVE  feeder'[f].kind # "sweep"
    <3>1. feeder'[f] = [IdleFeeder EXCEPT !.pc = "queue", !.kind = kind, !.todo = S]
      BY <2>1, FeederMoves
    <3>2. QED
      BY <3>1 DEF IdleFeeder
  <2>2. CASE Verified(f)
    <3>1. feeder'[f] = [IdleFeeder EXCEPT !.pc = "pick", !.kind = "verified"]
      BY <2>2, FeederMoves DEF Verified
    <3>2. QED
      BY <1>6, <3>1 DEF IdleFeeder
  <2>3. QED
    BY <1>6, <1>13, <2>1, <2>2 DEF ApplyBatch, ApplyNow
<1>14. CASE VerifiedPick(f)
  <2>1. PICK S :
          FeederStep(f, IF S = {} THEN IdleFeeder
                                  ELSE [feeder[f] EXCEPT !.pc = "queue", !.todo = S])
    BY <1>14 DEF VerifiedPick
  <2>2. CASE S = {}
    BY <1>4, <1>5, <2>1, <2>2, FeederMoves
  <2>3. CASE S # {}
    <3>1. feeder'[f] = [feeder[f] EXCEPT !.pc = "queue", !.todo = S]
      BY <2>1, <2>3, FeederMoves
    <3>2. feeder'[f].kind = "verified"
      BY <1>1, <1>14, <3>1, FeederFields DEF VerifiedPick
    <3>3. QED
      BY <1>6, <3>2
  <2>4. QED
    BY <2>2, <2>3
<1>15. QED
  BY <1>7, <1>8, <1>9, <1>10, <1>11, <1>12, <1>13, <1>14 DEF FeederAction

\* SweepRespectsCap: a sweep brings what is in flight above MAX_CONCURRENT_PER_USER only by the
\* rows that others queued since it counted (apply.py, _enqueue_async), for any number of sweeps
\* and handlers beside it, with stale saves, and whatever crashes, stops and purges do meanwhile.
THEOREM SweepRespectsCapAlways == Spec => []SweepRespectsCap
<1>1. Init => CapInv
  BY DEF Init, CapInv, Fits, IdleFeeder
<1>2. TypeOK /\ CapInv /\ [Next]_vars => CapInv'
  <2> SUFFICES ASSUME TypeOK, CapInv, [Next]_vars PROVE CapInv'
    OBVIOUS
  <2>1. CASE UNCHANGED vars
    BY <2>1, QueuedShrinks DEF vars, In
  <2>2. ASSUME NEW f \in Feeders, FeederAction(f) PROVE CapInv'
    BY <2>2, OwnFits, OtherFits DEF CapInv
  <2>3. QED
    BY <2>1, <2>2, RowCap, UserCap, TaskCap DEF Next
<1>3. TypeOK /\ CapInv => SweepRespectsCap
  <2> SUFFICES ASSUME TypeOK, CapInv, NEW f \in Feeders, FeederAt(f, "publish"),
                      feeder[f].kind = "sweep"
               PROVE  Cardinality(Counted(f)) <= MaxConcurrentPerUser
    BY DEF SweepRespectsCap, Counted
  <2>1. Cardinality(Counted(f)) + Cardinality(feeder[f].todo) <= MaxConcurrentPerUser
    BY DEF CapInv, Fits, FeederAt
  <2>2. QED
    BY <2>1, Sizes, CapAssumption
<1>4. QED
  BY <1>1, <1>2, <1>3, InitTypeOK, NextTypeOK, PTL DEF Spec

-----------------------------------------------------------------------------
(* One feeder at a time: a row is received once, and a submission stays. *)

\* One feeder at a time authorises work, nobody rewrites its rows, and no run that clicked is
\* repeated or lost.
OneFeeder == \E f : Feeders = {f}
Alone ==
    /\ OneFeeder
    /\ Happens \cap {"stop", "set_status", "edit", "apply_crash", "hard_kill", "task_error",
                     "retry_error"} = {}

\* A row is in the hands of one feeder or one task.
OneHolder ==
    /\ \A f \in Feeders : feeder[f].cur \notin feeder[f].todo
    /\ \A f \in Feeders, t \in Tasks : ~At(t, "free") =>
          task[t].row \notin feeder[f].todo /\ task[t].row # feeder[f].cur
    /\ \A s, t \in Tasks : ~At(s, "free") /\ task[s].row = task[t].row => s = t

\* What the row says while a feeder has it.
FeederSees ==
    \A f \in Feeders :
        /\ \A r \in feeder[f].todo : row[r] \notin {"queued", "submitted"}
        /\ feeder[f].cur \in Rows => row[feeder[f].cur] \in {"queued", "purged"}

\* What the row says while a task has it; a task that is retried has submitted it.
Sound(x) ==
    /\ x.pc \in {"tailor", "tailoring", "queued", "gate", "apply", "record"} /\ x.tries = 0 =>
          row[x.row] \in {"queued", "purged"}
    /\ x.pc = "tailoring" => x.snap = "queued"
    /\ x.pc # "queued" => x.tries = 0
    /\ x.tries = 1 => row[x.row] = "submitted"
    /\ x.pc = "apply" \/ (x.pc = "record" /\ x.out = "submitted") =>
          row[x.row] = "queued" /\ x.row \notin purging
    /\ x.pc = "meter" => row[x.row] = "submitted"
TasksSound == \A t \in Tasks : Sound(task[t])

\* The purge deletes rows whose job is gone, and none that went out.
PurgeSound ==
    /\ purging \subseteq reaped
    /\ In({"purged"}) \subseteq reaped
    /\ purging \cap In({"submitted"}) = {}

\* A row was received once, and says so, or the run that knows will.
Kept ==
    \A r \in Rows :
        /\ received[r] <= 1
        /\ received[r] > 0 => \/ row[r] = "submitted"
                              \/ \E t \in Tasks : task[t].row = r /\ At(t, "record")
                                                    /\ task[t].out = "submitted"

OnceInv == OneHolder /\ FeederSees /\ TasksSound /\ PurgeSound /\ Kept

\* What a step must not take back.
Sticks == \A r \in Rows : row[r] = "submitted" => row'[r] = "submitted"

\* The inductive invariant of this section.
Ready == TypeOK /\ Absent /\ OnceInv

\* What a row says that a task has.
LEMMA TaskSees ==
  ASSUME Ready, NEW t \in Tasks, ~At(t, "free")
  PROVE  task[t].row \in Rows /\ row[task[t].row] \in {"queued", "purged", "submitted"}
<1>1. task[t] \in TaskRecord
  BY DEF Ready, TypeOK
<1>2. task[t].row \in Rows /\ task[t].tries \in {0, 1} /\ task[t].pc \in TaskPc
  BY <1>1 DEF TaskRecord, At
<1>3. Sound(task[t])
  BY DEF Ready, OnceInv, TasksSound
<1>4. QED
  BY <1>2, <1>3 DEF Sound, TaskPc, At

\* Rows come and go.
LEMMA RowOnce ==
  ASSUME Ready, Alone, NEW r \in Rows, RowAction(r)
  PROVE  OnceInv' /\ Sticks
<1>1. Match(r) \/ ReapJob(r)
  BY DEF RowAction, EditRead, StopCancel, SetStatus, Event, Alone, Ready, Absent
<1>2. UNCHANGED <<feeder, task, purging, received>>
  BY <1>1 DEF Match, ReapJob, world
<1>3. reaped \subseteq reaped'
  BY <1>1 DEF Match, ReapJob
<1>4. UNCHANGED row \/ (row[r] = "none" /\ row' = [row EXCEPT ![r] = "matched"])
  BY <1>1 DEF Match, ReapJob, Save
<1>5. \A q \in Rows : row'[q] = row[q] \/ (row[q] = "none" /\ row'[q] = "matched")
  BY <1>4 DEF Ready, TypeOK
<1>6. OneHolder'
  BY <1>2 DEF Ready, OnceInv, OneHolder, At
<1>7. FeederSees'
  <2>1. \A f \in Feeders : feeder[f].todo \in SUBSET Rows
    BY DEF Ready, TypeOK, FeederRecord
  <2>2. QED
    BY <1>2, <1>5, <2>1 DEF Ready, OnceInv, FeederSees
<1>8. TasksSound'
  <2> SUFFICES ASSUME NEW t \in Tasks PROVE Sound(task[t])'
    BY DEF TasksSound
  <2>1. CASE At(t, "free")
    BY <1>2, <2>1 DEF Sound, At, Ready, OnceInv, TasksSound, TypeOK, TaskRecord
  <2>2. CASE ~At(t, "free")
    BY <1>2, <1>5, <2>2, TaskSees DEF Sound, Ready, OnceInv, TasksSound
  <2>3. QED
    BY <2>1, <2>2
<1>9. PurgeSound'
  BY <1>2, <1>3, <1>5 DEF Ready, OnceInv, PurgeSound, In
<1>10. Kept'
  BY <1>2, <1>5 DEF Ready, OnceInv, Kept, At
<1>11. QED
  BY <1>5, <1>6, <1>7, <1>8, <1>9, <1>10 DEF OnceInv, Sticks

\* The purge takes back no submission.
LEMMA UserOnce ==
  ASSUME Ready, Alone, UserAction
  PROVE  OnceInv' /\ Sticks
<1>1. UNCHANGED <<feeder, task, reaped, received>>
  BY DEF UserAction, SetRunning, StopScan, StopFinish, EditSave, PurgeScan, PurgeDelete, world
<1>2. \/ PurgeDelete
      \/ UNCHANGED row /\ (UNCHANGED purging \/ purging' = In({"matched"}) \cap reaped)
  BY DEF UserAction, SetRunning, StopScan, StopFinish, EditSave, PurgeScan, Event, Alone, Ready,
         Absent
<1>3. \A r \in Rows : row'[r] = row[r] \/ (r \in purging /\ row'[r] = "purged")
  BY <1>2 DEF PurgeDelete
<1>4. \A r \in purging' : r \in purging \/ (r \in reaped /\ row'[r] = "matched")
  BY <1>2 DEF PurgeDelete, In
<1>5. purging \subseteq reaped /\ \A r \in purging : r \in Rows /\ row[r] # "submitted"
  BY DEF Ready, TypeOK, OnceInv, PurgeSound, In
<1>6. OneHolder'
  BY <1>1 DEF Ready, OnceInv, OneHolder, At
<1>7. FeederSees'
  <2>1. \A f \in Feeders : feeder[f].todo \in SUBSET Rows
    BY DEF Ready, TypeOK, FeederRecord
  <2>2. QED
    BY <1>1, <1>3, <2>1 DEF Ready, OnceInv, FeederSees
<1>8. TasksSound'
  <2> SUFFICES ASSUME NEW t \in Tasks PROVE Sound(task[t])'
    BY DEF TasksSound
  <2>1. CASE At(t, "free")
    BY <1>1, <2>1 DEF Sound, At, Ready, OnceInv, TasksSound, TypeOK, TaskRecord
  <2>2. CASE ~At(t, "free")
    <3>1. Sound(task[t])
      BY DEF Ready, OnceInv, TasksSound
    <3>2. QED
      BY <1>1, <1>3, <1>4, <1>5, <2>2, <3>1, TaskSees DEF Sound
  <2>3. QED
    BY <2>1, <2>2
<1>9. PurgeSound'
  BY <1>1, <1>3, <1>4, <1>5 DEF Ready, OnceInv, PurgeSound, In
<1>10. Kept'
  BY <1>1, <1>3, <1>5 DEF Ready, OnceInv, Kept, At
<1>11. QED
  BY <1>3, <1>5, <1>6, <1>7, <1>8, <1>9, <1>10 DEF OnceInv, Sticks

\* The feeder drops rows, or takes up some that no task has.
LEMMA FeederTakes ==
  ASSUME Ready, Alone, NEW f \in Feeders, Feeders = {f}, feeder'[f].cur = NoRow,
         UNCHANGED <<row, reaped, task, purging, received>>, feeder'[f].todo \in SUBSET Rows,
         \/ feeder'[f].todo \subseteq feeder[f].todo
         \/ \A r \in feeder'[f].todo : row[r] \notin {"queued", "purged", "submitted"}
  PROVE  OnceInv' /\ Sticks
<1>1. \A t \in Tasks : ~At(t, "free") => task[t].row \notin feeder'[f].todo \cup {NoRow}
  BY TaskSees, RowsAssumption DEF Ready, OnceInv, OneHolder
<1>2. OneHolder'
  BY <1>1, RowsAssumption DEF Ready, OnceInv, OneHolder, At
<1>3. FeederSees'
  BY RowsAssumption DEF Ready, OnceInv, FeederSees
<1>4. TasksSound'
  BY DEF Ready, OnceInv, TasksSound, Sound
<1>5. PurgeSound'
  BY DEF Ready, OnceInv, PurgeSound, In
<1>6. Kept'
  BY DEF Ready, OnceInv, Kept, At
<1>7. QED
  BY <1>2, <1>3, <1>4, <1>5, <1>6 DEF OnceInv, Sticks

\* The row whose turn it is gets queued, by the one that holds it.
LEMMA QueueOnce ==
  ASSUME Ready, Alone, NEW f \in Feeders, Feeders = {f}, NEW r \in Rows, QueueRow(f, r)
  PROVE  OnceInv' /\ Sticks
<1>1. /\ feeder'[f].todo = feeder[f].todo \ {r} /\ feeder'[f].cur = r /\ r \in feeder[f].todo
      /\ UNCHANGED <<reaped, task, purging, received>>
  BY QueueMoves DEF Ready
<1>2. row'[r] = "queued" /\ \A q \in Rows : q # r => row'[q] = row[q]
  BY QueueMoves DEF Ready, TypeOK
<1>3. /\ row[r] # "submitted"
      /\ \A t \in Tasks : ~At(t, "free") => task[t].row \notin feeder[f].todo
  BY <1>1 DEF Ready, OnceInv, FeederSees, OneHolder
<1>4. feeder[f].todo \in SUBSET Rows
  BY DEF Ready, TypeOK, FeederRecord
<1>5. OneHolder'
  BY <1>1, <1>3 DEF Ready, OnceInv, OneHolder, At
<1>6. FeederSees'
  BY <1>1, <1>2, <1>4 DEF Ready, OnceInv, FeederSees
<1>7. TasksSound'
  <2> SUFFICES ASSUME NEW t \in Tasks PROVE Sound(task[t])'
    BY DEF TasksSound
  <2>1. CASE At(t, "free")
    BY <1>1, <2>1 DEF Sound, At, Ready, OnceInv, TasksSound, TypeOK, TaskRecord
  <2>2. CASE ~At(t, "free")
    BY <1>1, <1>2, <1>3, <2>2, TaskSees DEF Sound, Ready, OnceInv, TasksSound
  <2>3. QED
    BY <2>1, <2>2
<1>8. PurgeSound'
  BY <1>1, <1>2 DEF Ready, OnceInv, PurgeSound, In
<1>9. Kept'
  BY <1>1, <1>2, <1>3 DEF Ready, OnceInv, Kept, At
<1>10. QED
  BY <1>2, <1>3, <1>5, <1>6, <1>7, <1>8, <1>9 DEF OnceInv, Sticks

\* The row that cannot be published is put back.
LEMMA FailOnce ==
  ASSUME Ready, Alone, NEW f \in Feeders, Feeders = {f}, PublishFails(f)
  PROVE  OnceInv' /\ Sticks
<1> DEFINE r == feeder[f].cur
<1>1. feeder'[f] = IdleFeeder /\ UNCHANGED <<reaped, task, purging, received>>
  BY FeederMoves DEF PublishFails, world, Ready
<1>2. r \in Rows
  BY DEF PublishFails, FeederAt, Ready, TypeOK, FeederRecord
<1>3. row'[r] = "matched" /\ \A q \in Rows : q # r => row'[q] = row[q]
  BY <1>2 DEF PublishFails, Save, Ready, TypeOK
<1>4. /\ row[r] # "submitted"
      /\ \A t \in Tasks : ~At(t, "free") => task[t].row # r
  BY <1>2 DEF Ready, OnceInv, FeederSees, OneHolder
<1>5. IdleFeeder.todo = {} /\ IdleFeeder.cur = NoRow
  BY DEF IdleFeeder
<1>6. \A t \in Tasks : At(t, "free") => task[t].row = NoRow
  BY DEF Ready, TypeOK, TaskRecord, At
<1>7. \A t \in Tasks : ~At(t, "free") => task[t].row \in Rows
  BY TaskSees
<1>8. OneHolder'
  BY <1>1, <1>5, <1>6, <1>7, RowsAssumption DEF Ready, OnceInv, OneHolder, At
<1>9. FeederSees'
  BY <1>1, <1>5, RowsAssumption DEF FeederSees
<1>10. TasksSound'
  <2> SUFFICES ASSUME NEW t \in Tasks PROVE Sound(task[t])'
    BY DEF TasksSound
  <2>1. CASE At(t, "free")
    BY <1>1, <2>1 DEF Sound, At, Ready, OnceInv, TasksSound, TypeOK, TaskRecord
  <2>2. CASE ~At(t, "free")
    BY <1>1, <1>3, <1>4, <2>2, TaskSees DEF Sound, Ready, OnceInv, TasksSound
  <2>3. QED
    BY <2>1, <2>2
<1>11. PurgeSound'
  BY <1>1, <1>3 DEF Ready, OnceInv, PurgeSound, In
<1>12. Kept'
  BY <1>1, <1>3, <1>4 DEF Ready, OnceInv, Kept, At
<1>13. QED
  BY <1>3, <1>4, <1>8, <1>9, <1>10, <1>11, <1>12 DEF OnceInv, Sticks

\* The row goes from the feeder's hands into a message.
LEMMA PublishOnce ==
  ASSUME Ready, Alone, NEW f \in Feeders, Feeders = {f}, NEW t \in Tasks, Publish(f, t)
  PROVE  OnceInv' /\ Sticks
<1> DEFINE r == feeder[f].cur
<1>1. /\ At(t, "free") /\ r \in Rows
      /\ task'[t].row = r /\ task'[t].tries = 0 /\ task'[t].out = "none"
      /\ task'[t].pc \in {"tailor", "queued"}
      /\ \A s \in Tasks : s # t => task'[s] = task[s]
      /\ UNCHANGED <<row, reaped, purging, received>>
  BY PublishMoves DEF Ready
<1>2. feeder'[f].todo = feeder[f].todo /\ feeder'[f].cur = NoRow
  <2>1. IdleFeeder.todo = {} /\ IdleFeeder.cur = NoRow
    BY DEF IdleFeeder
  <2>2. feeder'[f] = AfterTurn(f)
    BY PublishMoves DEF Ready
  <2>3. QED
    BY <2>1, <2>2, TurnMoves DEF Ready
<1>3. OneHolder'
  <2>1. \A s \in Tasks : ~At(s, "free") => task[s].row \in Rows /\ task[s].row # r
    BY TaskSees DEF Ready, OnceInv, OneHolder
  <2>2. \A s \in Tasks : At(s, "free") => task[s].row = NoRow
    BY DEF Ready, TypeOK, TaskRecord, At
  <2>3. \A s, u \in Tasks : ~At(s, "free")' /\ task'[s].row = task'[u].row => s = u
    BY <1>1, <2>1, <2>2, RowsAssumption DEF Ready, OnceInv, OneHolder, At
  <2>4. \A s \in Tasks : ~At(s, "free")' =>
          task'[s].row \notin feeder'[f].todo /\ task'[s].row # feeder'[f].cur
    BY <1>1, <1>2, <2>1, RowsAssumption DEF Ready, OnceInv, OneHolder, At
  <2>5. feeder'[f].cur \notin feeder'[f].todo
    BY <1>2, RowsAssumption DEF Ready, TypeOK, FeederRecord
  <2>6. QED
    BY <2>3, <2>4, <2>5 DEF OneHolder
<1>4. FeederSees'
  BY <1>1, <1>2, RowsAssumption DEF Ready, OnceInv, FeederSees
<1>5. TasksSound'
  <2>1. Sound(task[t])'
    BY <1>1 DEF Sound, Ready, OnceInv, FeederSees
  <2>2. \A s \in Tasks : s # t => Sound(task[s])'
    BY <1>1 DEF Sound, Ready, OnceInv, TasksSound
  <2>3. QED
    BY <2>1, <2>2 DEF TasksSound
<1>6. PurgeSound'
  BY <1>1 DEF Ready, OnceInv, PurgeSound, In
<1>7. Kept'
  BY <1>1 DEF Ready, OnceInv, Kept, At
<1>8. QED
  BY <1>1, <1>3, <1>4, <1>5, <1>6, <1>7 DEF OnceInv, Sticks

\* Every step of the feeder is one of those.
LEMMA FeederOnce ==
  ASSUME Ready, Alone, NEW f \in Feeders, FeederAction(f)
  PROVE  OnceInv' /\ Sticks
<1>1. Feeders = {f} /\ feeder[f] \in FeederRecord
  BY DEF Alone, OneFeeder, Ready, TypeOK
<1>2. IdleFeeder.todo = {} /\ IdleFeeder.cur = NoRow
  BY DEF IdleFeeder
<1>3. CASE \E r \in Rows : QueueRow(f, r)
  BY <1>1, <1>3, QueueOnce
<1>4. CASE PublishFails(f)
  BY <1>1, <1>4, FailOnce
<1>5. CASE \E t \in Tasks : Publish(f, t)
  BY <1>1, <1>5, PublishOnce
<1>6. CASE BatchBreak(f) \/ FeederDies(f)
  <2>1. feeder'[f] = IdleFeeder /\ UNCHANGED <<row, reaped, task, purging, received>>
    BY <1>6, FeederMoves DEF BatchBreak, FeederDies, world, Ready
  <2>2. QED
    BY <1>1, <1>2, <2>1, FeederTakes
<1>7. CASE Verified(f) \/ SweepCount(f)
  <2>1. UNCHANGED <<row, reaped, task, purging, received>>
    BY <1>7 DEF Verified, SweepCount, world
  <2>2. \/ feeder'[f] = [IdleFeeder EXCEPT !.pc = "pick", !.kind = "verified"]
        \/ feeder'[f] = [IdleFeeder EXCEPT !.pc = "eligible",
                           !.room = MaxConcurrentPerUser - Cardinality(In({"queued"}))]
    BY <1>7, FeederMoves DEF Verified, SweepCount, Ready
  <2>3. feeder'[f].todo = {} /\ feeder'[f].cur = NoRow
    BY <2>2 DEF IdleFeeder
  <2>4. QED
    BY <1>1, <2>1, <2>3, FeederTakes
<1>8. CASE SweepEligible(f)
  <2>1. UNCHANGED <<row, reaped, task, purging, received>> /\ feeder[f].cur = NoRow
    BY <1>1, <1>8 DEF SweepEligible, world, FeederAt, FeederRecord
  <2>2. feeder'[f] = IdleFeeder \/ feeder'[f] = [feeder[f] EXCEPT !.pc = "pick"]
    BY <1>8, FeederMoves DEF SweepEligible, Ready
  <2>3. feeder'[f].todo \subseteq feeder[f].todo /\ feeder'[f].cur = NoRow
    <3>1. CASE feeder'[f] = IdleFeeder
      BY <1>2, <3>1
    <3>2. CASE feeder'[f] = [feeder[f] EXCEPT !.pc = "pick"]
      BY <1>1, <2>1, <3>2, FeederFields
    <3>3. QED
      BY <2>2, <3>1, <3>2
  <2>4. feeder'[f].todo \in SUBSET Rows
    BY <1>1, <2>3 DEF FeederRecord
  <2>5. QED
    BY <1>1, <2>1, <2>3, <2>4, FeederTakes
<1>9. ASSUME NEW S \in SUBSET Rows, UNCHANGED <<row, reaped, task, purging, world>>,
             \A r \in S : row[r] \notin {"queued", "purged", "submitted"},
             ~FeederAt(f, "publish"), NEW kind,
             \/ FeederStep(f, IdleFeeder)
             \/ FeederStep(f, [feeder[f] EXCEPT !.pc = "queue", !.todo = S])
             \/ FeederStep(f, [IdleFeeder EXCEPT !.pc = "queue", !.kind = kind, !.todo = S])
      PROVE  OnceInv' /\ Sticks
  <2>1. \/ feeder'[f] = IdleFeeder
        \/ feeder'[f] = [feeder[f] EXCEPT !.pc = "queue", !.todo = S]
        \/ feeder'[f] = [IdleFeeder EXCEPT !.pc = "queue", !.kind = kind, !.todo = S]
    BY <1>9, FeederMoves DEF Ready
  <2>2. feeder[f].cur = NoRow
    BY <1>1, <1>9 DEF FeederAt, FeederRecord
  <2>3. feeder'[f].cur = NoRow /\ (feeder'[f].todo = {} \/ feeder'[f].todo = S)
    <3>1. CASE feeder'[f] = IdleFeeder
      BY <1>2, <3>1
    <3>2. CASE feeder'[f] = [feeder[f] EXCEPT !.pc = "queue", !.todo = S]
      BY <1>1, <2>2, <3>2, FeederFields
    <3>3. CASE feeder'[f] = [IdleFeeder EXCEPT !.pc = "queue", !.kind = kind, !.todo = S]
      BY <3>3 DEF IdleFeeder
    <3>4. QED
      BY <2>1, <3>1, <3>2, <3>3
  <2>4. QED
    BY <1>1, <1>9, <2>3, FeederTakes DEF world
<1>10. CASE SweepPick(f)
  <2>1. PICK S \in Best(feeder[f].room, {"matched"}) :
          FeederStep(f, IF S = {} THEN IdleFeeder
                                  ELSE [feeder[f] EXCEPT !.pc = "queue", !.todo = S])
    BY <1>10 DEF SweepPick
  <2>2. S \in SUBSET Rows /\ \A r \in S : row[r] = "matched"
    BY DEF Best, In
  <2>3. UNCHANGED <<row, reaped, task, purging, world>> /\ ~FeederAt(f, "publish")
    BY <1>10 DEF SweepPick, FeederAt
  <2>4. QED
    BY <1>9, <2>1, <2>2, <2>3
<1>11. CASE VerifiedPick(f)
  <2>1. PICK S \in SUBSET Rows :
          /\ \A r \in S : row[r] = "awaiting"
          /\ FeederStep(f, IF S = {} THEN IdleFeeder
                                     ELSE [feeder[f] EXCEPT !.pc = "queue", !.todo = S])
    BY <1>11 DEF VerifiedPick, In
  <2>2. UNCHANGED <<row, reaped, task, purging, world>> /\ ~FeederAt(f, "publish")
    BY <1>11 DEF VerifiedPick, FeederAt
  <2>3. QED
    BY <1>9, <2>1, <2>2
<1>12. CASE ApplyBatch(f)
  <2>1. PICK S \in Best(BatchMax, {"matched"}) :
          FeederStep(f, [IdleFeeder EXCEPT !.pc = "queue", !.kind = "apply_batch", !.todo = S])
    BY <1>12 DEF ApplyBatch
  <2>2. S \in SUBSET Rows /\ \A r \in S : row[r] = "matched"
    BY DEF Best, In
  <2>3. UNCHANGED <<row, reaped, task, purging, world>> /\ ~FeederAt(f, "publish")
    BY <1>12 DEF ApplyBatch, FeederAt
  <2>4. QED
    BY <1>9, <2>1, <2>2, <2>3
<1>13. CASE \E r \in Rows : ApplyNow(f, r)
  <2>1. PICK r \in Rows : ApplyNow(f, r)
    BY <1>13
  <2>2. \A q \in {r} : row[q] \notin {"queued", "purged", "submitted"}
    BY <2>1 DEF ApplyNow, Gone, AlreadySubmitted
  <2>3. /\ UNCHANGED <<row, reaped, task, purging, world>> /\ ~FeederAt(f, "publish")
        /\ FeederStep(f, [IdleFeeder EXCEPT !.pc = "queue", !.kind = "apply_now", !.todo = {r}])
    BY <2>1 DEF ApplyNow, FeederAt
  <2>4. QED
    BY <1>9, <2>2, <2>3
<1>14. QED
  BY <1>3, <1>4, <1>5, <1>6, <1>7, <1>8, <1>10, <1>11, <1>12, <1>13 DEF FeederAction

\* The task and its row go on together; the others have other rows.
LEMMA TaskGoes ==
  ASSUME Ready, Alone, NEW t \in Tasks, ~At(t, "free"), TaskAction(t),
         task'[t].row \in {task[t].row, NoRow},
         Sound(task[t])',
         UNCHANGED row \/ row[task[t].row] # "submitted",
         row'[task[t].row] = "purged" => row[task[t].row] = "purged",
         row'[task[t].row] = "submitted" => row[task[t].row] = "submitted"
                                             \/ task[t].row \notin purging,
         \A r \in Rows : r # task[t].row => received'[r] = received[r],
         received'[task[t].row] <= 1,
         received'[task[t].row] > 0 =>
            \/ row'[task[t].row] = "submitted"
            \/ /\ task'[t].row = task[t].row
               /\ task'[t].pc = "record" /\ task'[t].out = "submitted"
  PROVE  OnceInv' /\ Sticks
<1> DEFINE q == task[t].row
<1>1. /\ UNCHANGED <<reaped, feeder, stopping, edit, purging>>
      /\ \A s \in Tasks : s # t => task'[s] = task[s]
      /\ \A r \in Rows : r # q => row'[r] = row[r]
  BY TaskKeeps DEF Ready
<1>2. q \in Rows /\ \A s \in Tasks : ~At(s, "free") => task[s].row \in Rows
  BY TaskSees
<1>3. \A s \in Tasks : At(s, "free") => task[s].row = NoRow
  BY DEF Ready, TypeOK, TaskRecord, At
<1>4. \A s \in Tasks : s # t => task[s].row # q
  BY DEF Ready, OnceInv, OneHolder
<1>5. \A f \in Feeders : q \notin feeder[f].todo /\ q # feeder[f].cur
  BY DEF Ready, OnceInv, OneHolder
<1>6. TypeOK'
  BY NextTypeOK DEF Ready, Next
<1>7. OneHolder'
  <2>1. \A s \in Tasks : ~At(s, "free")' => task'[s].row \in Rows
    BY <1>6 DEF TypeOK, TaskRecord, At
  <2>2. \A f \in Feeders, s \in Tasks : ~At(s, "free")' =>
          task'[s].row \notin feeder'[f].todo /\ task'[s].row # feeder'[f].cur
    BY <1>1, <1>5, <2>1, RowsAssumption DEF Ready, OnceInv, OneHolder, At
  <2>3. \A s, u \in Tasks : ~At(s, "free")' /\ task'[s].row = task'[u].row => s = u
    BY <1>1, <1>3, <1>4, <2>1, RowsAssumption DEF Ready, OnceInv, OneHolder, At
  <2>4. QED
    BY <1>1, <2>2, <2>3 DEF Ready, OnceInv, OneHolder
<1>8. FeederSees'
  <2>1. \A f \in Feeders : feeder[f].todo \in SUBSET Rows
    BY DEF Ready, TypeOK, FeederRecord
  <2>2. QED
    BY <1>1, <1>5, <2>1 DEF Ready, OnceInv, FeederSees
<1>9. TasksSound'
  <2> SUFFICES ASSUME NEW s \in Tasks, s # t PROVE Sound(task[s])'
    BY DEF TasksSound
  <2>1. CASE At(s, "free")
    BY <1>1, <2>1 DEF Sound, At, Ready, OnceInv, TasksSound, TypeOK, TaskRecord
  <2>2. CASE ~At(s, "free")
    BY <1>1, <1>2, <1>4, <2>2 DEF Sound, Ready, OnceInv, TasksSound
  <2>3. QED
    BY <2>1, <2>2
<1>10. PurgeSound'
  BY <1>1, <1>2 DEF Ready, OnceInv, PurgeSound, In
<1>11. Kept'
  <2> SUFFICES ASSUME NEW r \in Rows
               PROVE  /\ received'[r] <= 1
                      /\ received'[r] > 0 =>
                            \/ row'[r] = "submitted"
                            \/ \E s \in Tasks : task'[s].row = r /\ At(s, "record")'
                                                  /\ task'[s].out = "submitted"
    BY DEF Kept
  <2>1. CASE r = q
    BY <2>1 DEF At
  <2>2. CASE r # q
    BY <1>1, <2>2 DEF Ready, OnceInv, Kept, At
  <2>3. QED
    BY <2>1, <2>2
<1>12. QED
  BY <1>1, <1>7, <1>8, <1>9, <1>10, <1>11 DEF OnceInv, Sticks

\* Every step of a task is one TaskGoes allows: a run clicks once and says so, or saves that it
\* did not.
LEMMA TaskOnce ==
  ASSUME Ready, Alone, NEW t \in Tasks, TaskAction(t)
  PROVE  OnceInv' /\ Sticks
<1> DEFINE q == task[t].row
<1>1. /\ task[t] \in TaskRecord /\ Sound(task[t])
      /\ received \in [Rows -> Nat] /\ row \in [Rows -> Statuses]
  BY DEF Ready, TypeOK, OnceInv, TasksSound
<1>2. /\ ~At(t, "free")
      /\ Start(t) \/ Gate(t) \/ Adapter(t) \/ Record(t) \/ Meter(t)
           \/ (TaskRaises(t) /\ At(t, "meter"))
           \/ TailorRead(t) \/ TailorSave(t) \/ TailorSkip(t) \/ TailorRaises(t)
           \/ TailorLost(t)
  BY <1>1 DEF TaskAction, TailorRead, TailorSave, TailorSkip, TailorRaises, TailorLost, Start, Gate, Adapter,
       Record, Meter, TaskRaises, TaskFails, TaskKilled, WorkerLost, Event, Alone, Ready, Absent,
       Sound, At
<1>3. q \in Rows /\ row[q] \in {"queued", "purged", "submitted"} /\ task[t].tries \in {0, 1}
  BY <1>1, <1>2, TaskSees DEF TaskRecord
<1>4. /\ received[q] <= 1
      /\ received[q] > 0 => row[q] = "submitted" \/ (At(t, "record") /\ task[t].out = "submitted")
  BY <1>2, <1>3 DEF Ready, OnceInv, Kept, OneHolder
<1>5. FreeTask.row = NoRow /\ FreeTask.pc = "free" /\ FreeTask.tries = 0 /\ FreeTask.out = "none"
  BY DEF FreeTask
<1>6. UNCHANGED purging
  BY TaskKeeps DEF Ready
<1>7. CASE Start(t)
  <2>1. UNCHANGED <<row, received>> /\ At(t, "queued")
    BY <1>7 DEF Start, world
  <2>2. CASE task'[t] = FreeTask
    BY <1>2, <1>3, <1>4, <1>5, <2>1, <2>2, TaskGoes DEF Sound, At
  <2>3. CASE /\ row[q] \notin Gone \cup AlreadySubmitted
             /\ GoesOn(t) /\ task'[t].pc = "gate" /\ task'[t].out = task[t].out
    <3>1. row[q] = "queued" /\ task[t].tries = 0
      BY <1>1, <1>3, <2>3 DEF Sound, Gone, AlreadySubmitted
    <3>2. Sound(task[t])'
      BY <2>1, <2>3, <3>1 DEF Sound, GoesOn
    <3>3. QED
      BY <1>2, <1>3, <1>4, <2>1, <2>3, <3>1, <3>2, TaskGoes DEF GoesOn, At
  <2>4. QED
    BY <1>7, <2>2, <2>3, StartMoves DEF Ready
<1>8. CASE Gate(t)
  <2>1. UNCHANGED <<row, received>> /\ At(t, "gate")
    BY <1>8 DEF Gate, world
  <2>2. row[q] \in {"queued", "purged"} /\ task[t].tries = 0
    BY <1>1, <2>1 DEF Sound, At
  <2>3. q \notin reaped => row[q] = "queued" /\ q \notin purging
    BY <1>3, <2>2 DEF Ready, OnceInv, PurgeSound, In
  <2>4. Sound(task[t])'
    BY <1>6, <1>8, <2>1, <2>2, <2>3, GateMoves DEF Sound, GoesOn, Ready
  <2>5. QED
    BY <1>2, <1>3, <1>4, <1>8, <2>1, <2>2, <2>4, GateMoves, TaskGoes DEF GoesOn, At, Ready
<1>9. CASE Adapter(t)
  <2>1. UNCHANGED row /\ At(t, "apply")
    BY <1>9 DEF Adapter
  <2>2. row[q] = "queued" /\ task[t].tries = 0 /\ q \notin purging
    BY <1>1, <2>1 DEF Sound, At
  <2>3. received[q] = 0
    BY <1>1, <1>3, <1>4, <2>1, <2>2 DEF At
  <2>4. /\ GoesOn(t) /\ task'[t].pc = "record"
        /\ task'[t].out \in {"needs_info", "awaiting", "submitted"}
        /\ \A r \in Rows : received'[r] = received[r] +
              IF r = q /\ task'[t].out = "submitted" THEN 1 ELSE 0
    BY <1>9, AdapterMoves DEF Ready
  <2>5. Sound(task[t])'
    BY <1>6, <2>1, <2>2, <2>4 DEF Sound, GoesOn
  <2>6. received'[q] <= 1 /\ (received'[q] > 0 => task'[t].out = "submitted")
    BY <1>3, <2>3, <2>4
  <2>7. \A r \in Rows : r # q => received'[r] = received[r]
    BY <1>1, <2>4
  <2>8. QED
    BY <1>2, <1>3, <2>1, <2>2, <2>4, <2>5, <2>6, <2>7, TaskGoes DEF GoesOn
<1>10. CASE Record(t)
  <2>1. UNCHANGED received /\ At(t, "record")
    BY <1>10 DEF Record, world
  <2>2. row[q] \in {"queued", "purged"} /\ task[t].tries = 0
    BY <1>1, <2>1 DEF Sound, At
  <2>3. CASE /\ task[t].out = "submitted" /\ Save(q, "submitted")
             /\ GoesOn(t) /\ task'[t].pc = "meter" /\ task'[t].out = "submitted"
    <3>1. row'[q] = "submitted" /\ q \notin purging
      BY <1>1, <1>3, <2>1, <2>3 DEF Save, Sound, At
    <3>2. Sound(task[t])'
      BY <2>2, <2>3, <3>1 DEF Sound, GoesOn
    <3>3. QED
      BY <1>2, <1>3, <1>4, <2>1, <2>2, <2>3, <3>1, <3>2, TaskGoes DEF GoesOn
  <2>4. CASE /\ task[t].out # "submitted" /\ task'[t] = FreeTask
             /\ \E status \in {"matched", "needs_info", "awaiting"} : Save(q, status)
    <3>1. row'[q] \in {"matched", "needs_info", "awaiting"}
      BY <1>1, <1>3, <2>4 DEF Save
    <3>2. Sound(task[t])'
      BY <1>5, <2>4 DEF Sound
    <3>3. QED
      BY <1>2, <1>3, <1>4, <1>5, <2>1, <2>2, <2>4, <3>1, <3>2, TaskGoes
  <2>5. QED
    BY <1>10, <2>3, <2>4, RecordMoves DEF Ready
<1>11. CASE Meter(t)
  <2>1. UNCHANGED <<row, received>> /\ At(t, "meter")
    BY <1>11 DEF Meter
  <2>2. task'[t] = FreeTask
    BY <1>11, TaskMoves DEF Meter, Ready
  <2>3. Sound(task[t])'
    BY <1>5, <2>2 DEF Sound
  <2>4. QED
    BY <1>2, <1>3, <1>4, <1>5, <2>1, <2>2, <2>3, TaskGoes DEF At
<1>12. CASE TaskRaises(t) /\ At(t, "meter")
  <2>1. UNCHANGED <<row, received>> /\ task[t].tries = 0 /\ row[q] = "submitted"
    BY <1>1, <1>12 DEF TaskRaises, world, Sound, At
  <2>2. /\ task'[t].row = q /\ task'[t].pc = "queued"
        /\ task'[t].tries = 1 /\ task'[t].out = "none"
    BY <1>12, <2>1, RaiseMoves DEF Ready
  <2>3. Sound(task[t])'
    BY <2>1, <2>2 DEF Sound
  <2>4. QED
    BY <1>2, <1>3, <1>4, <2>1, <2>2, <2>3, TaskGoes
<1>13. CASE TailorRead(t) \/ TailorSave(t) \/ TailorSkip(t) \/ TailorRaises(t)
  <2>1. UNCHANGED received /\ task[t].pc \in {"tailor", "tailoring"}
    BY <1>13 DEF TailorRead, TailorSave, TailorSkip, TailorRaises, world, At
  <2>2. row[q] \in {"queued", "purged"} /\ task[t].tries = 0
    BY <1>1, <1>3, <2>1 DEF Sound
  <2>3. UNCHANGED row \/ row'[q] = "queued"
    BY <1>1, <1>3, <1>13 DEF TailorRead, TailorSave, TailorSkip, TailorRaises, Save, Sound, At
  <2>4. TailorRead(t) \/ TailorRaises(t) => UNCHANGED row
    BY DEF TailorRead, TailorRaises
  <2>5. Sound(task[t])'
    BY <1>13, <2>2, <2>3, <2>4, TailorMoves DEF Sound, GoesOn, Gone, Ready
  <2>6. task'[t].row = q
    BY <1>13, TailorMoves DEF GoesOn, Ready
  <2>7. QED
    BY <1>2, <1>3, <1>4, <2>1, <2>2, <2>3, <2>5, <2>6, TaskGoes DEF At
<1>14. CASE TailorLost(t)
  <2>1. UNCHANGED <<row, received>> /\ task[t].pc = "tailoring"
    BY <1>14 DEF TailorLost, world, At
  <2>2. task'[t] = FreeTask
    BY <1>14, TaskMoves DEF TailorLost, Ready
  <2>3. Sound(task[t])'
    BY <1>5, <2>2 DEF Sound
  <2>4. QED
    BY <1>2, <1>3, <1>4, <1>5, <2>1, <2>2, <2>3, TaskGoes DEF At
<1>15. QED
  BY <1>2, <1>7, <1>8, <1>9, <1>10, <1>11, <1>12, <1>13, <1>14

\* The engine starts with nothing queued or received.
LEMMA InitOnce == Init => OnceInv
<1> SUFFICES ASSUME Init PROVE OnceInv
  OBVIOUS
<1>1. \A f \in Feeders : feeder[f].todo = {} /\ feeder[f].cur = NoRow
  BY DEF Init, IdleFeeder
<1>2. \A t \in Tasks : task[t].pc = "free" /\ task[t].tries = 0
  BY DEF Init, FreeTask
<1>3. OneHolder /\ FeederSees /\ TasksSound
  BY <1>1, <1>2, RowsAssumption DEF OneHolder, FeederSees, TasksSound, Sound, At
<1>4. PurgeSound /\ Kept
  BY DEF Init, PurgeSound, Kept, In
<1>5. QED
  BY <1>3, <1>4 DEF OnceInv

\* Every step keeps Ready, and takes no submission back.
LEMMA NextOnce == Alone /\ Ready /\ [Next]_vars => Ready' /\ Sticks
<1> SUFFICES ASSUME Alone, Ready, [Next]_vars PROVE Ready' /\ Sticks
  OBVIOUS
<1>1. CASE UNCHANGED vars
  BY <1>1 DEF vars, world, OnceInv, OneHolder, FeederSees, TasksSound, Sound, PurgeSound, Kept,
       In, At, Sticks, Ready, TypeOK, Absent
<1>2. CASE Next
  BY <1>2, NextTypeOK, NextAbsent, RowOnce, UserOnce, FeederOnce, TaskOnce DEF Next, Ready
<1>3. QED
  BY <1>1, <1>2

\* AtMostOnce: no row is received twice (apply.py, submit_application: "a retried task must never
\* double-submit"), with failing meters, lost feeders, purges and reaped jobs in between.
THEOREM AtMostOnceAlways ==
  ASSUME Alone
  PROVE  Spec => []AtMostOnce
<1>1. Init => Ready
  BY InitTypeOK, InitAbsent, InitOnce DEF Ready
<1>2. Ready => AtMostOnce
  BY DEF Ready, OnceInv, Kept, AtMostOnce
<1>3. QED
  BY <1>1, <1>2, NextOnce, PTL DEF Spec

\* SubmittedSticks: what was recorded as submitted stays so, under the same conditions.
THEOREM SubmittedSticksEver ==
  ASSUME Alone
  PROVE  Spec => SubmittedSticks
<1>1. Init => Ready
  BY InitTypeOK, InitAbsent, InitOnce DEF Ready
<1>2. Ready /\ [Next]_vars => [\A r \in Rows : row[r] = "submitted" => row'[r] = "submitted"]_vars
  BY NextOnce DEF Sticks
<1>3. QED
  BY <1>1, <1>2, NextOnce, PTL DEF Spec, SubmittedSticks
=============================================================================
