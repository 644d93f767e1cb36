--------------------------- MODULE SourcingProofs ---------------------------
(***************************************************************************)
(* What the markers of the sweeps and of the search button say of the      *)
(* tasks; that the scans, the gates, the ranking and diversify make a fair *)
(* selection of any pool; and what the pool, the rows and the runs hold:   *)
(* for any users, tasks, profiles and boards.                              *)
(***************************************************************************)
EXTENDS Sourcing, TLAPS, FiniteSetTheorems

\* The records of tasks and requests keep their fields.
Shape ==
    /\ DOMAIN task = Tasks /\ \A t \in Tasks : DOMAIN task[t] = DOMAIN Done
    /\ DOMAIN marker = Kinds /\ DOMAIN sweeper = Kinds /\ DOMAIN button = Users
    /\ DOMAIN request = Requests
    /\ \A h \in Requests : /\ DOMAIN request[h] = DOMAIN IdleRequest
                           /\ ~RequestAt(h, "idle") => request[h].user \in Users

\* Who queued a task: a sweep, or a click or a save, which are searches only.
QueuedBy(x) ==
    \/ x.by = "sweep"
    \/ x.by = "button" /\ x.kind = "source" /\ "click" \in regime
    \/ x.by = "hook" /\ x.kind = "source" /\ "hook" \in regime
OriginsTrue ==
    /\ \A t \in InFlight : QueuedBy(task[t])
    /\ \A h \in Requests : RequestAt(h, "publish") => "click" \in regime

\* Where only the sweep queues tasks of a kind and no marker runs out early, the one task of a
\* user, and the one that is about to be published, have a marker.
Sweeping(k, u) == {t \in InFlight : task[t].kind = k /\ task[t].user = u}
OnlySweeps(k) == "late" \notin regime /\ (k = "match" \/ regime \cap {"click", "hook"} = {})
Marked(k, u) ==
    /\ \A s, t \in Sweeping(k, u) : s = t
    /\ Sweeping(k, u) # {} => u \in marker[k]
    /\ SweepAt(k, "publish") /\ sweeper[k].user = u => Sweeping(k, u) = {} /\ u \in marker[k]
SweepInv == \A k \in Kinds, u \in Users : OnlySweeps(k) => Marked(k, u)

\* With one request at a time: a search of the button is the one its user's button names, but
\* for the request that has published it and not named it yet; a request about a user's
\* button saw the user's search, or that there is none.
Searches(u) == {t \in InFlight : task[t].by = "button" /\ task[t].user = u}
Sees(x) ==
    /\ x.pc \in {"publish", "unset"} => Searches(x.user) = {}
    /\ x.pc \in {"set", "probe", "revoke"} => Searches(x.user) \subseteq {x.task}
    /\ x.pc = "set" => \A t \in InFlight : t = x.task => task[t].user = x.user
Named(t) ==
    \/ button[task[t].user] = t
    \/ \E h \in Requests : RequestAt(h, "set") /\ request[h].task = t
Searched ==
    \A t \in InFlight : task[t].by = "button" => task[t].user \in Users /\ Named(t)
OneRequest == \E h : Requests = {h}
Punctual == OneRequest /\ regime \cap {"late", "api_crash"} = {}
SearchInv == Punctual => Searched /\ \A h \in Requests : Sees(request[h])

MarkersInv == Shape /\ OriginsTrue /\ SweepInv /\ SearchInv

-----------------------------------------------------------------------------
(* Tasks *)

\* A task goes on as what it is, if it goes on, and no other changes.
Goes(t, x) ==
    /\ TaskStep(t, x) /\ ~At(t, "done") /\ DOMAIN x = DOMAIN Done
    /\ x.pc # "done" => x.kind = task[t].kind /\ x.by = task[t].by /\ x.user = task[t].user

\* No task begins: those that are under way were, for the same user and from the same origin.
Fading ==
    /\ DOMAIN task' = Tasks /\ \A t \in Tasks : DOMAIN task'[t] = DOMAIN Done
    /\ \A t \in InFlight' :
         /\ t \in InFlight
         /\ task'[t].kind = task[t].kind /\ task'[t].by = task[t].by /\ task'[t].user = task[t].user

\* A message is a record of a task, of the kind, origin and user it was queued for.
LEMMA MessageIs ==
  ASSUME NEW kind, NEW by, NEW u
  PROVE  LET x == Message(kind, by, u)
         IN  /\ DOMAIN x = DOMAIN Done /\ x.pc = "queued"
             /\ x.kind = kind /\ x.by = by /\ x.user = u
  BY DEF Message, Done

\* The steps of a run, its errors and its ends.
LEMMA RunGoes ==
  ASSUME Shape, NEW t \in Tasks, NEW failed, NEW fails,
         \/ Begin(t, failed) \/ Ingest(t) \/ Rank(t) \/ InsertRow(t, fails)
         \/ TaskError(t) \/ TaskKilled(t) \/ WorkerCrash(t)
  PROVE  \E x : Goes(t, x)
<1>1. DOMAIN task[t] = DOMAIN Done /\ {"pc", "kind", "by", "user"} \subseteq DOMAIN task[t]
  BY DEF Shape, Done
<1>2. CASE Begin(t, failed)
  <2>1. At(t, "queued")
    BY <1>2, Zenon DEF Begin
  <2>2. PICK plan, barred, results :
          TaskStep(t, [task[t] EXCEPT !.pc = IF plan = <<>> THEN "rank" ELSE "ingest",
                                      !.plan = plan, !.barred = barred, !.results = results])
    BY <1>2, Zenon DEF Begin
  <2> DEFINE x == [task[t] EXCEPT !.pc = IF plan = <<>> THEN "rank" ELSE "ingest",
                                  !.plan = plan, !.barred = barred, !.results = results]
  <2>3. DOMAIN x = DOMAIN task[t]
    OBVIOUS
  <2>4. /\ x.pc \in {"rank", "ingest"}
        /\ x.kind = task[t].kind /\ x.by = task[t].by /\ x.user = task[t].user
    BY <1>1
  <2>5. QED
    BY <1>1, <2>1, <2>2, <2>3, <2>4 DEF Goes, At
<1>3. CASE Ingest(t)
  <2>1. At(t, "ingest")
    BY <1>3, Zenon DEF Ingest
  <2>2. PICK pc, plan, results :
          /\ TaskStep(t, [task[t] EXCEPT !.plan = plan, !.results = results, !.pc = pc])
          /\ pc \in {"rank", "ingest"}
    BY <1>3 DEF Ingest, TaskStep
  <2> DEFINE x == [task[t] EXCEPT !.plan = plan, !.results = results, !.pc = pc]
  <2>3. DOMAIN x = DOMAIN task[t]
    OBVIOUS
  <2>4. x.pc = pc /\ x.kind = task[t].kind /\ x.by = task[t].by /\ x.user = task[t].user
    BY <1>1
  <2>5. QED
    BY <1>1, <2>1, <2>2, <2>3, <2>4 DEF Goes, At
<1>4. CASE Rank(t)
  <2>1. At(t, "rank")
    BY <1>4, Zenon DEF Rank
  <2>2. PICK best, barred :
          TaskStep(t, [task[t] EXCEPT !.pc = IF best = <<>> THEN "clear" ELSE "insert",
                                      !.barred = barred,
                                      !.selected = [i \in DOMAIN best |-> job_id(best[i].job)]])
    BY <1>4, Zenon DEF Rank
  <2> DEFINE x == [task[t] EXCEPT !.pc = IF best = <<>> THEN "clear" ELSE "insert",
                                  !.barred = barred,
                                  !.selected = [i \in DOMAIN best |-> job_id(best[i].job)]]
  <2>3. DOMAIN x = DOMAIN task[t]
    OBVIOUS
  <2>4. /\ x.pc \in {"clear", "insert"}
        /\ x.kind = task[t].kind /\ x.by = task[t].by /\ x.user = task[t].user
    BY <1>1
  <2>5. QED
    BY <1>1, <2>1, <2>2, <2>3, <2>4 DEF Goes, At
<1>5. CASE InsertRow(t, fails)
  <2>1. PICK pc, selected :
          /\ TaskStep(t, [task[t] EXCEPT !.selected = selected, !.pc = pc])
          /\ pc \in {"clear", "insert"} /\ At(t, "insert")
    BY <1>5 DEF InsertRow, TaskStep
  <2> DEFINE x == [task[t] EXCEPT !.selected = selected, !.pc = pc]
  <2>2. DOMAIN x = DOMAIN task[t]
    OBVIOUS
  <2>3. x.pc = pc /\ x.kind = task[t].kind /\ x.by = task[t].by /\ x.user = task[t].user
    BY <1>1
  <2>4. QED
    BY <1>1, <2>1, <2>2, <2>3 DEF Goes, At
<1>6. CASE TaskError(t)
  <2>1. Goes(t, [Message(task[t].kind, task[t].by, task[t].user) EXCEPT !.pc = "clear"])
    BY <1>6 DEF TaskError, Running, InFlight, Goes, Message, Done
  <2>2. QED
    BY <2>1
<1>7. CASE TaskKilled(t)
  <2>1. Goes(t, Done)
    BY <1>7 DEF TaskKilled, Running, InFlight, Goes, Done
  <2>2. QED
    BY <2>1
<1>8. CASE WorkerCrash(t)
  <2>1. Goes(t, Message(task[t].kind, task[t].by, task[t].user))
    BY <1>8, MessageIs DEF WorkerCrash, Running, InFlight, Goes
  <2>2. QED
    BY <2>1
<1>9. QED
  BY <1>2, <1>3, <1>4, <1>5, <1>6, <1>7, <1>8

\* A task that goes on, or ends, begins none.
LEMMA GoesFades ==
  ASSUME Shape, NEW t \in Tasks, NEW x, Goes(t, x) \/ (TaskStep(t, x) /\ x = Done)
  PROVE  Fading
<1>1. task' = [task EXCEPT ![t] = x] /\ DOMAIN task = Tasks
  BY DEF Goes, TaskStep, Shape
<1>2. DOMAIN task' = Tasks /\ task'[t] = x /\ \A s \in Tasks \ {t} : task'[s] = task[s]
  BY <1>1
<1>3. DOMAIN x = DOMAIN Done
  BY DEF Goes
<1>4. Done.pc = "done"
  BY DEF Done
<1>5. QED
  BY <1>2, <1>3, <1>4 DEF Fading, Goes, Shape, InFlight, At

\* Nor does a step that leaves the tasks alone.
LEMMA OthersFade ==
  ASSUME Shape, task' = task
  PROVE  Fading
  BY DEF Fading, Shape, InFlight, At

-----------------------------------------------------------------------------
(* What holds when no task begins *)

LEMMA OriginsFade ==
  ASSUME OriginsTrue, Fading, UNCHANGED regime,
         \A h \in Requests : request'[h].pc = "publish" => "click" \in regime
  PROVE  OriginsTrue'
  BY DEF OriginsTrue, Fading, QueuedBy, RequestAt

\* The tasks of a user fade; a marker that goes is of a user without a task of the kind.
LEMMA SweepFades ==
  ASSUME SweepInv, Fading, UNCHANGED <<regime, sweeper>>,
         \A k \in Kinds, u \in Users :
            OnlySweeps(k) /\ u \in marker[k] /\ u \notin marker'[k] =>
              /\ \A t \in InFlight' : ~(task'[t].kind = k /\ task'[t].user = u)
              /\ ~(SweepAt(k, "publish") /\ sweeper[k].user = u)
  PROVE  SweepInv'
<1> SUFFICES ASSUME NEW k \in Kinds, NEW u \in Users, OnlySweeps(k)' PROVE Marked(k, u)'
  BY DEF SweepInv
<1>1. OnlySweeps(k) /\ Marked(k, u)
  BY DEF OnlySweeps, SweepInv
<1>2. Sweeping(k, u)' \subseteq Sweeping(k, u)
  BY DEF Sweeping, Fading
<1>3. QED
  <2>1. u \in marker[k] /\ u \notin marker'[k] =>
          Sweeping(k, u)' = {} /\ ~(SweepAt(k, "publish") /\ sweeper[k].user = u)
    BY <1>1 DEF Sweeping
  <2>2. QED
    BY <1>1, <1>2, <2>1 DEF Marked, SweepAt

\* The searches fade, and the requests and what is named stay.
LEMMA SearchesStay ==
  ASSUME SearchInv, UNCHANGED <<regime, request>>,
         \A t \in InFlight' : task'[t].by = "button" =>
            t \in InFlight /\ task[t].by = "button" /\ task'[t].user = task[t].user,
         \A h \in Requests, t \in InFlight' :
            RequestAt(h, "set") /\ t = request[h].task =>
               t \in InFlight /\ task'[t].user = task[t].user,
         Punctual => \A t \in InFlight :
            task[t].by = "button" /\ button[task[t].user] = t => button'[task[t].user] = t
  PROVE  SearchInv'
<1> SUFFICES ASSUME Punctual' PROVE Searched' /\ \A h \in Requests : Sees(request[h])'
  BY DEF SearchInv
<1>1. Searched /\ (\A h \in Requests : Sees(request[h])) /\ Punctual
  BY DEF SearchInv, Punctual, OneRequest
<1>2. Searched'
  BY <1>1 DEF Searched, Named, RequestAt
<1>3. ASSUME NEW h \in Requests PROVE Sees(request[h])'
  <2>1. PICK x : x = request[h]
    OBVIOUS
  <2>2. Searches(x.user)' \subseteq Searches(x.user)
    BY DEF Searches
  <2>3. Sees(x)
    BY <1>1, <2>1
  <2>4. Sees(x)'
    BY <2>1, <2>2, <2>3 DEF Sees, RequestAt
  <2>5. request'[h] = x
    BY <2>1
  <2>6. QED
    BY <2>4, <2>5 DEF Sees, Searches
<1>4. QED
  BY <1>2, <1>3

\* A step of the one request: what it sees of its user's searches.
LEMMA RequestMoves ==
  ASSUME Shape, SearchInv, UNCHANGED regime, NEW h \in Requests, NEW x, RequestStep(h, x),
         Punctual /\ Requests = {h} =>
           /\ Sees(x)'
           /\ \A t \in InFlight' : task'[t].by = "button" =>
                /\ task'[t].user \in Users
                /\ button'[task'[t].user] = t \/ (x.pc = "set" /\ x.task = t)
  PROVE  SearchInv'
<1> SUFFICES ASSUME Punctual' PROVE Searched' /\ \A g \in Requests : Sees(request[g])'
  BY DEF SearchInv
<1>1. Punctual /\ Requests = {h} /\ DOMAIN request = Requests
  BY DEF Punctual, OneRequest, Shape
<1>2. request'[h] = x
  BY <1>1 DEF RequestStep
<1>3. Sees(request[h])'
  BY <1>1, <1>2 DEF Sees, Searches
<1>4. Searched'
  BY <1>1, <1>2 DEF Searched, Named, RequestAt
<1>5. QED
  BY <1>1, <1>3, <1>4
\* A request's record, in the place of another.
LEMMA ShapeMoves ==
  ASSUME Shape, Fading, NEW h \in Requests, NEW x, RequestStep(h, x),
         DOMAIN x = DOMAIN IdleRequest, x.pc # "idle" => x.user \in Users,
         UNCHANGED <<marker, sweeper>>, DOMAIN button' = DOMAIN button
  PROVE  Shape'
<1>1. DOMAIN request' = Requests /\ request'[h] = x
      /\ \A g \in Requests \ {h} : request'[g] = request[g]
  BY DEF Shape, RequestStep
<1>2. QED
  BY <1>1 DEF Shape, Fading, RequestAt

-----------------------------------------------------------------------------
(* The steps of a task, of the boards, the cache, the retention and the user *)

LEMMA TaskKeeps ==
  ASSUME MarkersInv, Fading, UNCHANGED regime, UNCHANGED guards
  PROVE  MarkersInv'
<1>1. Shape'
  BY DEF MarkersInv, Shape, Fading, guards, RequestAt
<1>2. OriginsTrue'
  BY OriginsFade DEF MarkersInv, guards, OriginsTrue, RequestAt
<1>3. SweepInv'
  BY SweepFades DEF MarkersInv, guards
<1>4. SearchInv'
  BY SearchesStay DEF MarkersInv, guards, Fading
<1>5. QED
  BY <1>1, <1>2, <1>3, <1>4 DEF MarkersInv

\* The end of a run clears the marker; where only the sweep queues tasks it was the last one.
LEMMA ClearSweepKeeps ==
  ASSUME MarkersInv, NEW t \in Tasks, ClearSweep(t)
  PROVE  MarkersInv'
<1>1. /\ At(t, "clear") /\ TaskStep(t, Done)
      /\ marker' = [marker EXCEPT ![task[t].kind] = @ \ {task[t].user}]
      /\ UNCHANGED <<regime, sweeper, button, request>>
  BY DEF ClearSweep
<1>2. Shape /\ Fading
  BY <1>1, GoesFades DEF MarkersInv
<1>3. t \in InFlight /\ t \notin InFlight'
  BY <1>1, <1>2 DEF InFlight, At, TaskStep, Shape, Done
<1>4. Shape'
  BY <1>1, <1>2 DEF Shape, Fading, RequestAt
<1>5. OriginsTrue'
  BY <1>1, <1>2, OriginsFade DEF MarkersInv, OriginsTrue, RequestAt
<1>6. SweepInv'
  <2>1. ASSUME NEW k \in Kinds, NEW u \in Users, OnlySweeps(k), u \in marker[k], u \notin marker'[k]
        PROVE  /\ \A s \in InFlight' : ~(task'[s].kind = k /\ task'[s].user = u)
               /\ ~(SweepAt(k, "publish") /\ sweeper[k].user = u)
    <3>1. k = task[t].kind /\ u = task[t].user
      BY <1>1, <1>2, <2>1 DEF Shape
    <3>2. t \in Sweeping(k, u) /\ Marked(k, u)
      BY <1>3, <2>1, <3>1 DEF Sweeping, MarkersInv, SweepInv
    <3>3. Sweeping(k, u)' \subseteq Sweeping(k, u) \ {t}
      BY <1>2, <1>3 DEF Sweeping, Fading
    <3>4. QED
      BY <3>2, <3>3 DEF Marked, Sweeping
  <2>2. QED
    BY <1>1, <1>2, <2>1, SweepFades DEF MarkersInv
<1>7. SearchInv'
  BY <1>1, <1>2, SearchesStay DEF MarkersInv, Fading
<1>8. QED
  BY <1>4, <1>5, <1>6, <1>7 DEF MarkersInv

-----------------------------------------------------------------------------
(* New tasks *)

\* A message takes the place of a task that is over and that nothing refers to.
LEMMA Queued ==
  ASSUME Shape, NEW t \in Tasks, NEW kind, NEW by, NEW u, Queue(t, kind, by, u)
  PROVE  /\ t \notin InFlight /\ InFlight' = InFlight \cup {t}
         /\ DOMAIN task' = Tasks /\ \A s \in Tasks : DOMAIN task'[s] = DOMAIN Done
         /\ task'[t].kind = kind /\ task'[t].by = by /\ task'[t].user = u
         /\ \A s \in Tasks \ {t} : task'[s] = task[s]
         /\ \A h \in Requests : request[h].task # t
<1>1. t \in Unused /\ task' = [task EXCEPT ![t] = Message(kind, by, u)]
  BY DEF Queue, TaskStep
<1>2. /\ DOMAIN task' = Tasks /\ task'[t] = Message(kind, by, u)
      /\ \A s \in Tasks \ {t} : task'[s] = task[s]
  BY <1>1 DEF Shape
<1>3. QED
  <2>1. t \notin InFlight /\ InFlight' = InFlight \cup {t}
    BY <1>1, <1>2, MessageIs DEF Unused, InFlight, At, Shape
  <2>2. \A h \in Requests : request[h].task # t
    BY <1>1 DEF Unused, Referenced
  <2>3. QED
    BY <1>2, <2>1, <2>2, MessageIs DEF Shape

\* A new task of a kind that not only the sweep queues says nothing of the markers.
LEMMA SweepGrows ==
  ASSUME Shape, SweepInv, NEW t \in Tasks, NEW by, NEW user, Queue(t, "source", by, user),
         regime \cap {"click", "hook"} # {}, UNCHANGED <<regime, marker, sweeper>>
  PROVE  SweepInv'
<1> SUFFICES ASSUME NEW k \in Kinds, NEW u \in Users, OnlySweeps(k)' PROVE Marked(k, u)'
  BY DEF SweepInv
<1>1. OnlySweeps(k) /\ Marked(k, u) /\ k = "match"
  BY DEF OnlySweeps, SweepInv
<1>2. Sweeping(k, u)' \subseteq Sweeping(k, u)
  BY <1>1, Queued DEF Sweeping, InFlight
<1>3. QED
  BY <1>1, <1>2 DEF Marked, SweepAt

LEMMA HookKeeps ==
  ASSUME MarkersInv, NEW t \in Tasks, NEW u \in Users, HookPublish(u, t)
  PROVE  MarkersInv'
<1>1. /\ Queue(t, "source", "hook", u) /\ "hook" \in regime
      /\ UNCHANGED <<regime, marker, sweeper, button, request>>
  BY DEF HookPublish, guards, Event
<1>2. Shape'
  BY <1>1, Queued DEF MarkersInv, Shape, RequestAt
<1>3. OriginsTrue'
  BY <1>1, Queued DEF MarkersInv, OriginsTrue, QueuedBy, InFlight, RequestAt
<1>4. SweepInv'
  BY <1>1, SweepGrows DEF MarkersInv
<1>5. SearchInv'
  <2>1. Shape /\ SearchInv
    BY DEF MarkersInv
  <2>2. \A s \in InFlight' : task'[s].by = "button" =>
          s \in InFlight /\ task[s].by = "button" /\ task'[s].user = task[s].user
    BY <1>1, <2>1, Queued DEF InFlight
  <2>3. \A h \in Requests, s \in InFlight' :
          RequestAt(h, "set") /\ s = request[h].task =>
            s \in InFlight /\ task'[s].user = task[s].user
    BY <1>1, <2>1, Queued DEF InFlight
  <2>4. QED
    BY <1>1, <2>1, <2>2, <2>3, SearchesStay
<1>6. QED
  BY <1>2, <1>3, <1>4, <1>5 DEF MarkersInv

-----------------------------------------------------------------------------
(* The sweeps *)

\* While no task, request or button changes, only the markers and the sweepers matter.
LEMMA SweeperKeeps ==
  ASSUME MarkersInv, UNCHANGED <<regime, task, button, request>>,
         DOMAIN marker' = Kinds, DOMAIN sweeper' = Kinds,
         \A k \in Kinds, u \in Users : OnlySweeps(k) =>
           /\ Sweeping(k, u) # {} => u \in marker'[k]
           /\ sweeper'[k].pc = "publish" /\ sweeper'[k].user = u =>
                Sweeping(k, u) = {} /\ u \in marker'[k]
  PROVE  MarkersInv'
<1>1. Shape /\ Fading
  BY OthersFade DEF MarkersInv
<1>2. Shape'
  BY <1>1 DEF Shape, Fading, RequestAt
<1>3. OriginsTrue'
  BY <1>1, OriginsFade DEF MarkersInv, OriginsTrue, RequestAt
<1>4. SweepInv'
  <2> SUFFICES ASSUME NEW k \in Kinds, NEW u \in Users, OnlySweeps(k)' PROVE Marked(k, u)'
    BY DEF SweepInv
  <2>1. OnlySweeps(k) /\ Marked(k, u)
    BY DEF OnlySweeps, SweepInv, MarkersInv
  <2>2. Sweeping(k, u)' = Sweeping(k, u)
    BY DEF Sweeping, InFlight, At
  <2>3. QED
    BY <2>1, <2>2 DEF Marked, SweepAt
<1>5. SearchInv'
  BY <1>1, SearchesStay DEF MarkersInv, Fading
<1>6. QED
  BY <1>2, <1>3, <1>4, <1>5 DEF MarkersInv

\* A sweep that begins, passes over a user or is broken off.
LEMMA SweeperPasses ==
  ASSUME MarkersInv, NEW k \in Kinds, NEW new, SweepStep(k, new), new.pc # "publish",
         UNCHANGED <<regime, marker, task, button, request>>
  PROVE  MarkersInv'
<1>1. DOMAIN sweeper' = Kinds /\ sweeper'[k] = new
      /\ \A j \in Kinds \ {k} : sweeper'[j] = sweeper[j]
  BY DEF SweepStep, MarkersInv, Shape
<1>2. DOMAIN marker' = Kinds
  BY DEF MarkersInv, Shape
<1>3. ASSUME NEW j \in Kinds, NEW u \in Users, OnlySweeps(j)
      PROVE  /\ Sweeping(j, u) # {} => u \in marker'[j]
             /\ sweeper'[j].pc = "publish" /\ sweeper'[j].user = u =>
                  Sweeping(j, u) = {} /\ u \in marker'[j]
  BY <1>1, <1>3 DEF MarkersInv, SweepInv, Marked, SweepAt
<1>4. QED
  BY <1>1, <1>2, <1>3, SweeperKeeps

\* A user that has no marker has no task of the kind, and gets a marker before one is published.
LEMMA CheckUserKeeps ==
  ASSUME MarkersInv, NEW k \in Kinds, NEW u \in Users, CheckUser(k, u)
  PROVE  MarkersInv'
<1> DEFINE rest == sweeper[k].todo \ {u}
<1>1. UNCHANGED <<regime, task, button, request>> /\ SweepAt(k, "check")
  BY DEF CheckUser
<1>2. CASE Skipped(k, u)
  <2>1. SweepStep(k, Remaining(rest)) /\ UNCHANGED marker
    BY <1>2 DEF CheckUser
  <2>2. Remaining(rest).pc # "publish"
    BY DEF Remaining, IdleSweeper
  <2>3. QED
    BY <1>1, <2>1, <2>2, SweeperPasses
<1>3. CASE ~Skipped(k, u)
  <2>1. /\ SweepStep(k, [pc |-> "publish", todo |-> rest, user |-> u])
        /\ marker' = [marker EXCEPT ![k] = @ \cup {u}] /\ u \notin marker[k]
    BY <1>3 DEF CheckUser, Skipped
  <2>2. /\ DOMAIN sweeper' = Kinds /\ sweeper'[k].pc = "publish" /\ sweeper'[k].user = u
        /\ DOMAIN marker' = Kinds /\ marker'[k] = marker[k] \cup {u}
        /\ \A j \in Kinds \ {k} : sweeper'[j] = sweeper[j] /\ marker'[j] = marker[j]
    BY <2>1 DEF SweepStep, MarkersInv, Shape
  <2>3. ASSUME NEW j \in Kinds, NEW v \in Users, OnlySweeps(j)
        PROVE  /\ Sweeping(j, v) # {} => v \in marker'[j]
               /\ sweeper'[j].pc = "publish" /\ sweeper'[j].user = v =>
                    Sweeping(j, v) = {} /\ v \in marker'[j]
    BY <2>1, <2>2, <2>3 DEF MarkersInv, SweepInv, Marked, SweepAt
  <2>4. QED
    BY <1>1, <2>2, <2>3, SweeperKeeps
<1>4. QED
  BY <1>2, <1>3

\* In time, a marker runs out only when the user has no task of the kind.
LEMMA ExpireMarkerKeeps ==
  ASSUME MarkersInv, NEW k \in Kinds, NEW u \in Users, ExpireMarker(k, u)
  PROVE  MarkersInv'
<1>1. /\ UNCHANGED <<regime, sweeper, task, button, request>> /\ ~SweepAt(k, "publish")
      /\ marker' = [marker EXCEPT ![k] = @ \ {u}]
      /\ "late" \notin regime => Sweeping(k, u) = {}
  BY DEF ExpireMarker, Event, Sweeping
<1>2. /\ DOMAIN sweeper' = Kinds /\ DOMAIN marker' = Kinds /\ marker'[k] = marker[k] \ {u}
      /\ \A j \in Kinds \ {k} : marker'[j] = marker[j]
  BY <1>1 DEF MarkersInv, Shape
<1>3. ASSUME NEW j \in Kinds, NEW v \in Users, OnlySweeps(j)
      PROVE  /\ Sweeping(j, v) # {} => v \in marker'[j]
             /\ sweeper'[j].pc = "publish" /\ sweeper'[j].user = v =>
                  Sweeping(j, v) = {} /\ v \in marker'[j]
  BY <1>1, <1>2, <1>3 DEF MarkersInv, SweepInv, Marked, SweepAt, OnlySweeps
<1>4. QED
  BY <1>1, <1>2, <1>3, SweeperKeeps

\* The task a sweep publishes is the only one of its user and kind, and has a marker.
LEMMA PublishKeeps ==
  ASSUME MarkersInv, NEW k \in Kinds, NEW t \in Tasks, Publish(k, t)
  PROVE  MarkersInv'
<1>1. /\ Queue(t, k, "sweep", sweeper[k].user) /\ SweepAt(k, "publish")
      /\ SweepStep(k, Remaining(sweeper[k].todo))
      /\ UNCHANGED <<regime, marker, button, request>>
  BY DEF Publish
<1>2. Shape /\ SearchInv /\ SweepInv /\ OriginsTrue
  BY DEF MarkersInv
<1>3. DOMAIN sweeper' = Kinds /\ sweeper'[k].pc # "publish"
      /\ \A j \in Kinds \ {k} : sweeper'[j] = sweeper[j]
  BY <1>1, <1>2 DEF Shape, SweepStep, Remaining, IdleSweeper
<1>4. Shape'
  BY <1>1, <1>2, <1>3, Queued DEF Shape, RequestAt
<1>5. OriginsTrue'
  BY <1>1, <1>2, Queued DEF OriginsTrue, QueuedBy, InFlight, RequestAt
<1>6. SweepInv'
  <2> SUFFICES ASSUME NEW j \in Kinds, NEW u \in Users, OnlySweeps(j)' PROVE Marked(j, u)'
    BY DEF SweepInv
  <2>1. OnlySweeps(j) /\ Marked(j, u)
    BY <1>1, <1>2 DEF OnlySweeps, SweepInv
  <2>2. CASE j = k /\ u = sweeper[k].user
    <3>1. Sweeping(j, u) = {} /\ u \in marker[j]
      BY <1>1, <2>1, <2>2 DEF Marked
    <3>2. Sweeping(j, u)' \subseteq {t}
      BY <1>1, <1>2, <2>2, <3>1, Queued DEF Sweeping, InFlight
    <3>3. QED
      BY <1>1, <1>3, <2>2, <3>1, <3>2 DEF Marked, SweepAt
  <2>3. CASE ~(j = k /\ u = sweeper[k].user)
    <3>1. Sweeping(j, u)' \subseteq Sweeping(j, u)
      BY <1>1, <1>2, <2>3, Queued DEF Sweeping, InFlight
    <3>2. QED
      BY <1>1, <1>3, <2>1, <3>1 DEF Marked, SweepAt
  <2>4. QED
    BY <2>2, <2>3
<1>7. SearchInv'
  <2>1. \A s \in InFlight' : task'[s].by = "button" =>
          s \in InFlight /\ task[s].by = "button" /\ task'[s].user = task[s].user
    BY <1>1, <1>2, Queued DEF InFlight
  <2>2. \A h \in Requests, s \in InFlight' :
          RequestAt(h, "set") /\ s = request[h].task =>
            s \in InFlight /\ task'[s].user = task[s].user
    BY <1>1, <1>2, Queued DEF InFlight
  <2>3. QED
    BY <1>1, <1>2, <2>1, <2>2, SearchesStay
<1>8. QED
  BY <1>4, <1>5, <1>6, <1>7 DEF MarkersInv

-----------------------------------------------------------------------------
(* The button and its requests *)

\* A step of a request that begins no task.
LEMMA RequestKeeps ==
  ASSUME MarkersInv, NEW h \in Requests, NEW x, RequestStep(h, x), Fading,
         UNCHANGED <<regime, marker, sweeper>>, DOMAIN button' = DOMAIN button,
         DOMAIN x = DOMAIN IdleRequest, x.pc # "idle" => x.user \in Users,
         x.pc = "publish" => "click" \in regime,
         Punctual /\ Requests = {h} =>
           /\ Sees(x)'
           /\ \A t \in InFlight' : task'[t].by = "button" =>
                /\ task'[t].user \in Users
                /\ button'[task'[t].user] = t \/ (x.pc = "set" /\ x.task = t)
  PROVE  MarkersInv'
<1>1. Shape /\ SweepInv /\ SearchInv /\ OriginsTrue
  BY DEF MarkersInv
<1>2. Shape'
  BY <1>1, ShapeMoves
<1>3. \A g \in Requests : request'[g].pc = "publish" => "click" \in regime
  BY <1>1 DEF RequestStep, Shape, OriginsTrue, RequestAt
<1>4. OriginsTrue'
  BY <1>1, <1>3, OriginsFade
<1>5. SweepInv'
  BY <1>1, SweepFades
<1>6. SearchInv'
  BY <1>1, RequestMoves
<1>7. QED
  BY <1>2, <1>4, <1>5, <1>6 DEF MarkersInv

\* What the invariant says when there is one request, which the proofs below go by.
LEMMA AloneSees ==
  ASSUME MarkersInv, NEW h \in Requests, Punctual, Requests = {h}
  PROVE  /\ Sees(request[h])
         /\ \A t \in InFlight : task[t].by = "button" =>
              /\ task[t].user \in Users
              /\ button[task[t].user] = t \/ (RequestAt(h, "set") /\ request[h].task = t)
  BY DEF MarkersInv, SearchInv, Searched, Named

\* The records of requests.
LEMMA RequestIs ==
  /\ DOMAIN IdleRequest = {"pc", "user", "task"} /\ IdleRequest.pc = "idle"
  /\ \A pc, u, t : DOMAIN [pc |-> pc, user |-> u, task |-> t] = DOMAIN IdleRequest
  /\ \A u : LET x == [IdleRequest EXCEPT !.pc = "publish", !.user = u]
            IN  DOMAIN x = DOMAIN IdleRequest /\ x.pc = "publish" /\ x.user = u
  BY DEF IdleRequest

\* A click when no search is under way, as far as the button knows.
LEMMA ClickKeeps ==
  ASSUME MarkersInv, NEW h \in Requests, NEW u \in Users, request_matching(h, u)
  PROVE  MarkersInv'
<1> DEFINE x == [IdleRequest EXCEPT !.pc = "publish", !.user = u]
<1>1. /\ RequestStep(h, x) /\ RequestAt(h, "idle") /\ button[u] = NoTask /\ "click" \in regime
      /\ UNCHANGED <<regime, marker, sweeper, button, task>>
  BY DEF request_matching, Event
<1>2. DOMAIN x = DOMAIN IdleRequest /\ x.pc = "publish" /\ x.user = u
  BY RequestIs
<1> HIDE DEF x
<1>3. Fading
  BY <1>1, OthersFade DEF MarkersInv
<1>4. ASSUME Punctual, Requests = {h}
      PROVE  /\ Sees(x)'
             /\ \A t \in InFlight' : task'[t].by = "button" =>
                  task'[t].user \in Users /\ button'[task'[t].user] = t
  <2>1. \A t \in InFlight : task[t].by = "button" =>
          task[t].user \in Users /\ button[task[t].user] = t /\ t # NoTask
    BY <1>1, <1>4, AloneSees, SourcingNames DEF RequestAt, InFlight
  <2>2. Searches(u)' = {}
    BY <1>1, <2>1 DEF Searches, InFlight, At
  <2>3. QED
    BY <1>1, <1>2, <2>1, <2>2 DEF Sees, InFlight, At
<1>5. QED
  BY <1>1, <1>2, <1>3, <1>4, RequestKeeps

\* A status or a stop reads which task the button names.
LEMMA ReadButtonKeeps ==
  ASSUME MarkersInv, NEW h \in Requests, NEW u \in Users,
         matching_status(h, u) \/ cancel_matching(h, u)
  PROVE  MarkersInv'
<1>1. PICK pc \in {"probe", "revoke"} :
        RequestStep(h, [pc |-> pc, user |-> u, task |-> button[u]])
  BY DEF matching_status, cancel_matching
<1>2. RequestAt(h, "idle") /\ UNCHANGED <<regime, marker, sweeper, button, task>>
  BY DEF matching_status, cancel_matching
<1>3. PICK x : x = [pc |-> pc, user |-> u, task |-> button[u]]
  OBVIOUS
<1>4. DOMAIN x = DOMAIN IdleRequest /\ x.pc = pc /\ x.user = u /\ x.task = button[u]
  BY <1>3, RequestIs
<1>5. Fading
  BY <1>2, OthersFade DEF MarkersInv
<1>6. ASSUME Punctual, Requests = {h}
      PROVE  /\ Sees(x)'
             /\ \A t \in InFlight' : task'[t].by = "button" =>
                  task'[t].user \in Users /\ button'[task'[t].user] = t
  <2>1. \A t \in InFlight : task[t].by = "button" =>
          task[t].user \in Users /\ button[task[t].user] = t
    BY <1>2, <1>6, AloneSees DEF RequestAt
  <2>2. Searches(u)' \subseteq {x.task}
    BY <1>2, <1>4, <2>1 DEF Searches, InFlight, At
  <2>3. QED
    BY <1>2, <1>4, <2>1, <2>2 DEF Sees, InFlight, At
<1>7. QED
  BY <1>1, <1>2, <1>3, <1>4, <1>5, <1>6, RequestKeeps

\* The request names the search it published, the only one of its user.
LEMMA NameKeeps ==
  ASSUME MarkersInv, NEW h \in Requests, set_match_state(h)
  PROVE  MarkersInv'
<1>1. /\ RequestStep(h, IdleRequest) /\ RequestAt(h, "set")
      /\ button' = [button EXCEPT ![request[h].user] = request[h].task]
      /\ UNCHANGED <<regime, marker, sweeper, task>>
  BY DEF set_match_state
<1>2. Fading /\ request[h].user \in Users /\ DOMAIN button = Users
  BY <1>1, OthersFade DEF MarkersInv, Shape, RequestAt
<1>3. /\ DOMAIN button' = DOMAIN button /\ button'[request[h].user] = request[h].task
      /\ \A u \in Users \ {request[h].user} : button'[u] = button[u]
  BY <1>1, <1>2
<1>4. ASSUME Punctual, Requests = {h}
      PROVE  /\ Sees(IdleRequest)'
             /\ \A t \in InFlight' : task'[t].by = "button" =>
                  task'[t].user \in Users /\ button'[task'[t].user] = t
  <2>1. Sees(IdleRequest)'
    BY RequestIs DEF Sees
  <2>2. ASSUME NEW t \in InFlight, task[t].by = "button"
        PROVE  task[t].user \in Users /\ button'[task[t].user] = t
    <3>1. /\ task[t].user \in Users
          /\ button[task[t].user] = t \/ request[h].task = t
      BY <1>4, <2>2, AloneSees
    <3>2. /\ task[t].user = request[h].user => t = request[h].task
          /\ t = request[h].task => task[t].user = request[h].user
      BY <1>1, <1>4, <2>2, AloneSees DEF Sees, Searches, RequestAt
    <3>3. QED
      BY <1>3, <3>1, <3>2
  <2>3. QED
    BY <1>1, <2>1, <2>2 DEF InFlight, At
<1>5. QED
  BY <1>1, <1>2, <1>3, <1>4, RequestIs, RequestKeeps

\* A task that is over, or is revoked, leaves its user without a search.
LEMMA ProbeKeeps ==
  ASSUME MarkersInv, NEW h \in Requests, Probe(h) \/ Revoke(h)
  PROVE  MarkersInv'
<1> DEFINE new == [request[h] EXCEPT !.pc = "unset"]
<1>1. /\ RequestAt(h, "probe") \/ RequestAt(h, "revoke")
      /\ UNCHANGED <<regime, marker, sweeper, button>>
      /\ \/ RequestStep(h, IdleRequest) /\ task' = task
         \/ RequestStep(h, new) /\ task' = task /\ At(request[h].task, "done")
         \/ RequestStep(h, new) /\ TaskStep(request[h].task, Done)
  BY DEF Probe, Revoke, ready
<1>2. /\ DOMAIN request[h] = DOMAIN IdleRequest /\ request[h].user \in Users
      /\ {"pc", "user", "task"} \subseteq DOMAIN request[h]
  BY <1>1, RequestIs DEF MarkersInv, Shape, RequestAt
<1>3. /\ DOMAIN new = DOMAIN IdleRequest /\ new.pc = "unset"
      /\ new.user = request[h].user /\ new.task = request[h].task
  BY <1>2
<1> HIDE DEF new
<1>4. Fading
  <2>1. CASE task' = task
    BY <2>1, OthersFade DEF MarkersInv
  <2>2. CASE TaskStep(request[h].task, Done) /\ request[h].task \in Tasks
    BY <2>2, GoesFades DEF MarkersInv
  <2>3. CASE TaskStep(request[h].task, Done) /\ request[h].task \notin Tasks
    <3>1. DOMAIN task' = Tasks /\ \A t \in Tasks : task'[t] = task[t]
      BY <2>3 DEF TaskStep, MarkersInv, Shape
    <3>2. QED
      BY <3>1 DEF Fading, InFlight, At, MarkersInv, Shape
  <2>4. QED
    BY <1>1, <2>1, <2>2, <2>3
<1>5. ASSUME Punctual, Requests = {h}
      PROVE  \A t \in InFlight' : task'[t].by = "button" =>
               task'[t].user \in Users /\ button'[task'[t].user] = t
  BY <1>1, <1>4, <1>5, AloneSees DEF Fading, RequestAt
<1>6. CASE RequestStep(h, IdleRequest)
  <2>1. Sees(IdleRequest)'
    BY RequestIs DEF Sees
  <2>2. QED
    BY <1>1, <1>4, <1>5, <1>6, <2>1, RequestIs, RequestKeeps
<1>7. CASE RequestStep(h, new)
  <2>1. PICK x : x = new
    OBVIOUS
  <2>2. ASSUME Punctual, Requests = {h} PROVE Sees(x)'
    <3>1. Searches(x.user) \subseteq {request[h].task}
      BY <1>1, <1>3, <2>1, <2>2, AloneSees DEF Sees, RequestAt
    <3>2. Searches(x.user)' \subseteq Searches(x.user)
      BY <1>4 DEF Searches, Fading
    <3>3. request[h].task \notin InFlight' \/ RequestStep(h, IdleRequest)
      BY <1>1 DEF InFlight, At, TaskStep, MarkersInv, Shape, Done
    <3>4. request'[h] = x /\ (RequestStep(h, IdleRequest) => request'[h] = IdleRequest)
      BY <1>7, <2>1 DEF RequestStep, MarkersInv, Shape
    <3>5. request[h].task \notin InFlight'
      BY <1>3, <2>1, <3>3, <3>4, RequestIs
    <3>6. Searches(x.user)' \subseteq InFlight'
      BY DEF Searches
    <3>7. QED
      BY <1>3, <2>1, <3>1, <3>2, <3>5, <3>6 DEF Sees
  <2>3. QED
    BY <1>1, <1>3, <1>2, <1>4, <1>5, <1>7, <2>1, <2>2, RequestKeeps
<1>8. QED
  BY <1>1, <1>6, <1>7

\* The button of a user without a search is cleared.
LEMMA ClearKeeps ==
  ASSUME MarkersInv, NEW h \in Requests, clear_match_state(h)
  PROVE  MarkersInv'
<1>1. /\ RequestStep(h, IdleRequest) /\ RequestAt(h, "unset")
      /\ button' = [button EXCEPT ![request[h].user] = NoTask]
      /\ UNCHANGED <<regime, marker, sweeper, task>>
  BY DEF clear_match_state
<1>2. Fading /\ request[h].user \in Users /\ DOMAIN button = Users
  BY <1>1, OthersFade DEF MarkersInv, Shape, RequestAt
<1>3. DOMAIN button' = DOMAIN button /\ \A u \in Users \ {request[h].user} : button'[u] = button[u]
  BY <1>1, <1>2
<1>4. ASSUME Punctual, Requests = {h}
      PROVE  /\ Sees(IdleRequest)'
             /\ \A t \in InFlight' : task'[t].by = "button" =>
                  task'[t].user \in Users /\ button'[task'[t].user] = t
  <2>1. Sees(IdleRequest)'
    BY RequestIs DEF Sees
  <2>2. \A t \in InFlight : task[t].by = "button" => task[t].user # request[h].user
    BY <1>1, <1>4, AloneSees DEF Sees, Searches, RequestAt
  <2>3. \A t \in InFlight : task[t].by = "button" =>
          task[t].user \in Users /\ button[task[t].user] = t
    BY <1>1, <1>4, AloneSees DEF RequestAt
  <2>4. QED
    BY <1>1, <1>3, <2>1, <2>2, <2>3 DEF InFlight, At
<1>5. QED
  BY <1>1, <1>2, <1>3, <1>4, RequestIs, RequestKeeps

\* A request that is lost half-way is outside what is said of the button.
LEMMA ApiCrashKeeps ==
  ASSUME MarkersInv, NEW h \in Requests, ApiCrash(h)
  PROVE  MarkersInv'
<1>1. /\ RequestStep(h, IdleRequest) /\ "api_crash" \in regime
      /\ UNCHANGED <<regime, marker, sweeper, button, task>>
  BY DEF ApiCrash, Event
<1>2. Fading /\ ~Punctual
  BY <1>1, OthersFade DEF MarkersInv, Punctual
<1>3. QED
  BY <1>1, <1>2, RequestIs, RequestKeeps

\* In time, the button's marker runs out only when the search it names is over.
LEMMA ExpireButtonKeeps ==
  ASSUME MarkersInv, NEW u \in Users, ExpireButton(u)
  PROVE  MarkersInv'
<1>1. /\ button' = [button EXCEPT ![u] = NoTask]
      /\ button[u] \in InFlight => "late" \in regime
      /\ UNCHANGED <<regime, marker, sweeper, request, task>>
  BY DEF ExpireButton, Event
<1>2. Shape /\ Fading
  BY <1>1, OthersFade DEF MarkersInv
<1>3. DOMAIN button' = Users /\ \A v \in Users \ {u} : button'[v] = button[v]
  BY <1>1, <1>2 DEF Shape
<1>4. Shape'
  BY <1>1, <1>2, <1>3 DEF Shape, Fading, RequestAt
<1>5. OriginsTrue'
  BY <1>1, <1>2, OriginsFade DEF MarkersInv, OriginsTrue, RequestAt
<1>6. SweepInv'
  BY <1>1, <1>2, SweepFades DEF MarkersInv
<1>7. SearchInv'
  <2>1. ASSUME Punctual, NEW t \in InFlight, task[t].by = "button", button[task[t].user] = t
        PROVE  button'[task[t].user] = t
    <3>1. task[t].user \in Users
      BY <2>1 DEF MarkersInv, SearchInv, Searched
    <3>2. QED
      BY <1>1, <1>3, <2>1, <3>1 DEF Punctual
  <2>2. QED
    BY <1>1, <1>2, <2>1, SearchesStay DEF MarkersInv, Fading
<1>8. QED
  BY <1>4, <1>5, <1>6, <1>7 DEF MarkersInv

\* The search a request publishes is its user's only one.
LEMMA PublishSearchKeeps ==
  ASSUME MarkersInv, NEW h \in Requests, NEW t \in Tasks, PublishSearch(h, t)
  PROVE  MarkersInv'
<1> DEFINE new == [request[h] EXCEPT !.pc = "set", !.task = t]
<1>1. /\ Queue(t, "source", "button", request[h].user) /\ RequestAt(h, "publish")
      /\ RequestStep(h, new) /\ UNCHANGED <<regime, marker, sweeper, button>>
  BY DEF PublishSearch
<1>2. Shape /\ SearchInv /\ SweepInv /\ OriginsTrue
  BY DEF MarkersInv
<1>3. /\ DOMAIN request[h] = DOMAIN IdleRequest /\ request[h].user \in Users
      /\ {"pc", "user", "task"} \subseteq DOMAIN request[h]
  BY <1>1, <1>2, RequestIs DEF Shape, RequestAt
<1>4. /\ DOMAIN new = DOMAIN IdleRequest /\ new.pc = "set" /\ new.user = request[h].user
      /\ new.task = t
  BY <1>3
<1> HIDE DEF new
<1>5. /\ DOMAIN request' = Requests /\ request'[h] = new
      /\ \A g \in Requests \ {h} : request'[g] = request[g]
  BY <1>1, <1>2 DEF RequestStep, Shape
<1>6. "click" \in regime
  BY <1>1, <1>2 DEF OriginsTrue
<1>7. Shape'
  BY <1>1, <1>2, <1>3, <1>4, <1>5, Queued DEF Shape, RequestAt
<1>8. OriginsTrue'
  BY <1>1, <1>2, <1>4, <1>5, <1>6, Queued DEF OriginsTrue, QueuedBy, InFlight, RequestAt
<1>9. SweepInv'
  BY <1>1, <1>2, <1>6, SweepGrows
<1>10. SearchInv'
  <2>1. PICK x : x = new
    OBVIOUS
  <2>2. ASSUME Punctual, Requests = {h}
        PROVE  /\ Sees(x)'
               /\ \A s \in InFlight' : task'[s].by = "button" =>
                    /\ task'[s].user \in Users
                    /\ button'[task'[s].user] = s \/ (x.pc = "set" /\ x.task = s)
    <3>1. /\ InFlight' = InFlight \cup {t} /\ task'[t].user = request[h].user
          /\ \A s \in InFlight : task'[s] = task[s]
      BY <1>1, <1>2, Queued DEF InFlight
    <3>2. \A s \in InFlight : task[s].by = "button" =>
            /\ task[s].user \in Users /\ button[task[s].user] = s /\ task[s].user # request[h].user
      BY <1>1, <2>2, AloneSees DEF RequestAt, Sees, Searches
    <3>3. Searches(x.user)' \subseteq {t}
      BY <1>4, <2>1, <3>1, <3>2 DEF Searches
    <3>4. Sees(x)'
      BY <1>4, <2>1, <3>1, <3>3, <1>1, <1>2, Queued DEF Sees, InFlight
    <3>5. QED
      BY <1>1, <1>3, <1>4, <2>1, <3>1, <3>2, <3>4
  <2>3. QED
    BY <1>1, <1>2, <2>1, <2>2, RequestMoves
<1>11. QED
  BY <1>7, <1>8, <1>9, <1>10 DEF MarkersInv

-----------------------------------------------------------------------------
(* The theorem *)

LEMMA InitMarkers == Init => MarkersInv
<1> SUFFICES ASSUME Init PROVE MarkersInv
  OBVIOUS
<1>1. InFlight = {} /\ \A h \in Requests : request[h] = IdleRequest
  BY DEF Init, InFlight, At, Done
<1>2. \A k \in Kinds : ~SweepAt(k, "publish")
  BY DEF Init, SweepAt, IdleSweeper
<1>3. Shape
  BY <1>1, RequestIs DEF Init, Shape, RequestAt
<1>4. OriginsTrue
  BY <1>1, RequestIs DEF OriginsTrue, RequestAt
<1>5. SweepInv
  BY <1>1, <1>2 DEF SweepInv, Marked, Sweeping
<1>6. SearchInv
  BY <1>1, RequestIs DEF SearchInv, Searched, Sees
<1>7. QED
  BY <1>3, <1>4, <1>5, <1>6 DEF MarkersInv

\* The steps of the tasks, the boards, the cache, the retention and the user.
Beyond ==
    \/ \E u \in Users : Pause(u) \/ \E c \in {p.company : p \in Postings} : Exclude(u, c)
    \/ \E e \in Entries : ExpireFetch(e) \/ OtherSearch(e)
    \/ \E s \in Sources : run_source(s)
    \/ \E p \in Postings : Relist(p) \/ Reap(p)

LEMMA NextMarkers ==
  ASSUME MarkersInv, [Next]_vars
  PROVE  MarkersInv'
<1>1. Shape
  BY DEF MarkersInv
<1>2. CASE UNCHANGED vars
  BY <1>1, <1>2, OthersFade, TaskKeeps DEF vars, guards
<1>3. CASE Beyond
  <2>1. UNCHANGED regime /\ UNCHANGED guards /\ task' = task
    BY <1>3, Zenon DEF Beyond, Pause, Exclude, ExpireFetch, OtherSearch, run_source, Relist, Reap
  <2>2. QED
    BY <1>1, <2>1, OthersFade, TaskKeeps
<1>4. ASSUME NEW t \in Tasks, NEW failed, NEW fails,
             \/ Begin(t, failed) \/ Ingest(t) \/ Rank(t) \/ InsertRow(t, fails)
             \/ TaskError(t) \/ TaskKilled(t) \/ WorkerCrash(t)
      PROVE  MarkersInv'
  <2>1. UNCHANGED regime /\ UNCHANGED guards
    BY <1>4, Zenon DEF Begin, Ingest, Rank, InsertRow, TaskError, TaskKilled, WorkerCrash
  <2>2. QED
    BY <1>1, <1>4, <2>1, RunGoes, GoesFades, TaskKeeps
<1>5. ASSUME NEW k \in Kinds, StartSweep(k) \/ PublishFails(k) PROVE MarkersInv'
  <2>1. PICK new : SweepStep(k, new) /\ new.pc # "publish"
    <3>1. /\ IdleSweeper.pc # "publish"
          /\ [IdleSweeper EXCEPT !.pc = "check", !.todo = eligible].pc # "publish"
      BY DEF IdleSweeper
    <3>2. QED
      BY <1>5, <3>1 DEF StartSweep, PublishFails
  <2>2. UNCHANGED <<regime, marker, task, button, request>>
    BY <1>5 DEF StartSweep, PublishFails
  <2>3. QED
    BY <2>1, <2>2, SweeperPasses
<1>6. CASE \E t \in Tasks :
             \/ TaskNext(t) \/ TaskError(t) \/ TaskKilled(t) \/ WorkerCrash(t)
             \/ \E failed \in SUBSET Entries \ {{}} : Begin(t, failed)
             \/ InsertRow(t, TRUE)
             \/ \E u \in Users : HookPublish(u, t)
  BY <1>4, <1>6, ClearSweepKeeps, HookKeeps DEF TaskNext
<1>7. CASE \E k \in Kinds : SweepNext(k) \/ PublishFails(k) \/ \E u \in Users : ExpireMarker(k, u)
  BY <1>5, <1>7, CheckUserKeeps, PublishKeeps, ExpireMarkerKeeps DEF SweepNext
<1>8. CASE \E h \in Requests :
             \/ RequestNext(h) \/ ApiCrash(h)
             \/ \E u \in Users :
                  request_matching(h, u) \/ matching_status(h, u) \/ cancel_matching(h, u)
  BY <1>8, PublishSearchKeeps, NameKeeps, ProbeKeeps, ClearKeeps, ApiCrashKeeps, ClickKeeps,
     ReadButtonKeeps DEF RequestNext
<1>9. CASE \E u \in Users : ExpireButton(u)
  BY <1>9, ExpireButtonKeeps
<1>10. QED
  BY <1>2, <1>3, <1>6, <1>7, <1>8, <1>9 DEF Next, Beyond

\* What the markers in Redis say of the tasks is true: a user has at most one sweep task of a
\* kind, and the stop button points at the search under way, through errors, kills,
\* redeliveries, lost publishes, the retention and whatever the user changes.
THEOREM MarkersTrueAlways ==
  ASSUME IsFiniteSet(Requests)
  PROVE  Spec => []MarkersTrue
<1>1. MarkersInv => MarkersTrue
  <2> SUFFICES ASSUME MarkersInv PROVE OneSweepTask /\ StopFindsSearch
    BY DEF MarkersTrue
  <2>1. ASSUME NEW k \in Kinds, NEW u \in Users, regime \cap {"late"} = {},
               k = "match" \/ regime \cap {"click", "hook"} = {}
        PROVE  Cardinality({t \in InFlight : task[t].by = "sweep" /\ task[t].kind = k
                                             /\ task[t].user = u}) <= 1
    <3> DEFINE T == {t \in InFlight : task[t].by = "sweep" /\ task[t].kind = k /\ task[t].user = u}
    <3>1. \A s, t \in T : s = t
      BY <2>1 DEF MarkersInv, SweepInv, OnlySweeps, Marked, Sweeping
    <3>2. T = {} \/ \E t : T = {t}
      BY <3>1
    <3> HIDE DEF T
    <3>3. Cardinality(T) <= 1
      BY <3>2, FS_EmptySet, FS_Singleton
    <3>4. QED
      BY <3>3 DEF T
  <2>2. ASSUME Cardinality(Requests) = 1, regime \cap {"late", "api_crash"} = {},
               NEW t \in InFlight, task[t].by = "button"
        PROVE  Named(t)
    <3>1. OneRequest
      BY <2>2, FS_Singleton DEF OneRequest
    <3>2. QED
      BY <2>2, <3>1 DEF MarkersInv, SearchInv, Punctual, Searched
  <2>3. QED
    BY <2>1, <2>2 DEF OneSweepTask, StopFindsSearch, Named
<1>2. QED
  BY <1>1, InitMarkers, NextMarkers, PTL DEF Spec

-----------------------------------------------------------------------------
(* Orders and selections *)

\* How many numbers there are up to n.
LEMMA UpTo ==
  ASSUME NEW n \in Nat
  PROVE  IsFiniteSet(1..n) /\ Cardinality(1..n) = n
<1>1. 1 \in Int /\ n \in Int
  OBVIOUS
<1>2. IsFiniteSet(1..n) /\ Cardinality(1..n) = IF 1 > n THEN 0 ELSE n - 1 + 1
  BY <1>1, FS_Interval, Zenon
<1>3. QED
  BY <1>2

\* InOrder lists a set once, in the order it is given.
LEMMA InOrderIs ==
  ASSUME NEW I, IsFiniteSet(I), NEW before \in [I -> SUBSET I],
         \A i \in I : i \notin before[i],
         \A i, j \in I : i # j => i \in before[j] \/ j \in before[i],
         \A i, j \in I : i \in before[j] => before[i] \subseteq before[j]
  PROVE  /\ Cardinality(I) \in Nat /\ InOrder(before) \in [1..Cardinality(I) -> I]
         /\ \A n \in 1..Cardinality(I) : Cardinality(before[InOrder(before)[n]]) = n - 1
         /\ \A i \in I : \E n \in 1..Cardinality(I) : InOrder(before)[n] = i
         /\ \A m, n \in 1..Cardinality(I) :
              m < n <=> InOrder(before)[m] \in before[InOrder(before)[n]]
<1> DEFINE k == Cardinality(I)
           rank == [i \in I |-> Cardinality(before[i])]
           place == InOrder(before)
<1>1. k \in Nat
  BY FS_CardinalityType
<1>2. ASSUME NEW i \in I
      PROVE  IsFiniteSet(before[i]) /\ Cardinality(before[i]) \in 0..(k - 1)
  <2>1. before[i] \in SUBSET I /\ before[i] # I
    OBVIOUS
  <2>2. /\ IsFiniteSet(before[i]) /\ Cardinality(before[i]) <= k
        /\ k = Cardinality(before[i]) => I = before[i]
    BY <2>1, FS_Subset
  <2>3. Cardinality(before[i]) \in Nat
    BY <2>2, FS_CardinalityType
  <2>4. QED
    BY <1>1, <2>1, <2>2, <2>3
<1>3. ASSUME NEW i \in I, NEW j \in I, i \in before[j]
      PROVE  Cardinality(before[i]) < Cardinality(before[j])
  <2>1. before[i] \in SUBSET before[j] /\ before[i] # before[j]
    BY <1>3
  <2>2. /\ Cardinality(before[i]) <= Cardinality(before[j])
        /\ Cardinality(before[j]) = Cardinality(before[i]) => before[j] = before[i]
    BY <1>2, <2>1, FS_Subset
  <2>3. Cardinality(before[i]) \in Int /\ Cardinality(before[j]) \in Int
    BY <1>2
  <2>4. QED
    BY <2>1, <2>2, <2>3
<1>4. rank \in [I -> 0..(k - 1)]
  BY <1>2
<1>5. rank \in Injection(I, 0..(k - 1))
  <2>1. ASSUME NEW i \in I, NEW j \in I, rank[i] = rank[j] PROVE i = j
    <3>1. i # j => Cardinality(before[i]) < Cardinality(before[j])
                   \/ Cardinality(before[j]) < Cardinality(before[i])
      BY <1>3
    <3>2. Cardinality(before[i]) \in Int /\ Cardinality(before[j]) \in Int
      BY <1>2
    <3>3. QED
      BY <2>1, <3>1, <3>2
  <2>2. QED
    BY <1>4, <2>1 DEF Injection, IsInjective
<1>6. IsFiniteSet(0..(k - 1)) /\ Cardinality(0..(k - 1)) = k
  BY <1>1, FS_Interval
<1>7. \A m \in 0..(k - 1) : \E i \in I : rank[i] = m
  <2>1. Cardinality(I) = Cardinality(0..(k - 1))
    BY <1>6
  <2>2. rank \in Surjection(I, 0..(k - 1))
    BY <1>5, <1>6, <2>1, FS_Injection
  <2>3. QED
    BY <2>2 DEF Surjection
<1> HIDE DEF k
<1>8. place = [n \in 1..k |-> CHOOSE i \in I : Cardinality(before[i]) = n - 1]
  BY DEF InOrder, k
<1>9. ASSUME NEW n \in 1..k
      PROVE  place[n] \in I /\ Cardinality(before[place[n]]) = n - 1
  <2>1. n - 1 \in 0..(k - 1)
    BY <1>1
  <2>2. \E i \in I : Cardinality(before[i]) = n - 1
    BY <1>7, <2>1
  <2>3. QED
    BY <1>8, <2>2
<1>10. place \in [1..k -> I]
  BY <1>8, <1>9
<1>11. ASSUME NEW i \in I PROVE \E n \in 1..k : place[n] = i
  <2>1. Cardinality(before[i]) + 1 \in 1..k
    BY <1>1, <1>2
  <2>2. PICK n \in 1..k : n = Cardinality(before[i]) + 1
    BY <2>1
  <2>3. place[n] \in I /\ rank[place[n]] = rank[i]
    BY <1>2, <1>9, <2>2
  <2>4. QED
    BY <1>5, <2>3 DEF Injection, IsInjective
<1>12. ASSUME NEW m \in 1..k, NEW n \in 1..k
       PROVE  m < n <=> place[m] \in before[place[n]]
  <2>1. place[m] \in before[place[n]] => m < n
    BY <1>1, <1>3, <1>9
  <2>2. place[n] \in before[place[m]] => n < m
    BY <1>1, <1>3, <1>9
  <2>3. place[m] = place[n] => m = n
    BY <1>1, <1>9
  <2>4. m < n => place[m] # place[n] /\ place[n] \notin before[place[m]]
    BY <1>1, <2>2, <2>3
  <2>5. QED
    BY <1>9, <2>1, <2>4
<1>13. QED
  BY <1>1, <1>9, <1>10, <1>11, <1>12 DEF k

\* The places of a set of numbers are its members, each once, in their order.
LEMMA PlacesAre ==
  ASSUME NEW I \in SUBSET Int, IsFiniteSet(I)
  PROVE  /\ Cardinality(I) \in Nat /\ Places(I) \in [1..Cardinality(I) -> I]
         /\ \A n \in 1..Cardinality(I) : Cardinality({j \in I : j < Places(I)[n]}) = n - 1
         /\ \A i \in I : \E n \in 1..Cardinality(I) : Places(I)[n] = i
         /\ \A m, n \in 1..Cardinality(I) : m < n <=> Places(I)[m] < Places(I)[n]
<1> DEFINE before == [i \in I |-> {j \in I : j < i}]
<1>1. before \in [I -> SUBSET I]
  OBVIOUS
<1>2. \A i, j \in I : i \in before[j] <=> i < j
  OBVIOUS
<1>3. \A i \in I : i \notin before[i]
  BY <1>2
<1>4. \A i, j \in I : i # j => i \in before[j] \/ j \in before[i]
  BY <1>2
<1>5. \A i, j \in I : i \in before[j] => before[i] \subseteq before[j]
  <2> SUFFICES ASSUME NEW i \in I, NEW j \in I, i \in before[j], NEW h \in before[i]
               PROVE  h \in before[j]
    OBVIOUS
  <2>1. h \in I
    BY <1>1
  <2>2. h < i /\ i < j
    BY <1>2, <2>1
  <2>3. h < j
    BY <2>1, <2>2
  <2>4. QED
    BY <1>2, <2>1, <2>3
<1>6. Places(I) = InOrder(before)
  BY DEF Places
<1>7. \A i \in I : before[i] = {j \in I : j < i}
  OBVIOUS
<1> HIDE DEF before
<1>8. /\ Cardinality(I) \in Nat /\ InOrder(before) \in [1..Cardinality(I) -> I]
      /\ \A n \in 1..Cardinality(I) : Cardinality(before[InOrder(before)[n]]) = n - 1
      /\ \A i \in I : \E n \in 1..Cardinality(I) : InOrder(before)[n] = i
      /\ \A m, n \in 1..Cardinality(I) :
           m < n <=> InOrder(before)[m] \in before[InOrder(before)[n]]
  BY <1>1, <1>3, <1>4, <1>5, InOrderIs, Zenon
<1>9. \A n \in 1..Cardinality(I) : Places(I)[n] \in I
  BY <1>6, <1>8
<1>10. QED
  BY <1>2, <1>6, <1>7, <1>8, <1>9

\* What is picked of a sequence is a sequence of some of its elements.
LEMMA PickedType ==
  ASSUME NEW S, NEW s \in Seq(S), NEW I \in SUBSET DOMAIN s
  PROVE  /\ IsFiniteSet(I) /\ I \in SUBSET Nat /\ Cardinality(I) \in Nat
         /\ Picked(s, I) \in Seq(S) /\ Len(Picked(s, I)) = Cardinality(I)
         /\ ToSet(Picked(s, I)) = {s[i] : i \in I}
<1>1. DOMAIN s = 1..Len(s) /\ Len(s) \in Nat
  OBVIOUS
<1>2. IsFiniteSet(1..Len(s))
  BY <1>1, FS_Interval
<1>3. I \in SUBSET Nat /\ IsFiniteSet(I)
  BY <1>1, <1>2, FS_Subset
<1>4. /\ Cardinality(I) \in Nat /\ Places(I) \in [1..Cardinality(I) -> I]
      /\ \A i \in I : \E n \in 1..Cardinality(I) : Places(I)[n] = i
  BY <1>3, PlacesAre
<1>5. Picked(s, I) \in [1..Cardinality(I) -> S]
  BY <1>4 DEF Picked
<1>6. Picked(s, I) \in Seq(S) /\ Len(Picked(s, I)) = Cardinality(I)
  BY <1>4, <1>5
<1>7. ToSet(Picked(s, I)) = {s[i] : i \in I}
  BY <1>4 DEF ToSet, Picked
<1>8. QED
  BY <1>3, <1>4, <1>6, <1>7

\* The image of a finite set is finite.
LEMMA ImageIsFinite ==
  ASSUME NEW S, IsFiniteSet(S), NEW f
  PROVE  IsFiniteSet({f[x] : x \in S}) /\ Cardinality({f[x] : x \in S}) <= Cardinality(S)
<1> DEFINE g == [x \in S |-> f[x]]
           T == {f[x] : x \in S}
<1>1. g \in Surjection(S, T)
  BY DEF Surjection
<1> HIDE DEF g, T
<1>2. IsFiniteSet(T) /\ Cardinality(T) <= Cardinality(S)
  BY <1>1, FS_Surjection
<1>3. QED
  BY <1>2 DEF T

\* The greatest of some numbers is one of them.
LEMMA MaxIs ==
  ASSUME NEW S \in SUBSET Int, IsFiniteSet(S), S # {}
  PROVE  Max(S) \in S /\ \A y \in S : y <= Max(S)
<1> DEFINE k == Cardinality(S)
<1>1. /\ k \in Nat /\ Places(S) \in [1..k -> S]
      /\ \A y \in S : \E n \in 1..k : Places(S)[n] = y
      /\ \A m, n \in 1..k : m < n <=> Places(S)[m] < Places(S)[n]
  BY PlacesAre
<1> HIDE DEF k
<1>2. k \in 1..k
  <2>1. PICK y \in S : TRUE
    OBVIOUS
  <2>2. PICK n \in 1..k : Places(S)[n] = y
    BY <1>1
  <2>3. QED
    BY <1>1, <2>2
<1>3. PICK x \in S : x = Places(S)[k]
  BY <1>1, <1>2
<1>4. \A y \in S : x >= y
  <2> SUFFICES ASSUME NEW y \in S PROVE x >= y
    OBVIOUS
  <2>1. PICK n \in 1..k : Places(S)[n] = y
    BY <1>1
  <2>2. n = k \/ n < k
    BY <1>1
  <2>3. QED
    BY <1>1, <1>2, <1>3, <2>1, <2>2
<1>5. QED
  BY <1>4 DEF Max

\* The greater of two.
LEMMA MaxOfTwo ==
  ASSUME NEW a \in Int, NEW b \in Int
  PROVE  Max({a, b}) = IF a < b THEN b ELSE a
<1>1. IsFiniteSet({a} \cup {b})
  BY FS_Singleton, FS_AddElement
<1>2. {a} \cup {b} = {a, b}
  OBVIOUS
<1>3. Max({a, b}) \in {a, b} /\ \A y \in {a, b} : y <= Max({a, b})
  BY <1>1, <1>2, MaxIs
<1>4. QED
  BY <1>3

-----------------------------------------------------------------------------
(* The score *)

\* A part of the score is a whole number of units.
LEMMA FractionIsWhole ==
  ASSUME NEW n \in Nat, NEW d \in Nat
  PROVE  Fraction(n, d) \in Int
<1>1. Unit * AtMost(n, d) \in Int
  BY MatchingBounds DEF AtMost
<1>2. QED
  BY <1>1 DEF Fraction

FiniteProfile(profile) ==
    /\ IsFiniteSet(profile.skills) /\ IsFiniteSet(target_titles(profile))
    /\ \A t \in target_titles(profile) : FiniteTitle(t)

\* A title has finitely many domain words, acronyms expanded.
LEMMA TokensFinite ==
  ASSUME NEW title, FiniteTitle(title)
  PROVE  IsFiniteSet(domain_tokens(title))
<1>1. IsFiniteSet(Words(title))
  BY FS_Union DEF Words, FiniteTitle
<1>2. \A w : IsFiniteSet(Expand(w))
  BY SourcingWords, FS_Singleton DEF Expand
<1> DEFINE f == [w \in Words(title) |-> Expand(w)]
<1>6. IsFiniteSet({f[w] : w \in Words(title)})
  BY <1>1, ImageIsFinite
<1>3. IsFiniteSet({Expand(w) : w \in Words(title)})
  BY <1>6
<1>4. IsFiniteSet(UNION {Expand(w) : w \in Words(title)})
  BY <1>2, <1>3, FS_UNION
<1>5. domain_tokens(title) \in SUBSET UNION {Expand(w) : w \in Words(title)}
  BY DEF domain_tokens
<1>7. QED
  BY <1>4, <1>5, FS_Subset

\* The score of a posting is a whole number of units.
LEMMA ScoreIsWhole ==
  ASSUME NEW profile, NEW job, FiniteProfile(profile), FiniteTitle(job.title)
  PROVE  score_job(profile, job) \in Int
<1>1. skill_overlap(profile, job) \in Int
  <2> DEFINE hits == {s \in profile.skills : s \subseteq Words(job.title) \cup job.text}
  <2>1. IsFiniteSet(profile.skills) /\ hits \in SUBSET profile.skills
    BY DEF FiniteProfile
  <2>2. IsFiniteSet(hits)
    BY <2>1, FS_Subset
  <2>3. Cardinality(hits) \in Nat /\ Cardinality(profile.skills) \in Nat
    BY <2>1, <2>2, FS_CardinalityType
  <2>4. AtMost(Cardinality(profile.skills), SKILL_TARGET) \in Nat
    BY <2>3 DEF AtMost, SKILL_TARGET
  <2>5. Fraction(Cardinality(hits), AtMost(Cardinality(profile.skills), SKILL_TARGET)) \in Int
    BY <2>3, <2>4, FractionIsWhole
  <2>6. Unit \div 2 \in Int
    BY MatchingBounds
  <2> HIDE DEF hits
  <2>7. skill_overlap(profile, job) \in
          {0, Unit \div 2,
           Fraction(Cardinality(hits), AtMost(Cardinality(profile.skills), SKILL_TARGET))}
    BY DEF skill_overlap, hits
  <2>8. QED
    BY <2>5, <2>6, <2>7
<1>2. title_similarity(profile, job) \in Int
  <2> DEFINE b == domain_tokens(job.title)
             core(t) == Fraction(Cardinality(domain_tokens(t) \cap b),
                                 AtMost(Cardinality(domain_tokens(t)), Cardinality(b)))
             level(t) == IF Words(t) \cap Words(job.title) \cap Seniority # {} THEN Unit ELSE 0
             similar(t) == (85 * core(t) + 15 * level(t)) \div 100
             S == {similar(t) : t \in target_titles(profile)}
  <2>1. ASSUME NEW t \in target_titles(profile) PROVE similar(t) \in Int
    <3>1. IsFiniteSet(domain_tokens(t)) /\ IsFiniteSet(b)
      BY TokensFinite DEF FiniteProfile
    <3>2. IsFiniteSet(domain_tokens(t) \cap b)
      BY <3>1, FS_Intersection
    <3>3. /\ Cardinality(domain_tokens(t)) \in Nat /\ Cardinality(b) \in Nat
          /\ Cardinality(domain_tokens(t) \cap b) \in Nat
      BY <3>1, <3>2, FS_CardinalityType
    <3>4. AtMost(Cardinality(domain_tokens(t)), Cardinality(b)) \in Nat
      BY <3>3 DEF AtMost
    <3> HIDE DEF b
    <3>5. core(t) \in Int
      BY <3>3, <3>4, FractionIsWhole
    <3>6. level(t) \in Int
      BY MatchingBounds
    <3> HIDE DEF core, level
    <3>7. QED
      BY <3>5, <3>6
  <2> HIDE DEF core, level
  <2>2. IsFiniteSet(target_titles(profile))
    BY DEF FiniteProfile
  <2> HIDE DEF similar
  <2>3. IsFiniteSet(S)
    <3> DEFINE f == [t \in target_titles(profile) |-> similar(t)]
    <3>1. IsFiniteSet({f[t] : t \in target_titles(profile)})
      BY <2>2, ImageIsFinite
    <3>2. QED
      BY <3>1
  <2>4. IsFiniteSet(S \cup {0})
    BY <2>3, FS_AddElement
  <2>5. S \cup {0} = {0} \cup S /\ {0} \cup S \in SUBSET Int /\ {0} \cup S # {}
    BY <2>1
  <2> HIDE DEF S
  <2>6. Max({0} \cup S) \in Int
    BY <2>4, <2>5, MaxIs
  <2>7. title_similarity(profile, job) = Max({0} \cup S)
    BY DEF title_similarity, S, similar, core, level
  <2>8. QED
    BY <2>6, <2>7
<1>3. location_score(profile, job) \in Int
  BY MatchingBounds DEF location_score
<1>4. QED
  BY <1>1, <1>2, <1>3 DEF score_job

-----------------------------------------------------------------------------
(* The scans and the gates *)

\* The first elements of a sequence.
LEMMA FirstFew ==
  ASSUME NEW S, NEW s \in Seq(S), NEW n \in Nat
  PROVE  /\ AtMost(n, Len(s)) \in 0..Len(s) /\ AtMost(n, Len(s)) <= n
         /\ SubSeq(s, 1, AtMost(n, Len(s))) \in Seq(S)
         /\ Len(SubSeq(s, 1, AtMost(n, Len(s)))) = AtMost(n, Len(s))
         /\ \A i \in 1..AtMost(n, Len(s)) : SubSeq(s, 1, AtMost(n, Len(s)))[i] = s[i]
<1>1. AtMost(n, Len(s)) \in 0..Len(s) /\ AtMost(n, Len(s)) <= n
  BY DEF AtMost
<1>2. PICK k \in 0..Len(s) : k = AtMost(n, Len(s))
  BY <1>1
<1>3. /\ SubSeq(s, 1, k) \in Seq(S) /\ Len(SubSeq(s, 1, k)) = k
      /\ \A i \in 1..k : SubSeq(s, 1, k)[i] = s[i]
  OBVIOUS
<1>4. QED
  BY <1>1, <1>2, <1>3

\* A sequence is one of its own elements, and has no others.
LEMMA ListOfItsOwn ==
  ASSUME NEW S, NEW s \in Seq(S)
  PROVE  s \in Seq(ToSet(s)) /\ ToSet(s) \subseteq S
BY DEF ToSet

\* What the two scans read is a list of postings of the pool.
LEMMA ScannedIs ==
  ASSUME NEW S, NEW all \in Seq(S), NEW profile
  PROVE  Scanned(profile, all) \in Seq(S)
<1> DEFINE scan(s) == SubSeq(s, 1, AtMost(MAX_JOBS_CONSIDERED, Len(s)))
           auto == Filtered(all, can_auto_apply)
           hits == Filtered(auto, LAMBDA j : Targeted(profile, j))
           first == scan(hits)
           broad == SubSeq(auto, 1, AtMost(MAX_JOBS_CONSIDERED - Len(first), Len(auto)))
           more == Filtered(broad, LAMBDA j : j \notin ToSet(first))
<1>1. auto \in Seq(S)
  BY PickedType DEF Filtered
<1>2. Scanned(profile, all) = IF Len(first) < ScanFloor THEN first \o more ELSE first
  BY DEF Scanned
<1> HIDE DEF auto
<1>3. hits \in Seq(S)
  BY <1>1, PickedType DEF Filtered
<1> HIDE DEF hits
<1>4. first \in Seq(S) /\ Len(first) <= MAX_JOBS_CONSIDERED
  BY <1>3, FirstFew, MatchingBounds
<1> HIDE DEF first
<1>5. MAX_JOBS_CONSIDERED - Len(first) \in Nat
  BY <1>4, MatchingBounds
<1>6. broad \in Seq(S)
  BY <1>1, <1>5, FirstFew
<1> HIDE DEF broad
<1>7. more \in Seq(S)
  BY <1>6, PickedType DEF Filtered
<1> HIDE DEF more
<1>8. QED
  BY <1>2, <1>4, <1>7

\* What comes through the gates.
LEMMA CandidatesAre ==
  ASSUME NEW S, NEW all \in Seq(S), NEW profile, NEW have
  PROVE  /\ Candidates(profile, have, all) \in Seq(S)
         /\ \A j \in ToSet(Candidates(profile, have, all)) :
              /\ j \in ToSet(all) /\ Passes(profile, j)
              /\ \A q \in have \cap ToSet(all) : role_key(q) # role_key(j)
<1> DEFINE seen == Scanned(profile, all)
           held == {role_key(j) : j \in have \cap ToSet(all)}
           keep(j) == j \notin have /\ Passes(profile, j) /\ role_key(j) \notin held
           I == {i \in DOMAIN seen : keep(seen[i])}
<1>1. all \in Seq(ToSet(all)) /\ ToSet(all) \subseteq S
  BY ListOfItsOwn
<1>2. seen \in Seq(ToSet(all))
  BY <1>1, ScannedIs
<1>3. Candidates(profile, have, all) = Picked(seen, I)
  BY DEF Candidates, Filtered
<1> HIDE DEF seen
<1>4. I \in SUBSET DOMAIN seen
  OBVIOUS
<1>5. \A i \in I : keep(seen[i])
  OBVIOUS
<1> HIDE DEF I
<1>6. /\ Picked(seen, I) \in Seq(ToSet(all))
      /\ ToSet(Picked(seen, I)) = {seen[i] : i \in I}
  BY <1>2, <1>4, PickedType
<1>7. \A i \in I : seen[i] \in ToSet(all)
  BY <1>2, <1>4
<1>8. Picked(seen, I) \in Seq(S)
  BY <1>1, <1>6
<1>9. QED
  BY <1>3, <1>5, <1>6, <1>7, <1>8

-----------------------------------------------------------------------------
(* The ranking *)

EntriesOf(S) == [score : Int, job : S]
\* No role has two entries, and better ones come first.
Apart(entries) ==
    \A m, n \in DOMAIN entries : role_key(entries[m].job) = role_key(entries[n].job) => m = n
Sorted(entries) ==
    \A m, n \in DOMAIN entries : m < n => entries[m].score >= entries[n].score

\* A selection of a list, by the places it takes.
LEMMA PickedPlaces ==
  ASSUME NEW S, NEW s \in Seq(S), NEW I \in SUBSET DOMAIN s
  PROVE  /\ DOMAIN Picked(s, I) = 1..Cardinality(I) /\ Places(I) \in [1..Cardinality(I) -> I]
         /\ \A n \in 1..Cardinality(I) : Picked(s, I)[n] = s[Places(I)[n]]
         /\ \A m, n \in 1..Cardinality(I) : m < n <=> Places(I)[m] < Places(I)[n]
         /\ \A m, n \in 1..Cardinality(I) : Places(I)[m] = Places(I)[n] => m = n
<1>1. IsFiniteSet(I) /\ I \in SUBSET Int /\ Cardinality(I) \in Nat
  BY PickedType
<1>2. /\ Places(I) \in [1..Cardinality(I) -> I]
      /\ \A m, n \in 1..Cardinality(I) : m < n <=> Places(I)[m] < Places(I)[n]
  BY <1>1, PlacesAre
<1>3. \A m, n \in 1..Cardinality(I) : Places(I)[m] = Places(I)[n] => m = n
  <2> SUFFICES ASSUME NEW m \in 1..Cardinality(I), NEW n \in 1..Cardinality(I),
                      Places(I)[m] = Places(I)[n]
               PROVE  m = n
    OBVIOUS
  <2>1. ~(m < n) /\ ~(n < m)
    BY <1>1, <1>2
  <2>2. QED
    BY <1>1, <2>1
<1>4. QED
  BY <1>2, <1>3 DEF Picked

\* A selection has no role twice and stays sorted, where the list does.
LEMMA PickedApart ==
  ASSUME NEW S, NEW s \in Seq(EntriesOf(S)), NEW I \in SUBSET DOMAIN s
  PROVE  /\ Apart(s) => Apart(Picked(s, I))
         /\ Sorted(s) => Sorted(Picked(s, I))
<1>1. /\ DOMAIN Picked(s, I) = 1..Cardinality(I) /\ Places(I) \in [1..Cardinality(I) -> I]
      /\ \A n \in 1..Cardinality(I) : Picked(s, I)[n] = s[Places(I)[n]]
      /\ \A m, n \in 1..Cardinality(I) : m < n <=> Places(I)[m] < Places(I)[n]
      /\ \A m, n \in 1..Cardinality(I) : Places(I)[m] = Places(I)[n] => m = n
  BY PickedPlaces
<1>2. \A n \in 1..Cardinality(I) : Places(I)[n] \in DOMAIN s
  BY <1>1
<1>3. Apart(s) => Apart(Picked(s, I))
  BY <1>1, <1>2 DEF Apart
<1>4. Sorted(s) => Sorted(Picked(s, I))
  BY <1>1, <1>2 DEF Sorted
<1>5. QED
  BY <1>3, <1>4

\* One posting of each role is scored.
LEMMA ScoredAre ==
  ASSUME NEW S, NEW left \in Seq(S), NEW profile, \A j \in S : score_job(profile, j) \in Int
  PROVE  Scored(profile, left) \in Seq(EntriesOf(S)) /\ Apart(Scored(profile, left))
<1> DEFINE I == {i \in DOMAIN left : FirstOfRole(left, i)}
           kept == Picked(left, I)
<1>1. I \in SUBSET DOMAIN left /\ DOMAIN left \in SUBSET Nat
  OBVIOUS
<1>2. \A i, j \in I : i < j => role_key(left[i]) # role_key(left[j])
  <2> SUFFICES ASSUME NEW i \in I, NEW j \in I, i < j PROVE role_key(left[i]) # role_key(left[j])
    OBVIOUS
  <2>1. i \in 1..(j - 1)
    OBVIOUS
  <2>2. QED
    BY <2>1 DEF FirstOfRole
<1>3. Scored(profile, left) =
        [i \in DOMAIN kept |-> [score |-> score_job(profile, kept[i]), job |-> kept[i]]]
  BY DEF Scored
<1> HIDE DEF I
<1>4. /\ kept \in Seq(S) /\ Cardinality(I) \in Nat
      /\ DOMAIN kept = 1..Cardinality(I) /\ Places(I) \in [1..Cardinality(I) -> I]
      /\ \A n \in 1..Cardinality(I) : kept[n] = left[Places(I)[n]]
      /\ \A m, n \in 1..Cardinality(I) : m < n <=> Places(I)[m] < Places(I)[n]
  <2>1. kept \in Seq(S) /\ Cardinality(I) \in Nat
    BY <1>1, PickedType
  <2>2. /\ DOMAIN kept = 1..Cardinality(I) /\ Places(I) \in [1..Cardinality(I) -> I]
        /\ \A n \in 1..Cardinality(I) : kept[n] = left[Places(I)[n]]
        /\ \A m, n \in 1..Cardinality(I) : m < n <=> Places(I)[m] < Places(I)[n]
    BY <1>1, PickedPlaces
  <2>3. QED
    BY <2>1, <2>2
<1> HIDE DEF kept
<1>5. Scored(profile, left) \in Seq(EntriesOf(S))
  <2>1. \A n \in 1..Cardinality(I) : kept[n] \in S
    BY <1>4
  <2>2. Scored(profile, left) \in [1..Cardinality(I) -> EntriesOf(S)]
    BY <1>3, <1>4, <2>1 DEF EntriesOf
  <2>3. Cardinality(I) \in Nat
    BY <1>4
  <2>4. QED
    BY <2>2, <2>3
<1>6. ASSUME NEW m \in 1..Cardinality(I), NEW n \in 1..Cardinality(I), m < n
      PROVE  role_key(kept[m]) # role_key(kept[n])
  BY <1>2, <1>4, <1>6
<1>7. \A m, n \in 1..Cardinality(I) : role_key(kept[m]) = role_key(kept[n]) => m = n
  BY <1>4, <1>6
<1>8. \A n \in 1..Cardinality(I) : Scored(profile, left)[n].job = kept[n]
  BY <1>3, <1>4
<1>9. QED
  BY <1>3, <1>4, <1>5, <1>7, <1>8 DEF Apart

\* The ranking orders what was scored, and drops what is below the threshold.
LEMMA RankedAre ==
  ASSUME NEW S, NEW scored \in Seq(EntriesOf(S)), Apart(scored)
  PROVE  /\ Ranked(scored) \in Seq(EntriesOf(S))
         /\ Apart(Ranked(scored)) /\ Sorted(Ranked(scored))
<1> DEFINE D == DOMAIN scored
           ahead(j, i) == \/ scored[j].score > scored[i].score
                          \/ scored[j].score = scored[i].score /\ j < i
           before == [i \in D |-> {j \in D : ahead(j, i)}]
           place == InOrder(before)
           best == [n \in DOMAIN place |-> scored[place[n]]]
           I == {i \in DOMAIN best : best[i].score >= MIN_MATCH_SCORE}
<1>1. D = 1..Len(scored) /\ Len(scored) \in Nat /\ \A i \in D : scored[i].score \in Int
  <2>1. D = 1..Len(scored) /\ Len(scored) \in Nat /\ \A i \in D : scored[i] \in EntriesOf(S)
    OBVIOUS
  <2>2. QED
    BY <2>1 DEF EntriesOf
<1>2. IsFiniteSet(D) /\ Cardinality(D) = Len(scored)
  <2>1. IsFiniteSet(1..Len(scored)) /\ Cardinality(1..Len(scored)) = Len(scored)
    BY <1>1, UpTo
  <2>2. QED
    BY <1>1, <2>1
<1>3. Ranked(scored) = Picked(best, I)
  BY DEF Ranked, Filtered
<1>4. before \in [D -> SUBSET D]
  OBVIOUS
<1>5. \A i, j \in D : i \in before[j] <=> ahead(i, j)
  OBVIOUS
<1> HIDE DEF D, before, place, best, I
<1>6. \A i \in D : i \notin before[i]
  BY <1>1, <1>5
<1>7. \A i, j \in D : i # j => i \in before[j] \/ j \in before[i]
  BY <1>1, <1>5
<1>8. \A i, j \in D : i \in before[j] => before[i] \subseteq before[j]
  <2> SUFFICES ASSUME NEW i \in D, NEW j \in D, i \in before[j], NEW h \in before[i]
               PROVE  h \in before[j]
    OBVIOUS
  <2>1. h \in D
    BY <1>4
  <2>2. ahead(h, i) /\ ahead(i, j)
    BY <1>5, <2>1
  <2>3. ahead(h, j)
    BY <1>1, <2>1, <2>2
  <2>4. QED
    BY <1>5, <2>1, <2>3
<1>9. /\ place \in [1..Cardinality(D) -> D]
      /\ \A m, n \in 1..Cardinality(D) : m < n <=> place[m] \in before[place[n]]
  BY <1>2, <1>4, <1>6, <1>7, <1>8, InOrderIs, Zenon DEF place
<1>10. best = [n \in 1..Len(scored) |-> scored[place[n]]] /\ \A n \in 1..Len(scored) : place[n] \in D
  BY <1>2, <1>9 DEF best
<1>11. best \in Seq(EntriesOf(S)) /\ DOMAIN best = 1..Len(scored)
  <2>1. best \in [1..Len(scored) -> EntriesOf(S)]
    BY <1>1, <1>10 DEF D
  <2>2. QED
    BY <1>1, <2>1
<1>12. Sorted(best)
  <2> SUFFICES ASSUME NEW m \in 1..Len(scored), NEW n \in 1..Len(scored), m < n
               PROVE  best[m].score >= best[n].score
    BY <1>11 DEF Sorted
  <2>1. place[m] \in D /\ place[n] \in D /\ place[m] \in before[place[n]]
    BY <1>2, <1>9, <1>10
  <2>4. ahead(place[m], place[n])
    BY <1>5, <2>1
  <2>2. scored[place[m]].score >= scored[place[n]].score
    BY <1>1, <2>1, <2>4
  <2>3. QED
    BY <1>10, <2>2
<1>13. Apart(best)
  <2> SUFFICES ASSUME NEW m \in 1..Len(scored), NEW n \in 1..Len(scored),
                      role_key(best[m].job) = role_key(best[n].job)
               PROVE  m = n
    BY <1>11 DEF Apart
  <2>1. place[m] \in D /\ place[n] \in D
    BY <1>10
  <2>2. place[m] = place[n]
    BY <1>10, <2>1 DEF Apart, D
  <2>3. ~(m < n) /\ ~(n < m)
    BY <1>2, <1>6, <1>9, <2>1, <2>2
  <2>4. QED
    BY <1>1, <2>3
<1>14. I \in SUBSET DOMAIN best
  BY DEF I
<1>15. QED
  BY <1>3, <1>11, <1>12, <1>13, <1>14, PickedType, PickedApart

-----------------------------------------------------------------------------
(* The selection.  The entries of a company, those within a cap, and those taken of them. *)

Of(r, c) == {i \in DOMAIN r : r[i].job.company = c}
Within(r, cap) == {i \in DOMAIN r : Before(r, i) < cap}
Room(r, cap, limit) == AtMost(Max({1, limit}), Cardinality(Within(r, cap)))
Taken(r, cap, limit) == {Places(Within(r, cap))[n] : n \in 1..Room(r, cap, limit)}

\* Two numberings of a set that agree on its size.
LEMMA SameSize ==
  ASSUME NEW S, IsFiniteSet(S), NEW T, NEW f \in [S -> T],
         \A x, y \in S : f[x] = f[y] => x = y,
         \A y \in T : \E x \in S : f[x] = y
  PROVE  IsFiniteSet(T) /\ Cardinality(T) = Cardinality(S)
<1>1. f \in Injection(S, T) /\ f \in Surjection(S, T)
  BY DEF Injection, IsInjective, Surjection
<1>2. /\ IsFiniteSet(T)
      /\ Cardinality(T) = Cardinality(S) <=> f \in Injection(S, T)
  BY <1>1, FS_Surjection
<1>3. QED
  BY <1>1, <1>2

\* All roles being apart, the dedupe of diversify leaves the ranking as it is.
LEMMA UniqueIs ==
  ASSUME NEW S, NEW r \in Seq(EntriesOf(S)), Apart(r)
  PROVE  Unique(r) = r
<1> DEFINE D == DOMAIN r
           I == {i \in D : FirstOfRole([k \in D |-> r[k].job], i)}
<1>1. D = 1..Len(r) /\ Len(r) \in Nat
  OBVIOUS
<1>2. I = D
  <2> SUFFICES ASSUME NEW i \in D, NEW k \in 1..(i - 1)
               PROVE  role_key([j \in D |-> r[j].job][k]) # role_key([j \in D |-> r[j].job][i])
    BY DEF FirstOfRole
  <2>1. k \in D /\ k # i
    BY <1>1
  <2>2. role_key(r[k].job) # role_key(r[i].job)
    BY <2>1 DEF Apart
  <2>3. QED
    BY <2>1, <2>2
<1>3. Unique(r) = Picked(r, D)
  BY <1>2 DEF Unique
<1>4. D \in SUBSET DOMAIN r
  OBVIOUS
<1> HIDE DEF I, D
<1>5. /\ IsFiniteSet(D) /\ D \in SUBSET Int /\ Cardinality(D) = Len(r)
  BY <1>1, UpTo
<1>6. /\ Places(D) \in [1..Len(r) -> D]
      /\ \A n \in 1..Len(r) : Cardinality({j \in D : j < Places(D)[n]}) = n - 1
  BY <1>5, PlacesAre
<1>7. ASSUME NEW n \in 1..Len(r) PROVE Places(D)[n] = n
  <2>1. PICK i \in 1..Len(r) : i = Places(D)[n]
    BY <1>1, <1>6
  <2>2. {j \in D : j < i} = 1..(i - 1)
    BY <1>1
  <2>3. Cardinality(1..(i - 1)) = i - 1
    BY UpTo
  <2>4. QED
    BY <1>6, <2>1, <2>2, <2>3
<1>8. Picked(r, D) = [n \in 1..Len(r) |-> r[n]]
  BY <1>5, <1>7 DEF Picked
<1>9. QED
  BY <1>3, <1>8

\* Within a company the entries before one number it.
LEMMA BeforeIs ==
  ASSUME NEW S, NEW r \in Seq(EntriesOf(S)), NEW c
  PROVE  /\ IsFiniteSet(Of(r, c)) /\ Cardinality(Of(r, c)) \in Nat
         /\ \A i \in Of(r, c) : Before(r, i) \in 0..(Cardinality(Of(r, c)) - 1)
         /\ \A m \in 0..(Cardinality(Of(r, c)) - 1) : \E i \in Of(r, c) : Before(r, i) = m
         /\ \A i, j \in Of(r, c) : i < j <=> Before(r, i) < Before(r, j)
<1> DEFINE C == Of(r, c)
           k == Cardinality(C)
<1>1. C \in SUBSET DOMAIN r
  BY DEF Of
<1>2. IsFiniteSet(C) /\ C \in SUBSET Int /\ k \in Nat
  BY <1>1, PickedType
<1>3. /\ Places(C) \in [1..k -> C]
      /\ \A n \in 1..k : Cardinality({j \in C : j < Places(C)[n]}) = n - 1
      /\ \A i \in C : \E n \in 1..k : Places(C)[n] = i
      /\ \A m, n \in 1..k : m < n <=> Places(C)[m] < Places(C)[n]
  BY <1>2, PlacesAre
<1>4. \A i \in C : Before(r, i) = Cardinality({j \in C : j < i})
  <2> SUFFICES ASSUME NEW i \in C PROVE Before(r, i) = Cardinality({j \in C : j < i})
    OBVIOUS
  <2>1. {h \in 1..(i - 1) : r[h].job.company = r[i].job.company} = {j \in C : j < i}
    BY <1>1 DEF Of
  <2>2. QED
    BY <2>1 DEF Before
<1> HIDE DEF C, k
<1>5. \A n \in 1..k : Before(r, Places(C)[n]) = n - 1
  BY <1>3, <1>4
<1>6. \A i \in C : Before(r, i) \in 0..(k - 1)
  <2> SUFFICES ASSUME NEW i \in C PROVE Before(r, i) \in 0..(k - 1)
    OBVIOUS
  <2>1. PICK n \in 1..k : Places(C)[n] = i
    BY <1>3
  <2>2. QED
    BY <1>2, <1>5, <2>1
<1>7. \A m \in 0..(k - 1) : \E i \in C : Before(r, i) = m
  <2> SUFFICES ASSUME NEW m \in 0..(k - 1) PROVE \E i \in C : Before(r, i) = m
    OBVIOUS
  <2>1. m + 1 \in 1..k /\ (m + 1) - 1 = m
    BY <1>2
  <2>2. Places(C)[m + 1] \in C /\ Before(r, Places(C)[m + 1]) = m
    BY <1>3, <1>5, <2>1
  <2>3. QED
    BY <2>2
<1>8. ASSUME NEW i \in C, NEW j \in C
      PROVE  i < j <=> Before(r, i) < Before(r, j)
  <2>1. PICK m \in 1..k : Places(C)[m] = i
    BY <1>3
  <2>2. PICK n \in 1..k : Places(C)[n] = j
    BY <1>3
  <2>3. Before(r, i) = m - 1 /\ Before(r, j) = n - 1
    BY <1>5, <2>1, <2>2
  <2>4. m < n <=> i < j
    BY <1>3, <2>1, <2>2
  <2>5. m \in Int /\ n \in Int
    OBVIOUS
  <2>6. QED
    BY <2>3, <2>4, <2>5
<1>9. QED
  BY <1>2, <1>6, <1>7, <1>8 DEF C, k

\* A company takes no more than the cap, and takes it all when an entry is above it.
LEMMA CappedOf ==
  ASSUME NEW S, NEW r \in Seq(EntriesOf(S)), NEW c, NEW cap \in Nat,
         NEW T \in SUBSET (Of(r, c) \cap Within(r, cap))
  PROVE  /\ IsFiniteSet(T) /\ Cardinality(T) <= cap
         /\ (\E i \in Of(r, c) : Before(r, i) >= cap) /\ T = Of(r, c) \cap Within(r, cap)
              => Cardinality(T) = cap
<1> DEFINE k == Cardinality(Of(r, c))
           f == [i \in T |-> Before(r, i) + 1]
<1>1. /\ IsFiniteSet(Of(r, c)) /\ k \in Nat
      /\ \A i \in Of(r, c) : Before(r, i) \in 0..(k - 1)
      /\ \A m \in 0..(k - 1) : \E i \in Of(r, c) : Before(r, i) = m
      /\ \A i, j \in Of(r, c) : i < j <=> Before(r, i) < Before(r, j)
  BY BeforeIs
<1>2. T \in SUBSET Of(r, c) /\ \A i \in T : i \in Int /\ Before(r, i) < cap
  BY DEF Within, Of
<1>3. IsFiniteSet(T)
  BY <1>1, <1>2, FS_Subset
<1>4. IsFiniteSet(1..cap) /\ Cardinality(1..cap) = cap
  BY UpTo
<1>5. f \in [T -> 1..cap]
  BY <1>1, <1>2
<1>6. \A i, j \in T : f[i] = f[j] => i = j
  BY <1>1, <1>2
<1>7. f \in Injection(T, 1..cap)
  BY <1>5, <1>6 DEF Injection, IsInjective
<1> HIDE DEF f
<1>8. Cardinality(T) <= cap
  BY <1>4, <1>7, FS_Injection
<1>9. ASSUME NEW i \in Of(r, c), Before(r, i) >= cap, T = Of(r, c) \cap Within(r, cap)
      PROVE  Cardinality(T) = cap
  <2>1. ASSUME NEW m \in 1..cap PROVE \E j \in T : f[j] = m
    <3>1. m - 1 \in 0..(k - 1)
      BY <1>1, <1>9
    <3>2. PICK j \in Of(r, c) : Before(r, j) = m - 1
      BY <1>1, <3>1
    <3>3. j \in T
      BY <1>9, <3>2 DEF Within, Of
    <3>4. QED
      BY <3>2, <3>3 DEF f
  <2>2. Cardinality(1..cap) = Cardinality(T)
    BY <1>3, <1>5, <1>6, <2>1, SameSize
  <2>3. QED
    BY <1>4, <2>2
<1>10. QED
  BY <1>3, <1>8, <1>9

\* A company has as many roles as entries.
LEMMA RolesOfCompany ==
  ASSUME NEW S, NEW r \in Seq(EntriesOf(S)), Apart(r), NEW c
  PROVE  Cardinality({role_key(e.job) : e \in {f \in ToSet(r) : f.job.company = c}})
           = Cardinality(Of(r, c))
<1> DEFINE T == {role_key(e.job) : e \in {f \in ToSet(r) : f.job.company = c}}
           g == [i \in Of(r, c) |-> role_key(r[i].job)]
<1>1. IsFiniteSet(Of(r, c)) /\ Of(r, c) \in SUBSET DOMAIN r
  BY BeforeIs DEF Of
<1>2. g \in [Of(r, c) -> T]
  BY DEF ToSet, Of
<1>3. \A i, j \in Of(r, c) : g[i] = g[j] => i = j
  BY <1>1 DEF Apart
<1>4. \A y \in T : \E i \in Of(r, c) : g[i] = y
  BY DEF ToSet, Of
<1> HIDE DEF g, T
<1>5. Cardinality(T) = Cardinality(Of(r, c))
  BY <1>1, <1>2, <1>3, <1>4, SameSize
<1>6. QED
  BY <1>5 DEF T

\* An employer has one slot per role up to the cap: there are as many entries within it.
LEMMA SlotsAre ==
  ASSUME NEW S, NEW r \in Seq(EntriesOf(S)), NEW cap \in Nat
  PROVE  Cardinality({x \in {e.job.company : e \in ToSet(r)} \X (1..cap) :
                        x[2] <= Cardinality(Of(r, x[1]))})
           = Cardinality(Within(r, cap))
<1> DEFINE companies == {e.job.company : e \in ToSet(r)}
           slots == {x \in companies \X (1..cap) : x[2] <= Cardinality(Of(r, x[1]))}
           W == Within(r, cap)
           g == [i \in W |-> <<r[i].job.company, Before(r, i) + 1>>]
<1>1. \A c : /\ Cardinality(Of(r, c)) \in Nat
             /\ \A i \in Of(r, c) : Before(r, i) \in 0..(Cardinality(Of(r, c)) - 1)
             /\ \A m \in 0..(Cardinality(Of(r, c)) - 1) : \E i \in Of(r, c) : Before(r, i) = m
             /\ \A i, j \in Of(r, c) : i < j <=> Before(r, i) < Before(r, j)
  BY BeforeIs
<1>2. /\ W \in SUBSET DOMAIN r
      /\ \A i \in W : i \in Int /\ Before(r, i) < cap /\ i \in Of(r, r[i].job.company)
  BY DEF Within, Of
<1>3. IsFiniteSet(W)
  BY <1>2, PickedType
<1>4. ASSUME NEW i \in W
      PROVE  <<r[i].job.company, Before(r, i) + 1>> \in slots
  <2>1. PICK c : c = r[i].job.company
    OBVIOUS
  <2>2. c \in companies
    BY <1>2, <2>1 DEF ToSet
  <2>3. Before(r, i) \in 0..(Cardinality(Of(r, c)) - 1) /\ Cardinality(Of(r, c)) \in Nat
    BY <1>1, <1>2, <2>1
  <2>4. Before(r, i) < cap
    BY <1>2
  <2>5. Before(r, i) + 1 \in 1..cap /\ Before(r, i) + 1 <= Cardinality(Of(r, c))
    BY <2>3, <2>4
  <2> HIDE DEF companies
  <2>6. QED
    BY <2>1, <2>2, <2>5
<1>5. g \in [W -> slots]
  BY <1>4
<1>6. ASSUME NEW i \in W, NEW j \in W, g[i] = g[j] PROVE i = j
  <2>1. PICK c : c = r[i].job.company
    OBVIOUS
  <2>2. g[i][1] = g[j][1] /\ g[i][2] = g[j][2]
    BY <1>6
  <2>3. c = r[j].job.company /\ Before(r, i) + 1 = Before(r, j) + 1
    BY <2>1, <2>2
  <2>4. i \in Of(r, c) /\ j \in Of(r, c) /\ i \in Int /\ j \in Int
    BY <1>2, <2>1, <2>3
  <2>5. Before(r, i) \in Int /\ Before(r, j) \in Int
    BY <1>1, <2>4
  <2>6. ~(i < j) /\ ~(j < i)
    BY <1>1, <2>3, <2>4, <2>5
  <2>7. QED
    BY <2>4, <2>6
<1>7. ASSUME NEW x \in slots PROVE \E i \in W : g[i] = x
  <2>1. /\ x = <<x[1], x[2]>> /\ x[2] \in 1..cap /\ x[2] <= Cardinality(Of(r, x[1]))
        /\ Cardinality(Of(r, x[1])) \in Nat
    BY <1>1
  <2>2. PICK c : c = x[1]
    OBVIOUS
  <2>3. PICK n \in 1..cap : n = x[2]
    BY <2>1
  <2>4. n - 1 \in 0..(Cardinality(Of(r, c)) - 1)
    BY <2>1, <2>2, <2>3
  <2>5. PICK i \in Of(r, c) : Before(r, i) = n - 1
    BY <1>1, <2>4
  <2>6. i \in W /\ r[i].job.company = c
    BY <2>5 DEF Within, Of
  <2>7. g[i] = <<c, n>>
    BY <2>5, <2>6
  <2>8. QED
    BY <2>1, <2>2, <2>3, <2>6, <2>7
<1> HIDE DEF g, slots, W
<1>8. Cardinality(slots) = Cardinality(W)
  BY <1>3, <1>5, <1>6, <1>7, SameSize
<1>9. QED
  BY <1>8 DEF slots, W

\* What a pass takes: the first entries within the cap, as many as there is room for.
PassTakes(S, r, cap, limit) ==
    LET sel == pass_with(cap, r, limit)
        W == Within(r, cap)
        T == Taken(r, cap, limit)
        most == Max({1, limit})
        room == Room(r, cap, limit)
    IN  /\ sel \in Seq(EntriesOf(S)) /\ Len(sel) = room
        /\ most \in Nat \ {0} /\ Cardinality(W) \in Nat
        /\ T \subseteq W /\ W \subseteq DOMAIN r /\ IsFiniteSet(T)
        /\ Cardinality(T) = room
        /\ ToSet(sel) = {r[i] : i \in T}
        /\ \A i \in W \ T : room = most /\ \A j \in T : j < i

LEMMA PassIs ==
  ASSUME NEW S, NEW r \in Seq(EntriesOf(S)), NEW cap, NEW limit \in Nat
  PROVE  PassTakes(S, r, cap, limit)
<1> DEFINE sel == pass_with(cap, r, limit)
           W == Within(r, cap)
           T == Taken(r, cap, limit)
           most == Max({1, limit})
           room == Room(r, cap, limit)
           within == Picked(r, W)
<1>1. most \in Nat \ {0}
  BY MaxOfTwo
<1>2. W \in SUBSET DOMAIN r
  BY DEF Within
<1>3. sel = SubSeq(within, 1, AtMost(most, Len(within)))
  BY DEF pass_with, Within
<1>4. T = {Places(W)[n] : n \in 1..room} /\ room = AtMost(most, Cardinality(W))
  BY DEF Taken, Room
<1> HIDE DEF sel, W, T, most, room
<1>5. within \in Seq(EntriesOf(S)) /\ Len(within) = Cardinality(W) /\ Cardinality(W) \in Nat
  BY <1>2, PickedType
<1>6. /\ Places(W) \in [1..Cardinality(W) -> W]
      /\ \A n \in 1..Cardinality(W) : within[n] = r[Places(W)[n]]
      /\ \A m, n \in 1..Cardinality(W) : m < n <=> Places(W)[m] < Places(W)[n]
      /\ \A m, n \in 1..Cardinality(W) : Places(W)[m] = Places(W)[n] => m = n
  BY <1>2, PickedPlaces
<1>7. \A i \in W : \E n \in 1..Cardinality(W) : Places(W)[n] = i
  <2>1. IsFiniteSet(W) /\ W \in SUBSET Int
    BY <1>2, PickedType
  <2>2. QED
    BY <2>1, PlacesAre
<1> HIDE DEF within
<1>8. /\ sel \in Seq(EntriesOf(S)) /\ Len(sel) = room /\ room \in 0..Cardinality(W)
      /\ \A n \in 1..room : sel[n] = within[n]
  BY <1>1, <1>3, <1>4, <1>5, FirstFew
<1>9. T \subseteq W
  BY <1>4, <1>5, <1>6, <1>8
<1>10. IsFiniteSet(T) /\ Cardinality(T) = room
  <2> DEFINE g == [n \in 1..room |-> Places(W)[n]]
  <2>1. IsFiniteSet(1..room) /\ Cardinality(1..room) = room
    BY <1>5, <1>8, UpTo
  <2>2. g \in [1..room -> T]
    BY <1>4
  <2>3. \A m, n \in 1..room : g[m] = g[n] => m = n
    BY <1>5, <1>6, <1>8
  <2>4. \A y \in T : \E n \in 1..room : g[n] = y
    BY <1>4
  <2> HIDE DEF g
  <2>5. QED
    BY <2>1, <2>2, <2>3, <2>4, SameSize
<1>11. ToSet(sel) = {r[i] : i \in T}
  <2>1. DOMAIN sel = 1..room /\ \A n \in 1..room : sel[n] = r[Places(W)[n]]
    BY <1>5, <1>6, <1>8
  <2>2. QED
    BY <1>4, <2>1 DEF ToSet
<1>12. ASSUME NEW i \in W, i \notin T
       PROVE  room = most /\ \A j \in T : j < i
  <2>1. PICK n \in 1..Cardinality(W) : Places(W)[n] = i
    BY <1>7
  <2>2. n > room
    BY <1>4, <1>5, <1>8, <1>12, <2>1
  <2>3. room = most
    BY <1>1, <1>4, <1>5, <2>2 DEF AtMost
  <2>4. \A m \in 1..room : Places(W)[m] < i
    BY <1>5, <1>6, <1>8, <2>1, <2>2
  <2>5. QED
    BY <1>4, <2>3, <2>4
<1>13. QED
  BY <1>1, <1>2, <1>5, <1>8, <1>9, <1>10, <1>11, <1>12
     DEF PassTakes, sel, W, T, most, room

\* As many entries as places.
LEMMA EntriesCount ==
  ASSUME NEW S, NEW r \in Seq(EntriesOf(S)), Apart(r), NEW U \in SUBSET DOMAIN r
  PROVE  Cardinality({r[i] : i \in U}) = Cardinality(U)
<1> DEFINE X == {r[i] : i \in U}
           g == [i \in U |-> r[i]]
<1>1. IsFiniteSet(U)
  BY PickedType
<1>2. g \in [U -> X] /\ (\A y \in X : \E i \in U : g[i] = y)
  OBVIOUS
<1>3. \A i, j \in U : g[i] = g[j] => i = j
  BY DEF Apart
<1> HIDE DEF g, X
<1>4. Cardinality(X) = Cardinality(U)
  BY <1>1, <1>2, <1>3, SameSize
<1>5. QED
  BY <1>4 DEF X

\* Whatever the cap of a pass, what it takes is fair under that cap.
FairUnder(r, selected, cap, limit) ==
    LET in == {e \in ToSet(r) : e.job \in ToSet(selected)}
        ofCompany(X, c) == {f \in X : f.job.company = c}
        better(e) == {f \in in : f.score >= e.score}
    IN  /\ Cardinality(in) = Len(selected) /\ Len(selected) <= Max({1, limit})
        /\ \A e, f \in in : e # f => role_key(e.job) # role_key(f.job)
        /\ \A e \in in : Cardinality(ofCompany(in, e.job.company)) <= cap
        /\ \A e \in ToSet(r) \ in :
             \/ Len(selected) = Max({1, limit}) /\ better(e) = in
             \/ Cardinality(ofCompany(better(e), e.job.company)) = cap

Jobs(entries) == [n \in DOMAIN entries |-> entries[n].job]

LEMMA FairPass ==
  ASSUME NEW S, NEW r \in Seq(EntriesOf(S)), Apart(r), Sorted(r), NEW cap \in Nat \ {0},
         NEW limit \in Nat
  PROVE  FairUnder(r, Jobs(pass_with(cap, r, limit)), cap, limit)
<1> DEFINE sel == pass_with(cap, r, limit)
           selected == Jobs(sel)
           in == {e \in ToSet(r) : e.job \in ToSet(selected)}
           ofCompany(X, c) == {f \in X : f.job.company = c}
           better(e) == {f \in in : f.score >= e.score}
           W == Within(r, cap)
           T == Taken(r, cap, limit)
           most == Max({1, limit})
           room == Room(r, cap, limit)
<1>1. /\ sel \in Seq(EntriesOf(S)) /\ Len(sel) = room
      /\ most \in Nat \ {0} /\ Cardinality(W) \in Nat
      /\ T \subseteq W /\ W \subseteq DOMAIN r /\ IsFiniteSet(T)
      /\ Cardinality(T) = room
      /\ ToSet(sel) = {r[i] : i \in T}
      /\ \A i \in W \ T : room = most /\ \A j \in T : j < i
  <2>1. PassTakes(S, r, cap, limit)
    BY PassIs
  <2>2. QED
    BY <2>1, Zenon DEF PassTakes
<1>2. room \in Nat /\ room <= most
  BY <1>1 DEF Room, AtMost
<1>3. W = {i \in DOMAIN r : Before(r, i) < cap}
  BY DEF Within
<1> HIDE DEF sel, T, W, room, most
<1>4. Len(selected) = room /\ DOMAIN selected = DOMAIN sel
  BY <1>1 DEF Jobs
<1>5. ToSet(selected) = {r[i].job : i \in T}
  <2>1. ToSet(selected) = {e.job : e \in ToSet(sel)}
    BY DEF ToSet, Jobs
  <2>2. QED
    BY <1>1, <2>1
<1>6. in = {r[i] : i \in T}
  <2>1. ASSUME NEW e \in ToSet(r), e.job \in ToSet(selected) PROVE \E i \in T : e = r[i]
    <3>1. PICK k \in DOMAIN r : e = r[k]
      BY DEF ToSet
    <3>2. PICK i \in T : r[k].job = r[i].job
      BY <1>5, <2>1, <3>1
    <3>3. k = i
      BY <1>1, <3>2 DEF Apart
    <3>4. QED
      BY <3>1, <3>3
  <2>2. \A i \in T : r[i] \in ToSet(r) /\ r[i].job \in ToSet(selected)
    BY <1>1, <1>5 DEF ToSet
  <2>3. QED
    BY <2>1, <2>2
<1> HIDE DEF selected, in
<1>7. Cardinality(in) = room
  BY <1>1, <1>6, EntriesCount
<1>8. \A e, f \in in : e # f => role_key(e.job) # role_key(f.job)
  BY <1>1, <1>6 DEF Apart
<1>9. ASSUME NEW c
      PROVE  /\ ofCompany(in, c) = {r[i] : i \in T \cap Of(r, c)}
             /\ Cardinality(ofCompany(in, c)) = Cardinality(T \cap Of(r, c))
             /\ Cardinality(T \cap Of(r, c)) <= cap
             /\ T \cap Of(r, c) \in SUBSET (Of(r, c) \cap W)
  <2>1. ofCompany(in, c) = {r[i] : i \in T \cap Of(r, c)}
    BY <1>1, <1>6 DEF Of
  <2>2. T \cap Of(r, c) \in SUBSET DOMAIN r /\ T \cap Of(r, c) \in SUBSET (Of(r, c) \cap W)
    BY <1>1
  <2>3. Cardinality(ofCompany(in, c)) = Cardinality(T \cap Of(r, c))
    BY <2>1, <2>2, EntriesCount
  <2>4. Cardinality(T \cap Of(r, c)) <= cap
    BY <2>2, CappedOf DEF W
  <2>5. QED
    BY <2>1, <2>2, <2>3, <2>4
<1>10. \A e \in in : Cardinality(ofCompany(in, e.job.company)) <= cap
  BY <1>9
<1>11. ASSUME NEW k \in DOMAIN r, NEW j \in DOMAIN r, j < k PROVE r[j].score >= r[k].score
  BY <1>11 DEF Sorted
<1>12. ASSUME NEW e \in ToSet(r) \ in
       PROVE  \/ room = most /\ better(e) = in
              \/ Cardinality(ofCompany(better(e), e.job.company)) = cap
  <2>1. PICK k \in DOMAIN r : e = r[k]
    BY DEF ToSet
  <2>2. k \notin T
    BY <1>6, <1>12, <2>1
  <2>3. (\A j \in T : j < k) => better(e) = in
    <3> SUFFICES ASSUME \A j \in T : j < k PROVE \A f \in in : f.score >= e.score
      OBVIOUS
    <3> QED
      BY <1>1, <1>6, <1>11, <2>1
  <2>4. CASE k \in W
    BY <1>1, <2>2, <2>3, <2>4
  <2>5. CASE k \notin W
    <3>1. PICK c : c = e.job.company
      OBVIOUS
    <3>2. /\ \A i \in Of(r, c) : Before(r, i) \in Nat
          /\ \A i, j \in Of(r, c) : i < j <=> Before(r, i) < Before(r, j)
      <4>1. /\ Cardinality(Of(r, c)) \in Nat
            /\ \A i \in Of(r, c) : Before(r, i) \in 0..(Cardinality(Of(r, c)) - 1)
            /\ \A i, j \in Of(r, c) : i < j <=> Before(r, i) < Before(r, j)
        BY BeforeIs
      <4>2. QED
        BY <4>1
    <3>3. k \in Of(r, c)
      BY <2>1, <3>1 DEF Of
    <3>4. Before(r, k) >= cap
      BY <1>3, <2>5, <3>2, <3>3
    <3>5. \A j \in Of(r, c) \cap W : j < k /\ j \in DOMAIN r
      BY <1>1, <1>3, <3>2, <3>3, <3>4
    <3>6. CASE Of(r, c) \cap W \subseteq T
      <4>1. T \cap Of(r, c) = Of(r, c) \cap W
        BY <1>1, <3>6
      <4>2. \A f \in ofCompany(in, c) : f.score >= e.score
        <5> SUFFICES ASSUME NEW f \in ofCompany(in, c) PROVE f.score >= e.score
          OBVIOUS
        <5>1. PICK i \in T \cap Of(r, c) : f = r[i]
          <6>1. ofCompany(in, c) = {r[i] : i \in T \cap Of(r, c)}
            BY <1>9
          <6>2. QED
            BY <6>1
        <5>2. i < k /\ i \in DOMAIN r
          BY <3>5, <4>1
        <5>3. QED
          BY <1>11, <2>1, <5>1, <5>2
      <4>3. ofCompany(better(e), c) = ofCompany(in, c)
        BY <4>2
      <4>4. Cardinality(T \cap Of(r, c)) = cap
        <5>1. \E i \in Of(r, c) : Before(r, i) >= cap
          BY <3>3, <3>4
        <5>2. T \cap Of(r, c) \in SUBSET (Of(r, c) \cap Within(r, cap))
          BY <1>9 DEF W
        <5>3. T \cap Of(r, c) = Of(r, c) \cap Within(r, cap)
          BY <4>1 DEF W
        <5>4. QED
          BY <5>1, <5>2, <5>3, CappedOf
      <4>5. Cardinality(ofCompany(in, c)) = cap
        BY <1>9, <4>4
      <4>6. QED
        BY <3>1, <4>3, <4>5
    <3>7. CASE ~(Of(r, c) \cap W \subseteq T)
      <4>1. PICK j \in W \ T : j \in Of(r, c)
        BY <3>7
      <4>2. room = most /\ \A i \in T : i < j
        BY <1>1, <4>1
      <4>3. j < k /\ j \in Int /\ k \in Int /\ \A i \in T : i \in Int
        BY <1>1, <3>5, <4>1
      <4>4. \A i \in T : i < k
        BY <4>2, <4>3
      <4>5. QED
        BY <2>3, <4>2, <4>4
    <3>8. QED
      BY <3>6, <3>7
  <2>6. QED
    BY <2>4, <2>5
<1>13. /\ Cardinality(in) = Len(selected) /\ Len(selected) <= most
       /\ \A e \in ToSet(r) \ in :
            \/ Len(selected) = most /\ better(e) = in
            \/ Cardinality(ofCompany(better(e), e.job.company)) = cap
  BY <1>2, <1>4, <1>7, <1>12
<1>14. QED
  BY <1>8, <1>10, <1>13, Zenon DEF FairUnder, most, in, selected, sel

\* diversify makes a fair selection of any ranking, with the doubled cap exactly when the strict
\* one leaves the list short.
LEMMA FairDiversify ==
  ASSUME NEW S, NEW r \in Seq(EntriesOf(S)), Apart(r), Sorted(r), NEW limit \in Nat
  PROVE  /\ diversify(r, limit) \in Seq(EntriesOf(S)) /\ Apart(diversify(r, limit))
         /\ ToSet(diversify(r, limit)) \subseteq ToSet(r)
         /\ FairSelection(r, Jobs(diversify(r, limit)), limit)
<1> DEFINE MAX == MAX_MATCHES_PER_COMPANY
           roomy == Len(pass_with(MAX, r, limit)) < ShortList(limit)
           cap == IF roomy THEN 2 * MAX ELSE MAX
           best == pass_with(cap, r, limit)
<1>1. MAX \in Nat \ {0} /\ cap \in Nat \ {0}
  BY MatchingBounds
<1>2. diversify(r, limit) = best
  BY UniqueIs DEF diversify
<1> DEFINE companies == {e.job.company : e \in ToSet(r)}
           rolesOf(c) == {role_key(e.job) : e \in {f \in ToSet(r) : f.job.company = c}}
           slots == {x \in companies \X (1..MAX) : x[2] <= Cardinality(rolesOf(x[1]))}
           strict == Cardinality(slots)
<1>3. strict = Cardinality(Within(r, MAX)) /\ strict \in Nat
  <2>1. \A c : Cardinality(rolesOf(c)) = Cardinality(Of(r, c))
    BY RolesOfCompany
  <2> HIDE DEF rolesOf
  <2>2. slots = {x \in companies \X (1..MAX) : x[2] <= Cardinality(Of(r, x[1]))}
    BY <2>1
  <2>3. strict = Cardinality(Within(r, MAX))
    BY <1>1, <2>2, SlotsAre
  <2>4. Cardinality(Within(r, MAX)) \in Nat
    <3>1. PassTakes(S, r, MAX, limit)
      BY PassIs
    <3>2. QED
      BY <3>1 DEF PassTakes
  <2>5. QED
    BY <2>3, <2>4
<1>4. Len(pass_with(MAX, r, limit)) = AtMost(Max({1, limit}), strict)
  <2>1. Len(pass_with(MAX, r, limit)) = Room(r, MAX, limit)
    <3>1. PassTakes(S, r, MAX, limit)
      BY PassIs
    <3>2. QED
      BY <3>1 DEF PassTakes
  <2>2. QED
    BY <1>3, <2>1 DEF Room
<1> HIDE DEF strict
<1>5. Max({1, limit}) = (IF 1 < limit THEN limit ELSE 1) /\ ShortList(limit) >= 3
  <2>1. limit \div 4 \in Int
    OBVIOUS
  <2>2. ShortList(limit) = IF 3 < limit \div 4 THEN limit \div 4 ELSE 3
    BY <2>1, MaxOfTwo DEF ShortList
  <2>3. QED
    BY <2>1, <2>2, MaxOfTwo
<1>6. ShortList(limit) \in Int
  <2>1. limit \div 4 \in Int
    OBVIOUS
  <2>2. QED
    BY <2>1, MaxOfTwo DEF ShortList
<1>7. roomy <=> AtMost(strict, limit) < ShortList(limit)
  BY <1>3, <1>4, <1>5, <1>6 DEF AtMost
<1> HIDE DEF roomy
<1>8. cap = IF AtMost(strict, limit) < ShortList(limit) THEN 2 * MAX ELSE MAX
  BY <1>7
<1> HIDE DEF cap
<1>9. /\ best \in Seq(EntriesOf(S)) /\ Apart(best) /\ ToSet(best) \subseteq ToSet(r)
  <2>1. /\ best \in Seq(EntriesOf(S)) /\ ToSet(best) = {r[i] : i \in Taken(r, cap, limit)}
        /\ Taken(r, cap, limit) \subseteq Within(r, cap) /\ Within(r, cap) \subseteq DOMAIN r
    <3>1. PassTakes(S, r, cap, limit)
      BY PassIs
    <3>2. QED
      BY <3>1, Zenon DEF PassTakes
  <2>2. ToSet(best) \subseteq ToSet(r)
    BY <2>1 DEF ToSet
  <2>3. Apart(best)
    <3> DEFINE within == Picked(r, Within(r, cap))
    <3>1. best = SubSeq(within, 1, AtMost(Max({1, limit}), Len(within)))
      BY DEF pass_with, Within
    <3>2. PICK most \in Nat : most = Max({1, limit})
      BY <1>5
    <3>3. within \in Seq(EntriesOf(S)) /\ Apart(within)
      BY <2>1, PickedType, PickedApart
    <3> HIDE DEF within
    <3> HIDE DEF best
    <3>4. \A i \in 1..Len(best) : best[i] = within[i] /\ i \in DOMAIN within
      <4>1. best = SubSeq(within, 1, AtMost(most, Len(within)))
        BY <3>1, <3>2
      <4>2. /\ AtMost(most, Len(within)) \in 0..Len(within)
            /\ Len(best) = AtMost(most, Len(within))
            /\ \A i \in 1..AtMost(most, Len(within)) : best[i] = within[i]
        BY <3>3, <4>1, FirstFew
      <4>3. QED
        BY <3>3, <4>2
    <3>5. DOMAIN best = 1..Len(best)
      BY <2>1
    <3>6. QED
      BY <3>3, <3>4, <3>5 DEF Apart
  <2>4. QED
    BY <2>1, <2>2, <2>3
<1>10. FairUnder(r, Jobs(best), cap, limit)
  BY <1>1, FairPass
<1>11. FairSelection(r, Jobs(best), limit)
  BY <1>8, <1>10, Zenon DEF FairUnder, FairSelection, strict
<1> HIDE DEF best
<1>12. QED
  BY <1>2, <1>9, <1>11

-----------------------------------------------------------------------------
(* Searches, fetches and the pool *)

\* The places of nested loops.
LEMMA LoopPlace ==
  ASSUME NEW a \in Nat, NEW b \in Nat, NEW n \in 1..(a * b)
  PROVE  ((n - 1) \div b) + 1 \in 1..a /\ ((n - 1) % b) + 1 \in 1..b
<1>1. b > 0
  <2>1. b = 0 => a * b = 0
    OBVIOUS
  <2>2. QED
    BY <2>1
<1> DEFINE q == (n - 1) \div b
           m == (n - 1) % b
<1>2. q \in Int /\ m \in 0..(b - 1) /\ n - 1 = b * q + m
  BY <1>1
<1> HIDE DEF q, m
<1>3. q >= 0
  <2>1. q <= -1 => b * q <= b * (-1)
    BY <1>1, <1>2
  <2>2. QED
    BY <1>1, <1>2, <2>1
<1>4. q < a
  <2>1. q >= a => b * q >= b * a
    BY <1>1, <1>2
  <2>2. b * a = a * b
    OBVIOUS
  <2>3. QED
    BY <1>1, <1>2, <2>1, <2>2
<1>5. QED
  BY <1>2, <1>3, <1>4 DEF q, m

\* Nested loops make pairs.
LEMMA PairsAre ==
  ASSUME NEW S, NEW s \in Seq(S), NEW T, NEW t \in Seq(T)
  PROVE  Pairs(s, t) \in Seq(S \X T)
<1>1. Len(s) * Len(t) \in Nat
  OBVIOUS
<1>2. ASSUME NEW n \in 1..(Len(s) * Len(t))
      PROVE  <<s[((n - 1) \div Len(t)) + 1], t[((n - 1) % Len(t)) + 1]>> \in S \X T
  <2>1. ((n - 1) \div Len(t)) + 1 \in 1..Len(s) /\ ((n - 1) % Len(t)) + 1 \in 1..Len(t)
    BY LoopPlace
  <2>2. QED
    BY <2>1
<1>3. QED
  BY <1>1, <1>2 DEF Pairs

\* A plan pairs sources with queries.
LEMMA PlanIs ==
  ASSUME NEW u \in Users
  PROVE  /\ fetch_plan(Person[u].search) \in Seq(Entries)
         /\ \A e \in ToSet(fetch_plan(Person[u].search)) : e[1] \in Sources
<1> DEFINE search == Person[u].search
           all == Pairs(search.countries, search.titles)
           asked == queries(search)
           plan == fetch_plan(search)
           first == Pairs(QuerySources, asked)
           second == Pairs(FeedSources, <<NoQuery>>)
<1>1. IsList(search.titles) /\ IsList(search.countries) /\ IsList(QuerySources) /\ IsList(FeedSources)
  BY SourcingPeople, SourcingBoards
<1>2. PICK A : all \in Seq(A)
  <2>1. all \in Seq(ToSet(search.countries) \X ToSet(search.titles))
    BY <1>1, PairsAre DEF IsList
  <2>2. QED
    BY <2>1
<1>3. PICK Q : asked \in Seq(Q)
  <2> DEFINE k == AtMost(MAX_DEMAND_QUERIES, Len(all))
             ask == [n \in 1..k |-> [what |-> all[n][2], country |-> all[n][1]]]
             Q == {ask[n] : n \in 1..k}
  <2>1. k \in Nat
    BY <1>2, SourcingBoards DEF AtMost
  <2>2. ask \in [1..k -> Q]
    <3> HIDE DEF k
    <3>1. \A n \in 1..k : ask[n] \in Q
      OBVIOUS
    <3>2. DOMAIN ask = 1..k /\ ask = [n \in 1..k |-> ask[n]]
      OBVIOUS
    <3> HIDE DEF ask, Q
    <3>3. QED
      BY <3>1, <3>2
  <2>3. ask \in Seq(Q)
    <3> HIDE DEF k, ask, Q
    <3>1. QED
      BY <2>1, <2>2
  <2>4. asked = ask
    BY DEF queries
  <2>5. QED
    BY <2>3, <2>4
<1> HIDE DEF all, asked
<1>4. first \in Seq(Sources \X (Q \cup {NoQuery})) /\ second \in Seq(Sources \X (Q \cup {NoQuery}))
  <2>1. asked \in Seq(Q \cup {NoQuery}) /\ <<NoQuery>> \in Seq(Q \cup {NoQuery})
    BY <1>3
  <2>2. QuerySources \in Seq(Sources) /\ FeedSources \in Seq(Sources)
    BY <1>1 DEF IsList, Sources
  <2>3. QED
    BY <2>1, <2>2, PairsAre
<1>5. plan = first \o second
  BY DEF fetch_plan, asked
<1> HIDE DEF first, second, plan
<1>6. plan \in Seq(Sources \X (Q \cup {NoQuery}))
  BY <1>4, <1>5
<1>7. plan \in Seq(ToSet(plan)) /\ ToSet(plan) \subseteq Sources \X (Q \cup {NoQuery})
  BY <1>6, ListOfItsOwn
<1>8. ToSet(plan) \subseteq Entries
  BY DEF Entries, plan
<1>9. plan \in Seq(Entries)
  BY <1>7, <1>8
<1>10. \A e \in ToSet(plan) : e[1] \in Sources
  BY <1>7
<1>11. QED
  BY <1>9, <1>10 DEF plan

\* A source returns a list of postings, or none.
LEMMA FetchIs ==
  ASSUME NEW e, e[1] \in Sources
  PROVE  fetch(e) \in Seq(Postings)
<1> DEFINE query == e[2]
           hit(p) == /\ p \in listed
                     /\ \/ query = NoQuery
                        \/ /\ domain_tokens(query.what) \cap domain_tokens(p.title) # {}
                           /\ query.country \in p.countries
           board == Board[e[1]]
           I == {i \in DOMAIN board : hit(board[i])}
<1>1. board \in Seq(ToSet(board)) /\ e[1] \in DOMAIN Board
  BY SourcingBoards DEF IsList
<1>2. ToSet(board) \subseteq Postings
  BY <1>1 DEF Postings
<1>3. board \in Seq(Postings)
  BY <1>1, <1>2
<1>4. fetch(e) = Picked(board, I)
  BY DEF fetch, Filtered
<1> HIDE DEF hit, board
<1>5. I \in SUBSET DOMAIN board
  OBVIOUS
<1> HIDE DEF I
<1>6. QED
  BY <1>3, <1>4, <1>5, PickedType

\* What _ingest keeps of them is one too.
LEMMA IngestedIs ==
  ASSUME NEW s \in Seq(Postings), NEW barred
  PROVE  ingested(s, barred) \in Seq(Postings)
<1> DEFINE cap == IF SourceCap > 0 THEN SourceCap ELSE Len(s)
           some == SubSeq(s, 1, AtMost(cap, Len(s)))
           I == {i \in DOMAIN some : ~Excluded(barred, some[i])}
<1>1. cap \in Nat
  <2>1. SourceCap \in Nat /\ Len(s) \in Nat
    BY SourcingBoards
  <2>2. QED
    BY <2>1
<1> HIDE DEF cap
<1>2. some \in Seq(Postings)
  BY <1>1, FirstFew
<1>3. ingested(s, barred) = Picked(some, I)
  BY DEF ingested, Filtered, cap
<1> HIDE DEF some
<1>4. I \in SUBSET DOMAIN some
  OBVIOUS
<1> HIDE DEF I
<1>5. QED
  BY <1>2, <1>3, <1>4, PickedType

\* Reversing keeps the elements and the length.
LEMMA ReverseIs ==
  ASSUME NEW S, NEW s \in Seq(S)
  PROVE  /\ Reverse(s) \in Seq(S) /\ Len(Reverse(s)) = Len(s)
         /\ \A n \in 1..Len(s) : Reverse(s)[n] = s[Len(s) - n + 1]
<1>1. PICK k \in Nat : k = Len(s)
  OBVIOUS
<1>2. \A n \in 1..k : k - n + 1 \in 1..k
  OBVIOUS
<1>3. \A n \in 1..k : s[k - n + 1] \in S
  BY <1>1, <1>2
<1>4. Reverse(s) = [n \in 1..k |-> s[k - n + 1]]
  BY <1>1 DEF Reverse
<1>5. Reverse(s) \in [1..k -> S]
  BY <1>3, <1>4
<1>6. Reverse(s) \in Seq(S) /\ Len(Reverse(s)) = k
  BY <1>1, <1>5
<1>7. QED
  BY <1>1, <1>4, <1>6

\* What is new goes before the rest of the pool, each posting once.
LEMMA UpsertIs ==
  ASSUME pool \in Seq(Postings), IsInjective(pool), NEW s \in Seq(Postings)
  PROVE  /\ upsert(s) \in Seq(Postings) /\ IsInjective(upsert(s))
         /\ ToSet(pool) \subseteq ToSet(upsert(s))
<1> DEFINE isNew(i) == s[i] \notin ToSet(pool) /\ \A k \in 1..(i - 1) : s[k] # s[i]
           I == {i \in DOMAIN s : isNew(i)}
           new == Picked(s, I)
           back == Reverse(new)
<1>1. upsert(s) = back \o pool
  BY DEF upsert
<1>2. I \in SUBSET DOMAIN s /\ \A i \in I : s[i] \notin ToSet(pool) /\ i \in Nat
  OBVIOUS
<1>3. \A i, j \in I : s[i] = s[j] => i = j
  <2> SUFFICES ASSUME NEW i \in I, NEW j \in I, i < j PROVE s[i] # s[j]
    BY <1>2
  <2>1. i \in 1..(j - 1)
    OBVIOUS
  <2>2. QED
    BY <2>1
<1> HIDE DEF I
<1>4. /\ new \in Seq(Postings) /\ Len(new) = Cardinality(I) /\ Cardinality(I) \in Nat
      /\ ToSet(new) = {s[i] : i \in I}
  BY <1>2, PickedType
<1>5. \A m, n \in 1..Cardinality(I) : new[m] = new[n] => m = n
  <2>1. /\ Places(I) \in [1..Cardinality(I) -> I]
        /\ \A n \in 1..Cardinality(I) : new[n] = s[Places(I)[n]]
        /\ \A m, n \in 1..Cardinality(I) : Places(I)[m] = Places(I)[n] => m = n
    BY <1>2, PickedPlaces
  <2> HIDE DEF new
  <2>2. QED
    BY <1>3, <2>1
<1>6. \A n \in 1..Len(new) : new[n] \notin ToSet(pool)
  <2>1. \A n \in 1..Len(new) : new[n] \in ToSet(new)
    BY <1>4 DEF ToSet
  <2>2. QED
    BY <1>2, <1>4, <2>1
<1> HIDE DEF new
<1>7. /\ back \in Seq(Postings) /\ Len(back) = Len(new)
      /\ \A n \in 1..Len(new) : back[n] = new[Len(new) - n + 1]
  BY <1>4, ReverseIs
<1> HIDE DEF back
<1>8. \A m, n \in 1..Len(back) : back[m] = back[n] => m = n
  <2> SUFFICES ASSUME NEW m \in 1..Len(back), NEW n \in 1..Len(back), back[m] = back[n] PROVE m = n
    OBVIOUS
  <2>1. PICK k \in Nat : k = Len(new) /\ k = Cardinality(I) /\ k = Len(back)
    BY <1>4, <1>7
  <2>2. new[k - m + 1] = new[k - n + 1]
    BY <1>7, <2>1
  <2>3. k - m + 1 \in 1..k /\ k - n + 1 \in 1..k
    BY <2>1
  <2>4. k - m + 1 = k - n + 1
    BY <1>5, <2>1, <2>2, <2>3
  <2>5. QED
    BY <2>1, <2>4
<1>9. \A n \in 1..Len(back) : back[n] \notin ToSet(pool)
  <2> SUFFICES ASSUME NEW n \in 1..Len(back) PROVE back[n] \notin ToSet(pool)
    OBVIOUS
  <2>1. PICK k \in Nat : k = Len(new) /\ k = Cardinality(I) /\ k = Len(back)
    BY <1>4, <1>7
  <2>2. back[n] = new[k - n + 1] /\ k - n + 1 \in 1..k
    BY <1>7, <2>1
  <2>3. QED
    BY <1>6, <2>1, <2>2
<1>10. PICK all : all = back \o pool
  OBVIOUS
<1>11. /\ all \in Seq(Postings) /\ Len(all) = Len(back) + Len(pool)
       /\ \A n \in 1..Len(back) : all[n] = back[n]
       /\ \A n \in 1..Len(pool) : all[Len(back) + n] = pool[n]
       /\ \A n \in DOMAIN all : n \in 1..Len(back) \/ \E m \in 1..Len(pool) : n = Len(back) + m
  <2>1. back \in Seq(Postings) /\ Len(back) \in Nat /\ Len(pool) \in Nat
    BY <1>7
  <2>2. all \in Seq(Postings) /\ Len(all) = Len(back) + Len(pool)
    BY <1>10, <2>1
  <2>3. /\ \A n \in 1..Len(back) : all[n] = back[n]
        /\ \A n \in 1..Len(pool) : all[Len(back) + n] = pool[n]
    BY <1>10, <2>1
  <2>4. ASSUME NEW n \in DOMAIN all, n \notin 1..Len(back)
        PROVE  \E m \in 1..Len(pool) : n = Len(back) + m
    <3>1. n - Len(back) \in 1..Len(pool) /\ n = Len(back) + (n - Len(back))
      BY <2>1, <2>2, <2>4
    <3>2. QED
      BY <3>1
  <2>5. QED
    BY <2>2, <2>3, <2>4
<1>12. ToSet(pool) \subseteq ToSet(all)
  <2> SUFFICES ASSUME NEW n \in 1..Len(pool) PROVE \E k \in DOMAIN all : all[k] = pool[n]
    BY DEF ToSet
  <2>1. Len(back) + n \in DOMAIN all
    BY <1>7, <1>11
  <2>2. QED
    BY <1>11, <2>1
<1>13. IsInjective(all)
  <2>1. ASSUME NEW a \in DOMAIN all, NEW b \in DOMAIN all, all[a] = all[b] PROVE a = b
    <3>1. \A n \in 1..Len(pool) : pool[n] \in ToSet(pool)
      BY DEF ToSet
    <3>2. \A m, n \in 1..Len(pool) : pool[m] = pool[n] => m = n
      BY DEF IsInjective
    <3>3. CASE a \in 1..Len(back) /\ b \in 1..Len(back)
      BY <1>8, <1>11, <2>1, <3>3
    <3>4. CASE a \in 1..Len(back) /\ b \notin 1..Len(back)
      <4>1. PICK m \in 1..Len(pool) : b = Len(back) + m
        BY <1>11, <3>4
      <4>2. QED
        BY <1>9, <1>11, <2>1, <3>1, <3>4, <4>1
    <3>5. CASE a \notin 1..Len(back) /\ b \in 1..Len(back)
      <4>1. PICK m \in 1..Len(pool) : a = Len(back) + m
        BY <1>11, <3>5
      <4>2. QED
        BY <1>9, <1>11, <2>1, <3>1, <3>5, <4>1
    <3>6. CASE a \notin 1..Len(back) /\ b \notin 1..Len(back)
      <4>1. PICK m \in 1..Len(pool), n \in 1..Len(pool) : a = Len(back) + m /\ b = Len(back) + n
        BY <1>11, <3>6
      <4>2. all[a] = pool[m] /\ all[b] = pool[n]
        BY <1>11, <4>1
      <4>3. m = n
        BY <2>1, <3>2, <4>2
      <4>4. QED
        BY <4>1, <4>3
    <3>7. QED
      BY <3>3, <3>4, <3>5, <3>6
  <2>2. QED
    BY <2>1 DEF IsInjective
<1>14. QED
  BY <1>1, <1>10, <1>11, <1>12, <1>13

-----------------------------------------------------------------------------
(* What the state holds *)

\* Ids of documents: one is in the pool or was removed.
Known(ids) ==
    /\ ids \subseteq JobIds
    /\ \A id \in ids : /\ id[2] <= reaped[id[1]]
                       /\ id[2] = reaped[id[1]] => id[1] \in ToSet(pool)

\* The pool is a list of postings, each once; the rows of a user are of documents.
Stocked ==
    /\ pool \in Seq(Postings) /\ IsInjective(pool)
    /\ listed \subseteq Postings /\ cached \subseteq Entries
    /\ DOMAIN reaped = Postings /\ \A p \in Postings : reaped[p] \in Nat
    /\ DOMAIN rows = Users /\ \A u \in Users : Known(rows[u])

\* A document stays in the pool or is counted as removed.
Forward ==
    \A p \in Postings :
        /\ reaped[p] \in Nat /\ reaped'[p] \in Nat /\ reaped[p] <= reaped'[p]
        /\ reaped'[p] = reaped[p] /\ p \in ToSet(pool) => p \in ToSet(pool')

\* Markers, sweeps and requests are of users and tasks; only a sweep that is on goes on.
Settled ==
    /\ regime \in Regimes /\ events \in 0..MaxEvents /\ eligible \subseteq Users
    /\ \A u \in Users : button[u] \in Tasks \cup {NoTask}
    /\ \A k \in Kinds :
         /\ marker[k] \subseteq Users /\ sweeper[k].todo \subseteq Users
         /\ SweepAt(k, "publish") => sweeper[k].user \in Users
         /\ ~SweepAt(k, "idle") => k \in regime
    /\ \A h \in Requests : RequestAt(h, "set") => request[h].task \in Tasks

\* What a run is about to insert: ids of documents, one of a role, none of a company that
\* was barred when it ranked.
Chosen(selected, barred) ==
    /\ selected \in Seq(JobIds) /\ Known(ToSet(selected))
    /\ \A id \in ToSet(selected) : ~Excluded(barred, id[1])
    /\ \A m, n \in DOMAIN selected : role_key(selected[m][1]) = role_key(selected[n][1]) => m = n

RunTrue(x) ==
    /\ x.plan \in Seq(Entries) /\ x.results \in Seq(Seq(Postings))
    /\ Len(x.results) = Len(x.plan) /\ (x.pc = "ingest" => x.plan # <<>>)
    /\ Chosen(x.selected, x.barred) /\ (x.pc = "insert" <=> x.selected # <<>>)
    /\ x.pc # "done" => x.user \in Users /\ x.kind \in Kinds /\ (x.by = "sweep" => x.kind \in regime)

DataInv == Stocked /\ Settled /\ \A t \in Tasks : RunTrue(task[t])

\* The runs of a user; one that holds a role is about to insert a posting of it.
Runs(u) == {t \in Running : task[t].user = u}
Holding(u, role) == {t \in Runs(u) : \E id \in ToSet(task[t].selected) : role_key(id[1]) = role}
Having(u, role) == {q \in Live(u) : role_key(q) = role}
RolesInv ==
    /\ \A u \in Users : Cardinality(Runs(u)) <= Workers
    /\ \A u \in Users : \A role \in {role_key(p) : p \in Postings} :
         Cardinality(Having(u, role)) + Cardinality(Holding(u, role)) <= Allowed

-----------------------------------------------------------------------------
(* What a run selects *)

\* The profile a run reads is finite, and names the companies the user excludes now.
LEMMA ProfileIs ==
  ASSUME NEW u \in Users
  PROVE  /\ FiniteProfile(Profile(u)) /\ Profile(u).excluded = excluded[u]
<1> DEFINE p == Profile(u)
<1>1. DOMAIN Person[u] = {"stated", "latest", "skills", "excluded", "countries", "remote",
                          "places", "search"}
  BY SourcingPeople
<1>2. /\ p.stated = Person[u].stated /\ p.latest = Person[u].latest
      /\ p.skills = Person[u].skills /\ p.excluded = excluded[u]
  BY <1>1 DEF Profile
<1> HIDE DEF p
<1>3. /\ IsFiniteSet(Person[u].stated \cup Person[u].latest) /\ IsFiniteSet(Person[u].skills)
      /\ \A t \in Person[u].stated \cup Person[u].latest : FiniteTitle(t)
  BY SourcingPeople
<1>4. target_titles(p) \in SUBSET (Person[u].stated \cup Person[u].latest)
  BY <1>2 DEF target_titles
<1>5. IsFiniteSet(target_titles(p))
  BY <1>3, <1>4, FS_Subset
<1>6. FiniteProfile(p)
  BY <1>2, <1>3, <1>4, <1>5 DEF FiniteProfile
<1>7. QED
  BY <1>2, <1>6 DEF p

\* match_jobs_for_user up to its inserts.
Ranking(u) == Ranked(Scored(Profile(u), Candidates(Profile(u), Live(u), pool)))
Selected(u) == Jobs(diversify(Ranking(u), Limit))

\* Whatever pool and rows a run meets: what it selects passes every gate, has no role of the
\* user's rows, no role twice, and is a fair selection of the ranking.
LEMMA SelectedIs ==
  ASSUME NEW u \in Users, pool \in Seq(Postings)
  PROVE  /\ Selected(u) \in Seq(Postings) /\ ToSet(Selected(u)) \subseteq ToSet(pool)
         /\ \A j \in ToSet(Selected(u)) :
              /\ ~Excluded(excluded[u], j)
              /\ \A q \in Live(u) \cap ToSet(pool) : role_key(q) # role_key(j)
         /\ \A m, n \in DOMAIN Selected(u) :
              role_key(Selected(u)[m]) = role_key(Selected(u)[n]) => m = n
         /\ FairSelection(Ranking(u), Selected(u), Limit)
         /\ diversify(Ranking(u), Limit) = <<>> <=> Selected(u) = <<>>
<1> DEFINE left == Candidates(Profile(u), Live(u), pool)
           L == ToSet(left)
           scored == Scored(Profile(u), left)
           ranked == Ranking(u)
           best == diversify(ranked, Limit)
<1>1. /\ left \in Seq(Postings)
      /\ \A j \in L : /\ j \in ToSet(pool) /\ Passes(Profile(u), j)
                      /\ \A q \in Live(u) \cap ToSet(pool) : role_key(q) # role_key(j)
  BY CandidatesAre, Zenon
<1> HIDE DEF left
<1>2. left \in Seq(L) /\ L \subseteq Postings
  BY <1>1, ListOfItsOwn
<1>3. \A j \in L : score_job(Profile(u), j) \in Int
  <2> SUFFICES ASSUME NEW j \in L PROVE score_job(Profile(u), j) \in Int
    OBVIOUS
  <2>1. FiniteTitle(j.title)
    BY <1>2, SourcingWords
  <2>2. FiniteProfile(Profile(u))
    BY ProfileIs
  <2>3. QED
    BY <2>1, <2>2, ScoreIsWhole
<1> HIDE DEF L
<1>4. scored \in Seq(EntriesOf(L)) /\ Apart(scored)
  BY <1>2, <1>3, ScoredAre
<1>5. ranked = Ranked(scored)
  BY DEF Ranking, left
<1> HIDE DEF scored, ranked
<1>6. ranked \in Seq(EntriesOf(L)) /\ Apart(ranked) /\ Sorted(ranked)
  BY <1>4, <1>5, RankedAre
<1>7. Limit \in Nat
  BY SourcingBounds
<1>8. best \in Seq(EntriesOf(L)) /\ Apart(best) /\ FairSelection(ranked, Jobs(best), Limit)
  BY <1>6, <1>7, FairDiversify
<1>9. Selected(u) = Jobs(best)
  BY DEF Selected, ranked
<1> HIDE DEF best
<1>10. \A n \in DOMAIN best : best[n] \in EntriesOf(L) /\ best[n].job \in L
  <2>1. \A n \in DOMAIN best : best[n] \in EntriesOf(L)
    BY <1>8
  <2>2. \A e \in EntriesOf(L) : e.job \in L
    BY DEF EntriesOf
  <2>3. QED
    BY <2>1, <2>2
<1>11. /\ DOMAIN Jobs(best) = DOMAIN best /\ DOMAIN best = 1..Len(best)
       /\ \A n \in DOMAIN best : Jobs(best)[n] = best[n].job
  BY <1>8 DEF Jobs
<1>12. Jobs(best) \in Seq(L)
  <2>1. Jobs(best) \in [1..Len(best) -> L]
    BY <1>10, <1>11 DEF Jobs
  <2>2. Len(best) \in Nat
    BY <1>8
  <2>3. QED
    BY <2>1, <2>2
<1>13. ToSet(Jobs(best)) \subseteq L
  BY <1>12, ListOfItsOwn
<1>14. \A j \in L : ~Excluded(excluded[u], j)
  BY <1>1, ProfileIs DEF Passes, L
<1>15. \A m, n \in DOMAIN best : role_key(Jobs(best)[m]) = role_key(Jobs(best)[n]) => m = n
  BY <1>8, <1>11 DEF Apart
<1>16. Jobs(best) \in Seq(Postings)
  BY <1>2, <1>12
<1>17. /\ L \subseteq ToSet(pool)
       /\ \A j \in L : \A q \in Live(u) \cap ToSet(pool) : role_key(q) # role_key(j)
  BY <1>1 DEF L
<1>18. best = <<>> <=> Jobs(best) = <<>>
  BY <1>8, <1>11, <1>12
<1>19. QED
  BY <1>8, <1>9, <1>11, <1>13, <1>14, <1>15, <1>16, <1>17, <1>18 DEF ranked, best

\* The ids of postings of the pool are those of documents that are there.
Ids(s) == [i \in DOMAIN s |-> job_id(s[i])]
LEMMA IdsAre ==
  ASSUME Stocked, NEW s \in Seq(Postings), ToSet(s) \subseteq ToSet(pool)
  PROVE  /\ Ids(s) \in Seq(JobIds) /\ DOMAIN Ids(s) = DOMAIN s /\ Picks(Ids(s)) = s
         /\ \A n \in DOMAIN s : Ids(s)[n][1] = s[n]
         /\ \A id \in ToSet(Ids(s)) : id[1] \in ToSet(s)
         /\ Known(ToSet(Ids(s))) /\ (Ids(s) = <<>> <=> s = <<>>)
<1>1. DOMAIN s = 1..Len(s) /\ Len(s) \in Nat /\ \A n \in DOMAIN s : s[n] \in Postings
  OBVIOUS
<1>2. \A n \in DOMAIN s : job_id(s[n]) \in JobIds
  BY <1>1 DEF job_id, JobIds, Stocked
<1>3. /\ DOMAIN Ids(s) = DOMAIN s
      /\ \A n \in DOMAIN s : Ids(s)[n] = job_id(s[n]) /\ Ids(s)[n][1] = s[n]
                            /\ Ids(s)[n][2] = reaped[s[n]]
  BY DEF Ids, job_id
<1>4. Ids(s) \in [1..Len(s) -> JobIds]
  BY <1>1, <1>2 DEF Ids
<1>5. Ids(s) \in Seq(JobIds) /\ Len(Ids(s)) = Len(s)
  BY <1>1, <1>4
<1>6. Ids(s) = <<>> <=> s = <<>>
  BY <1>5
<1>7. Picks(Ids(s)) = s
  <2>1. Picks(Ids(s)) = [n \in DOMAIN s |-> s[n]]
    BY <1>3 DEF Picks
  <2>2. QED
    BY <2>1
<1>8. \A id \in ToSet(Ids(s)) : id \in JobIds /\ id[1] \in ToSet(s) /\ id[2] = reaped[id[1]]
  BY <1>2, <1>3 DEF ToSet
<1>9. Known(ToSet(Ids(s)))
  <2>1. \A id \in ToSet(Ids(s)) : id[2] \in Nat
    BY <1>8 DEF JobIds
  <2>2. QED
    BY <1>8, <2>1 DEF Known
<1>10. QED
  BY <1>3, <1>5, <1>6, <1>7, <1>8, <1>9

\* Rows that have a document have one of the pool.
LEMMA LiveIsThere ==
  ASSUME Stocked, NEW u \in Users
  PROVE  Live(u) \subseteq ToSet(pool) /\ Live(u) \subseteq Postings
<1>1. ASSUME NEW q \in Live(u) PROVE q \in ToSet(pool) /\ q \in Postings
  <2>1. q \in Postings /\ <<q, reaped[q]>> \in rows[u]
    BY <1>1 DEF Live, job_id
  <2>2. PICK id \in rows[u] : id = <<q, reaped[q]>>
    BY <2>1
  <2>3. id[1] = q /\ id[2] = reaped[id[1]]
    BY <2>2
  <2>4. QED
    BY <2>1, <2>2, <2>3 DEF Stocked, Known
<1>2. QED
  BY <1>1

\* Where neither rows nor documents change, what rows have a document does not.
LEMMA LiveStays ==
  ASSUME UNCHANGED <<reaped, rows>>
  PROVE  \A u \in Users : Live(u)' = Live(u)
  BY DEF Live, job_id

\* Ids of documents stay ids of documents.
LEMMA KnownStays ==
  ASSUME NEW ids, Known(ids), Forward
  PROVE  Known(ids)'
<1>1. ASSUME NEW id \in ids
      PROVE  id[2] <= reaped'[id[1]] /\ (id[2] = reaped'[id[1]] => id[1] \in ToSet(pool'))
  <2>1. id \in JobIds /\ id[2] <= reaped[id[1]]
    BY <1>1 DEF Known
  <2>2. id[1] \in Postings /\ id[2] \in Nat
    BY <2>1 DEF JobIds
  <2>3. QED
    BY <1>1, <2>1, <2>2 DEF Known, Forward
<1>2. QED
  BY <1>1 DEF Known

-----------------------------------------------------------------------------
(* Lists that lose an element *)

\* The head of a list and what is left of it.
LEMMA HeadAndTail ==
  ASSUME NEW S, NEW s \in Seq(S), s # <<>>
  PROVE  /\ Head(s) \in S /\ Head(s) \in ToSet(s) /\ Head(s) = s[1] /\ 1 \in DOMAIN s
         /\ Tail(s) \in Seq(S) /\ Len(Tail(s)) = Len(s) - 1 /\ Len(s) \in Nat \ {0}
         /\ \A n \in DOMAIN Tail(s) : Tail(s)[n] = s[n + 1] /\ n + 1 \in DOMAIN s /\ n \in Nat \ {0}
         /\ ToSet(Tail(s)) \subseteq ToSet(s) /\ (Len(s) = 1 <=> Tail(s) = <<>>)
<1>1. Len(s) \in Nat \ {0} /\ DOMAIN s = 1..Len(s)
  OBVIOUS
<1>2. Tail(s) \in Seq(S) /\ Len(Tail(s)) = Len(s) - 1
  OBVIOUS
<1>3. \A n \in DOMAIN Tail(s) : Tail(s)[n] = s[n + 1] /\ n + 1 \in DOMAIN s /\ n \in Nat \ {0}
  BY <1>1, <1>2
<1>4. Head(s) = s[1] /\ Head(s) \in S
  BY <1>1
<1>5. Head(s) \in ToSet(s) /\ 1 \in DOMAIN s
  BY <1>1, <1>4 DEF ToSet
<1>6. ToSet(Tail(s)) \subseteq ToSet(s)
  BY <1>3 DEF ToSet
<1>7. Len(s) = 1 <=> Tail(s) = <<>>
  <2>1. PICK r \in Seq(S) : r = Tail(s)
    BY <1>2
  <2>2. r = <<>> <=> Len(r) = 0
    OBVIOUS
  <2>3. QED
    BY <1>1, <1>2, <2>1, <2>2
<1>8. QED
  BY <1>1, <1>2, <1>3, <1>4, <1>5, <1>6, <1>7

\* What the retention leaves of a list.
Without(s, p) == Picked(s, {i \in DOMAIN s : s[i] # p})

\* The retention takes a posting out of a list, wherever it is.
LEMMA WithoutIs ==
  ASSUME NEW S, NEW s \in Seq(S), NEW p
  PROVE  Without(s, p) \in Seq(S) /\ ToSet(Without(s, p)) = ToSet(s) \ {p}
<1> DEFINE I == {i \in DOMAIN s : s[i] # p}
<1>1. I \in SUBSET DOMAIN s /\ {s[i] : i \in I} = ToSet(s) \ {p}
  BY DEF ToSet
<1> HIDE DEF I
<1>2. Picked(s, I) \in Seq(S) /\ ToSet(Picked(s, I)) = {s[i] : i \in I}
  BY <1>1, PickedType
<1>3. QED
  BY <1>1, <1>2 DEF Without, I

\* What told the elements of a list apart tells those that are left.
LEMMA WithoutApart ==
  ASSUME NEW S, NEW s \in Seq(S), NEW p, NEW f, \A m, n \in DOMAIN s : f[s[m]] = f[s[n]] => m = n
  PROVE  \A m, n \in DOMAIN Without(s, p) : f[Without(s, p)[m]] = f[Without(s, p)[n]] => m = n
<1> DEFINE I == {i \in DOMAIN s : s[i] # p}
<1>1. I \in SUBSET DOMAIN s
  OBVIOUS
<1> HIDE DEF I
<1>2. /\ DOMAIN Picked(s, I) = 1..Cardinality(I) /\ Places(I) \in [1..Cardinality(I) -> I]
      /\ \A k \in 1..Cardinality(I) : Picked(s, I)[k] = s[Places(I)[k]]
      /\ \A k, l \in 1..Cardinality(I) : Places(I)[k] = Places(I)[l] => k = l
  BY <1>1, PickedPlaces
<1>3. ASSUME NEW m \in DOMAIN Picked(s, I), NEW n \in DOMAIN Picked(s, I),
             f[Picked(s, I)[m]] = f[Picked(s, I)[n]]
      PROVE  m = n
  <2>1. Places(I)[m] \in DOMAIN s /\ Places(I)[n] \in DOMAIN s
    BY <1>1, <1>2
  <2>2. Places(I)[m] = Places(I)[n]
    BY <1>2, <1>3, <2>1
  <2>3. QED
    BY <1>2, <2>2
<1>4. QED
  BY <1>3 DEF Without, I

\* The head of a selection is a document that passes, and the rest has other roles.
LEMMA ChosenTail ==
  ASSUME NEW s, NEW barred, Chosen(s, barred), s # <<>>
  PROVE  /\ Chosen(Tail(s), barred) /\ Known({Head(s)}) /\ ~Excluded(barred, Head(s)[1])
         /\ \A j \in ToSet(Tail(s)) : role_key(j[1]) # role_key(Head(s)[1])
<1>1. s \in Seq(JobIds) /\ Known(ToSet(s)) /\ (\A j \in ToSet(s) : ~Excluded(barred, j[1]))
      /\ \A m, n \in DOMAIN s : role_key(s[m][1]) = role_key(s[n][1]) => m = n
  BY DEF Chosen
<1>2. /\ Head(s) \in ToSet(s) /\ Head(s) = s[1] /\ 1 \in DOMAIN s
      /\ Tail(s) \in Seq(JobIds) /\ ToSet(Tail(s)) \subseteq ToSet(s)
      /\ \A n \in DOMAIN Tail(s) : Tail(s)[n] = s[n + 1] /\ n + 1 \in DOMAIN s /\ n \in Nat \ {0}
  BY <1>1, HeadAndTail
<1>3. ASSUME NEW m \in DOMAIN Tail(s), NEW n \in DOMAIN Tail(s),
             role_key(Tail(s)[m][1]) = role_key(Tail(s)[n][1])
      PROVE  m = n
  <2>1. m + 1 = n + 1
    BY <1>1, <1>2, <1>3
  <2>2. QED
    BY <1>2, <2>1
<1>4. ASSUME NEW j \in ToSet(Tail(s)), role_key(j[1]) = role_key(Head(s)[1]) PROVE FALSE
  <2>1. PICK n \in DOMAIN Tail(s) : j = Tail(s)[n]
    BY DEF ToSet
  <2>2. n + 1 = 1
    BY <1>1, <1>2, <1>4, <2>1
  <2>3. QED
    BY <1>2, <2>2
<1>5. Known(ToSet(Tail(s))) /\ Known({Head(s)})
  BY <1>1, <1>2 DEF Known
<1>6. \A j \in ToSet(Tail(s)) : ~Excluded(barred, j[1])
  BY <1>1, <1>2
<1>7. ~Excluded(barred, Head(s)[1])
  BY <1>1, <1>2
<1>8. Chosen(Tail(s), barred)
  BY <1>2, <1>3, <1>5, <1>6 DEF Chosen
<1>9. QED
  BY <1>4, <1>5, <1>7, <1>8

\* Nothing selected is nothing to be wrong about.
LEMMA NoneChosen ==
  ASSUME NEW barred
  PROVE  Chosen(<<>>, barred) /\ Chosen(<<>>, barred)'
<1>1. <<>> \in Seq(JobIds) /\ ToSet(<<>>) = {} /\ DOMAIN <<>> = {}
  BY DEF ToSet
<1>2. QED
  BY <1>1 DEF Chosen, Known

\* A selection stays one.
LEMMA ChosenStays ==
  ASSUME NEW s, NEW barred, Chosen(s, barred), Forward
  PROVE  Chosen(s, barred)'
  BY KnownStays DEF Chosen

-----------------------------------------------------------------------------
(* The steps of a run, on what it holds *)

\* No role is held by more runs, and none has more rows whose document is there.
Shrinking ==
    /\ \A s \in Running' :
         /\ s \in Running /\ task'[s].user = task[s].user
         /\ ToSet(task'[s].selected) \subseteq ToSet(task[s].selected)
    /\ \A u \in Users : Live(u)' \subseteq Live(u)

TaskFields == {"pc", "kind", "by", "user", "plan", "results", "barred", "selected"}

\* A task that is over.
LEMMA DoneIs ==
  /\ DOMAIN Done = TaskFields /\ Done.pc = "done" /\ Done.plan = <<>> /\ Done.results = <<>>
  /\ Done.selected = <<>>
  BY DEF Done, TaskFields

\* A message holds no list yet.
LEMMA FreshIs ==
  ASSUME NEW kind, NEW by, NEW u
  PROVE  /\ DOMAIN Message(kind, by, u) = TaskFields /\ Message(kind, by, u).pc = "queued"
         /\ Message(kind, by, u).kind = kind /\ Message(kind, by, u).by = by
         /\ Message(kind, by, u).user = u
         /\ Message(kind, by, u).plan = <<>> /\ Message(kind, by, u).results = <<>>
         /\ Message(kind, by, u).selected = <<>>
  BY DEF Message, Done, TaskFields

\* A record with empty lists.
LEMMA EmptyIsTrue ==
  ASSUME NEW x, x.plan = <<>>, x.results = <<>>, x.selected = <<>>,
         x.pc \notin {"ingest", "insert"},
         x.pc # "done" => x.user \in Users /\ x.kind \in Kinds /\ (x.by = "sweep" => x.kind \in regime)
  PROVE  RunTrue(x)
<1>1. Chosen(x.selected, x.barred)
  BY NoneChosen
<1>2. <<>> \in Seq(Entries) /\ <<>> \in Seq(Seq(Postings))
  OBVIOUS
<1>3. QED
  BY <1>1, <1>2 DEF RunTrue

\* What a run holds stays true.
LEMMA RunStays ==
  ASSUME NEW x, RunTrue(x), Forward, UNCHANGED regime
  PROVE  RunTrue(x)'
<1>1. Chosen(x.selected, x.barred)'
  BY ChosenStays DEF RunTrue
<1>2. QED
  BY <1>1 DEF RunTrue

\* A step of one task.
LEMMA TaskMoves ==
  ASSUME Shape, \A s \in Tasks : RunTrue(task[s]), NEW t \in Tasks, NEW x, TaskStep(t, x),
         RunTrue(x)', Forward, UNCHANGED regime
  PROVE  \A s \in Tasks : RunTrue(task[s])'
<1>1. task'[t] = x /\ \A s \in Tasks \ {t} : task'[s] = task[s]
  BY DEF Shape, TaskStep
<1>2. ASSUME NEW s \in Tasks PROVE RunTrue(task[s])'
  <2>1. PICK y : y = task[s]
    OBVIOUS
  <2>2. CASE s = t
    BY <1>1, <2>2
  <2>3. CASE s # t
    <3>1. RunTrue(y)'
      BY <2>1, RunStays
    <3>2. task'[s] = y
      BY <1>1, <2>1, <2>3
    <3>3. QED
      BY <3>1, <3>2
  <2>4. QED
    BY <2>2, <2>3
<1>3. QED
  BY <1>2

\* A step of none.
LEMMA TasksStay ==
  ASSUME \A s \in Tasks : RunTrue(task[s]), Forward, UNCHANGED regime,
         \A s \in Tasks : task'[s] = task[s]
  PROVE  \A s \in Tasks : RunTrue(task[s])'
<1>1. ASSUME NEW s \in Tasks PROVE RunTrue(task[s])'
  <2>1. PICK y : y = task[s]
    OBVIOUS
  <2>2. RunTrue(y)' /\ task'[s] = y
    BY <2>1, RunStays
  <2>3. QED
    BY <2>2
<1>2. QED
  BY <1>1

\* A task that ends, starts again or goes on with less to insert.
LEMMA ShrinkMoves ==
  ASSUME Shape, NEW t \in Tasks, NEW x, TaskStep(t, x),
         \/ x.pc \in {"done", "queued"}
         \/ /\ t \in Running /\ x.user = task[t].user
            /\ ToSet(x.selected) \subseteq ToSet(task[t].selected),
         \A u \in Users : Live(u)' \subseteq Live(u)
  PROVE  Shrinking
<1>1. task'[t] = x /\ \A s \in Tasks \ {t} : task'[s] = task[s]
  BY DEF Shape, TaskStep
<1>2. QED
  BY <1>1 DEF Shrinking, Running, InFlight, At

\* A step that leaves markers, sweeps and requests alone.
LEMMA SettledStays ==
  ASSUME Settled, UNCHANGED <<regime, eligible>>, UNCHANGED guards, events' \in 0..MaxEvents
  PROVE  Settled'
  BY DEF Settled, guards, SweepAt, RequestAt

\* Events are counted up to their bound.
LEMMA EventIs ==
  ASSUME Settled, NEW kind, UNCHANGED events \/ Event(kind)
  PROVE  events' \in 0..MaxEvents
  BY SourcingBounds DEF Settled, Event

\* A step that leaves pool and rows alone.
LEMMA StockedStays ==
  ASSUME Stocked, UNCHANGED jobs
  PROVE  Stocked' /\ Forward
<1>1. Forward
  BY DEF Stocked, Forward, jobs
<1>2. \A u \in Users : Known(rows[u])'
  BY DEF Stocked, Known, jobs
<1>3. QED
  BY <1>1, <1>2 DEF Stocked, jobs

\* Postings that come in: the pool grows, and no document goes.
LEMMA StockedGrows ==
  ASSUME Stocked, NEW s \in Seq(Postings), pool' = upsert(s), UNCHANGED <<listed, reaped, rows>>,
         cached' \subseteq Entries
  PROVE  Stocked' /\ Forward
<1>1. /\ upsert(s) \in Seq(Postings) /\ IsInjective(upsert(s))
      /\ ToSet(pool) \subseteq ToSet(upsert(s))
  BY UpsertIs DEF Stocked
<1>2. Forward
  BY <1>1 DEF Stocked, Forward
<1>3. ASSUME NEW u \in Users PROVE Known(rows[u])'
  <2>1. PICK ids : ids = rows[u]
    OBVIOUS
  <2>2. Known(ids)'
    BY <1>2, <2>1, KnownStays DEF Stocked
  <2>3. QED
    BY <2>1, <2>2
<1>4. QED
  BY <1>1, <1>2, <1>3 DEF Stocked

\* A run that begins: what its sources returned are lists of postings.
LEMMA BeginKeeps ==
  ASSUME Shape, DataInv, NEW t \in Tasks, NEW failed, Begin(t, failed)
  PROVE  /\ DataInv' /\ UNCHANGED <<reaped, rows>> /\ At(t, "queued") /\ task'[t].selected = <<>>
         /\ task'[t].user = task[t].user /\ \A s \in Tasks \ {t} : task'[s] = task[s]
         /\ Cardinality(Runs(task[t].user)) < Workers
<1> DEFINE u == task[t].user
           whole == fetch_plan(Person[u].search)
           I == {i \in DOMAIN whole : whole[i] \notin cached}
           plan == IF task[t].kind = "match" THEN <<>> ELSE Picked(whole, I)
           result(e) == IF e \in failed THEN <<>> ELSE fetch(e)
           results == [i \in DOMAIN plan |-> result(plan[i])]
           x == [task[t] EXCEPT !.pc = IF plan = <<>> THEN "rank" ELSE "ingest",
                                !.plan = plan, !.barred = excluded[u], !.results = results]
<1>1. /\ At(t, "queued") /\ Cardinality({s \in Running : task[s].user = u}) < Workers
      /\ TaskStep(t, x) /\ (UNCHANGED events \/ Event("fetch_fail"))
      /\ UNCHANGED <<regime, jobs, guards, settings>>
  BY Zenon DEF Begin, Filtered
<1>2. /\ DOMAIN task[t] = TaskFields /\ RunTrue(task[t])
      /\ task[t].pc = "queued" /\ task[t].selected = <<>>
      /\ u \in Users /\ task[t].kind \in Kinds /\ (task[t].by = "sweep" => task[t].kind \in regime)
  <2>1. DOMAIN task[t] = TaskFields /\ task[t].pc = "queued" /\ RunTrue(task[t])
    BY <1>1, DoneIs DEF Shape, At, DataInv
  <2>2. QED
    BY <2>1 DEF RunTrue
<1>3. whole \in Seq(Entries) /\ \A e \in ToSet(whole) : e[1] \in Sources
  BY <1>2, PlanIs
<1> HIDE DEF whole
<1>4. /\ plan \in Seq(Entries) /\ ToSet(plan) \subseteq ToSet(whole)
  <2>1. I \in SUBSET DOMAIN whole /\ {whole[i] : i \in I} \subseteq ToSet(whole)
    BY DEF ToSet
  <2> HIDE DEF I
  <2>2. Picked(whole, I) \in Seq(Entries) /\ ToSet(Picked(whole, I)) \subseteq ToSet(whole)
    BY <1>3, <2>1, PickedType
  <2>3. <<>> \in Seq(Entries) /\ ToSet(<<>>) = {}
    BY DEF ToSet
  <2>4. QED
    BY <2>2, <2>3
<1> HIDE DEF plan
<1>5. results \in Seq(Seq(Postings)) /\ Len(results) = Len(plan)
  <2>1. ASSUME NEW i \in DOMAIN plan PROVE result(plan[i]) \in Seq(Postings)
    <3>1. plan[i] \in ToSet(whole)
      BY <1>4, <2>1 DEF ToSet
    <3>2. fetch(plan[i]) \in Seq(Postings)
      BY <1>3, <3>1, FetchIs
    <3>3. QED
      BY <3>2
  <2> HIDE DEF result
  <2>2. DOMAIN plan = 1..Len(plan) /\ Len(plan) \in Nat
    BY <1>4
  <2>3. QED
    BY <2>1, <2>2
<1> HIDE DEF results
<1>6. /\ x.plan = plan /\ x.results = results /\ x.selected = <<>> /\ x.user = u
      /\ x.pc = (IF plan = <<>> THEN "rank" ELSE "ingest")
      /\ x.kind = task[t].kind /\ x.by = task[t].by
  BY <1>2 DEF TaskFields
<1>7. PICK y : y = x
  OBVIOUS
<1> HIDE DEF x
<1>8. RunTrue(y)'
  <2>1. Chosen(y.selected, y.barred)'
    <3>1. Chosen(<<>>, y.barred)'
      BY NoneChosen
    <3>2. QED
      BY <1>6, <1>7, <3>1
  <2>2. QED
    BY <1>1, <1>2, <1>4, <1>5, <1>6, <1>7, <2>1 DEF RunTrue
<1>9. Stocked' /\ Forward
  BY <1>1, StockedStays DEF DataInv
<1>10. Settled'
  BY <1>1, EventIs, SettledStays DEF DataInv, settings
<1>11. \A s \in Tasks : RunTrue(task[s])'
  BY <1>1, <1>7, <1>8, <1>9, TaskMoves DEF DataInv
<1>12. task'[t] = x /\ \A s \in Tasks \ {t} : task'[s] = task[s]
  BY <1>1 DEF Shape, TaskStep
<1>13. QED
  BY <1>1, <1>6, <1>9, <1>10, <1>11, <1>12 DEF DataInv, jobs, Runs

\* The next source: what it returned is a list of postings, and the pool grows by it.
LEMMA IngestKeeps ==
  ASSUME Shape, DataInv, NEW t \in Tasks, Ingest(t)
  PROVE  DataInv' /\ Shrinking
<1> DEFINE old == task[t]
           x == [old EXCEPT !.plan = Tail(@), !.results = Tail(@),
                            !.pc = IF Len(old.plan) = 1 THEN "rank" ELSE "ingest"]
           found == ingested(Head(old.results), old.barred)
<1>1. /\ At(t, "ingest") /\ TaskStep(t, x) /\ pool' = upsert(found)
      /\ cached' = cached \cup {Head(old.plan)}
      /\ UNCHANGED <<regime, listed, reaped, rows, settings, events>> /\ UNCHANGED guards
  BY Zenon DEF Ingest
<1>2. DOMAIN old = TaskFields /\ old.pc = "ingest" /\ RunTrue(old)
  BY <1>1, DoneIs DEF Shape, At, DataInv
<1> HIDE DEF old
<1>3. /\ old.plan \in Seq(Entries) /\ old.results \in Seq(Seq(Postings)) /\ old.plan # <<>>
      /\ Len(old.results) = Len(old.plan) /\ Chosen(old.selected, old.barred)
      /\ old.selected = <<>>
      /\ old.user \in Users /\ old.kind \in Kinds /\ (old.by = "sweep" => old.kind \in regime)
  BY <1>2 DEF RunTrue
<1>4. old.results # <<>>
  <2>1. Len(old.plan) # 0
    BY <1>3
  <2>2. QED
    BY <1>3, <2>1
<1>5. /\ Head(old.plan) \in Entries /\ Tail(old.plan) \in Seq(Entries)
      /\ Len(Tail(old.plan)) = Len(old.plan) - 1 /\ (Len(old.plan) = 1 <=> Tail(old.plan) = <<>>)
  BY <1>3, HeadAndTail
<1>6. /\ Head(old.results) \in Seq(Postings) /\ Tail(old.results) \in Seq(Seq(Postings))
      /\ Len(Tail(old.results)) = Len(old.results) - 1
  BY <1>3, <1>4, HeadAndTail
<1>7. found \in Seq(Postings)
  BY <1>6, IngestedIs
<1> HIDE DEF found
<1>8. Stocked' /\ Forward
  <2>1. cached' \subseteq Entries
    BY <1>1, <1>5 DEF DataInv, Stocked
  <2>2. QED
    BY <1>1, <1>7, <2>1, StockedGrows DEF DataInv
<1>9. /\ x.plan = Tail(old.plan) /\ x.results = Tail(old.results) /\ x.selected = <<>>
      /\ x.pc = (IF Len(old.plan) = 1 THEN "rank" ELSE "ingest")
      /\ x.user = old.user /\ x.kind = old.kind /\ x.by = old.by /\ x.barred = old.barred
  BY <1>2, <1>3 DEF TaskFields
<1> HIDE DEF x
<1>10. PICK y : y = x
  OBVIOUS
<1>11. RunTrue(y)'
  <2>1. Chosen(<<>>, y.barred)'
    BY NoneChosen
  <2>2. QED
    BY <1>1, <1>3, <1>5, <1>6, <1>9, <1>10, <2>1 DEF RunTrue
<1>12. Settled'
  BY <1>1, EventIs, SettledStays DEF DataInv, settings
<1>13. \A s \in Tasks : RunTrue(task[s])'
  BY <1>1, <1>8, <1>10, <1>11, TaskMoves DEF DataInv
<1>14. Shrinking
  <2>1. t \in Running /\ x.user = task[t].user /\ ToSet(x.selected) \subseteq ToSet(task[t].selected)
    BY <1>1, <1>3, <1>9 DEF Running, InFlight, At, old
  <2>2. \A u \in Users : Live(u)' \subseteq Live(u)
    BY <1>1, LiveStays
  <2>3. QED
    BY <1>1, <2>1, <2>2, ShrinkMoves
<1>15. QED
  BY <1>8, <1>12, <1>13, <1>14 DEF DataInv

\* A run that ranks goes on with what it selects.
LEMMA RankKeeps ==
  ASSUME Shape, DataInv, NEW t \in Tasks, Rank(t)
  PROVE  /\ DataInv' /\ UNCHANGED <<reaped, rows>> /\ t \in Running /\ task[t].selected = <<>>
         /\ task'[t].user = task[t].user /\ task[t].user \in Users
         /\ task'[t].selected = Ids(Selected(task[t].user))
         /\ task'[t].pc \in {"clear", "insert"}
         /\ \A s \in Tasks \ {t} : task'[s] = task[s]
<1> DEFINE old == task[t]
           u == task[t].user
           best == diversify(Ranking(u), Limit)
           x == [old EXCEPT !.pc = IF best = <<>> THEN "clear" ELSE "insert",
                            !.barred = excluded[u], !.selected = Ids(Jobs(best))]
           same == [old EXCEPT !.pc = IF best = <<>> THEN "clear" ELSE "insert",
                               !.barred = excluded[u],
                               !.selected = [i \in DOMAIN best |-> job_id(best[i].job)]]
<1>1. At(t, "rank") /\ TaskStep(t, x) /\ UNCHANGED <<regime, jobs, guards, settings, events>>
  <2>1. At(t, "rank") /\ TaskStep(t, same) /\ UNCHANGED <<regime, jobs, guards, settings, events>>
    BY Zenon DEF Rank, Ranking
  <2>2. Ids(Jobs(best)) = [i \in DOMAIN best |-> job_id(best[i].job)]
    BY DEF Ids, Jobs
  <2>3. QED
    BY <2>1, <2>2
<1>2. DOMAIN old = TaskFields /\ old.pc = "rank" /\ RunTrue(old)
  BY <1>1, DoneIs DEF Shape, At, DataInv
<1>3. /\ old.plan \in Seq(Entries) /\ old.results \in Seq(Seq(Postings))
      /\ Len(old.results) = Len(old.plan) /\ old.selected = <<>>
      /\ u \in Users /\ old.kind \in Kinds /\ (old.by = "sweep" => old.kind \in regime)
  BY <1>2 DEF RunTrue
<1>4. /\ Selected(u) \in Seq(Postings) /\ ToSet(Selected(u)) \subseteq ToSet(pool)
      /\ \A j \in ToSet(Selected(u)) :
           /\ ~Excluded(excluded[u], j)
           /\ \A q \in Live(u) \cap ToSet(pool) : role_key(q) # role_key(j)
      /\ \A m, n \in DOMAIN Selected(u) :
           role_key(Selected(u)[m]) = role_key(Selected(u)[n]) => m = n
  BY <1>3, SelectedIs DEF DataInv, Stocked
<1>5. Selected(u) = Jobs(best)
  BY DEF Selected
<1>6. best = <<>> <=> Selected(u) = <<>>
  BY <1>3, SelectedIs DEF DataInv, Stocked
<1>6a. /\ Ids(Selected(u)) \in Seq(JobIds) /\ DOMAIN Ids(Selected(u)) = DOMAIN Selected(u)
       /\ \A n \in DOMAIN Selected(u) : Ids(Selected(u))[n][1] = Selected(u)[n]
       /\ \A id \in ToSet(Ids(Selected(u))) : id[1] \in ToSet(Selected(u))
       /\ Known(ToSet(Ids(Selected(u)))) /\ (Ids(Selected(u)) = <<>> <=> Selected(u) = <<>>)
  BY <1>4, IdsAre DEF DataInv
<1> HIDE DEF best, old
<1>7. /\ x.plan = old.plan /\ x.results = old.results /\ x.selected = Ids(Selected(u))
      /\ x.pc = (IF best = <<>> THEN "clear" ELSE "insert") /\ x.barred = excluded[u]
      /\ x.user = u /\ x.kind = old.kind /\ x.by = old.by
  BY <1>2, <1>5 DEF TaskFields, old
<1> HIDE DEF x
<1>8. Chosen(Ids(Selected(u)), excluded[u])
  BY <1>4, <1>6a DEF Chosen
<1>9. RunTrue(x)
  BY <1>3, <1>6, <1>7, <1>8, <1>6a DEF RunTrue
<1>10. Stocked' /\ Forward
  BY <1>1, StockedStays DEF DataInv
<1>11. PICK y : y = x
  OBVIOUS
<1>12. RunTrue(y)'
  BY <1>1, <1>9, <1>10, <1>11, RunStays
<1>13. \A s \in Tasks : RunTrue(task[s])'
  BY <1>1, <1>10, <1>11, <1>12, TaskMoves DEF DataInv
<1>14. Settled'
  BY <1>1, EventIs, SettledStays DEF DataInv, settings
<1>15. task'[t] = x /\ \A s \in Tasks \ {t} : task'[s] = task[s]
  BY <1>1 DEF Shape, TaskStep
<1>16. QED
  BY <1>1, <1>2, <1>3, <1>7, <1>10, <1>13, <1>14, <1>15 DEF DataInv, jobs, Running, InFlight, At, old

\* A row: the posting leaves the selection, and its role with it.
LEMMA InsertKeeps ==
  ASSUME Shape, DataInv, NEW t \in Tasks, NEW fails, InsertRow(t, fails)
  PROVE  /\ DataInv' /\ t \in Running /\ task'[t].user = task[t].user /\ task[t].user \in Users
         /\ \A s \in Tasks \ {t} : task'[s] = task[s]
         /\ Head(task[t].selected) \in ToSet(task[t].selected)
         /\ ~Excluded(task[t].barred, Head(task[t].selected)[1])
         /\ ToSet(task'[t].selected) \subseteq ToSet(task[t].selected)
         /\ \A j \in ToSet(task'[t].selected) :
              role_key(j[1]) # role_key(Head(task[t].selected)[1])
         /\ \A u \in Users \ {task[t].user} : Live(u)' = Live(u)
         /\ \A u \in Users : Live(u)' \subseteq Live(u) \cup {Head(task[t].selected)[1]}
<1> DEFINE old == task[t]
           p == Head(old.selected)
           x == [old EXCEPT !.selected = Tail(@),
                            !.pc = IF Len(old.selected) = 1 THEN "clear" ELSE "insert"]
<1>1. /\ At(t, "insert") /\ TaskStep(t, x) /\ (UNCHANGED events \/ Event("insert_fail"))
      /\ UNCHANGED rows \/ rows' = [rows EXCEPT ![old.user] = @ \cup {p}]
      /\ UNCHANGED <<regime, listed, pool, cached, reaped, settings>> /\ UNCHANGED guards
  <2>1. IF fails THEN Event("insert_fail") /\ UNCHANGED rows
                 ELSE UNCHANGED events /\ rows' = [rows EXCEPT ![old.user] = @ \cup {p}]
    BY Zenon DEF InsertRow
  <2>2. /\ At(t, "insert") /\ TaskStep(t, x)
        /\ UNCHANGED <<regime, listed, pool, cached, reaped, settings>> /\ UNCHANGED guards
    BY Zenon DEF InsertRow
  <2>3. QED
    BY <2>1, <2>2
<1>2. DOMAIN old = TaskFields /\ old.pc = "insert" /\ RunTrue(old)
  BY <1>1, DoneIs DEF Shape, At, DataInv
<1> HIDE DEF old
<1>3. /\ old.plan \in Seq(Entries) /\ old.results \in Seq(Seq(Postings))
      /\ Len(old.results) = Len(old.plan) /\ Chosen(old.selected, old.barred)
      /\ old.selected # <<>>
      /\ old.user \in Users /\ old.kind \in Kinds /\ (old.by = "sweep" => old.kind \in regime)
  BY <1>2 DEF RunTrue
<1>4. /\ Chosen(Tail(old.selected), old.barred) /\ Known({p}) /\ ~Excluded(old.barred, p[1])
      /\ \A j \in ToSet(Tail(old.selected)) : role_key(j[1]) # role_key(p[1])
  BY <1>3, ChosenTail
<1>5. /\ p \in ToSet(old.selected) /\ ToSet(Tail(old.selected)) \subseteq ToSet(old.selected)
      /\ (Len(old.selected) = 1 <=> Tail(old.selected) = <<>>)
  <2>1. old.selected \in Seq(JobIds)
    BY <1>3 DEF Chosen
  <2>2. QED
    BY <1>3, <2>1, HeadAndTail
<1> HIDE DEF p
<1>6. /\ x.plan = old.plan /\ x.results = old.results /\ x.selected = Tail(old.selected)
      /\ x.pc = (IF Len(old.selected) = 1 THEN "clear" ELSE "insert") /\ x.barred = old.barred
      /\ x.user = old.user /\ x.kind = old.kind /\ x.by = old.by
  BY <1>2 DEF TaskFields
<1> HIDE DEF x
<1>7. RunTrue(x)
  BY <1>3, <1>4, <1>5, <1>6 DEF RunTrue
<1>8. DOMAIN rows = Users /\ \A u \in Users : Known(rows[u])
  BY DEF DataInv, Stocked
<1>9. /\ DOMAIN rows' = Users /\ \A u \in Users \ {old.user} : rows'[u] = rows[u]
      /\ rows'[old.user] \subseteq rows[old.user] \cup {p}
  BY <1>1, <1>3, <1>8
<1>10. Stocked'
  <2>1. \A u \in Users : rows'[u] \subseteq rows[u] \cup {p}
    BY <1>9
  <2>2. \A u \in Users : Known(rows[u])'
    BY <1>1, <1>4, <1>8, <2>1 DEF Known
  <2>3. QED
    BY <1>1, <1>9, <2>2 DEF DataInv, Stocked
<1>11. Forward
  BY <1>1 DEF Forward, DataInv, Stocked
<1>11a. /\ \A u \in Users \ {old.user} : Live(u)' = Live(u)
        /\ \A u \in Users : Live(u)' \subseteq Live(u) \cup {p[1]}
  <2>1. \A q \in Postings : job_id(q)' = job_id(q) /\ job_id(q)[1] = q
    BY <1>1 DEF job_id
  <2>2. ASSUME NEW u \in Users, NEW q \in Live(u)' PROVE q \in Live(u) \cup {p[1]}
    <3>1. q \in Postings /\ job_id(q)' \in rows'[u]
      BY <2>2 DEF Live
    <3>2. job_id(q) \in rows[u] \cup {p}
      BY <1>9, <2>1, <3>1
    <3>3. QED
      BY <2>1, <3>1, <3>2 DEF Live
  <2>3. \A u \in Users \ {old.user} : Live(u)' = Live(u)
    BY <1>9, <2>1 DEF Live
  <2>4. QED
    BY <2>2, <2>3
<1>12. PICK y : y = x
  OBVIOUS
<1>13. RunTrue(y)'
  BY <1>1, <1>7, <1>11, <1>12, RunStays
<1>14. \A s \in Tasks : RunTrue(task[s])'
  BY <1>1, <1>11, <1>12, <1>13, TaskMoves DEF DataInv
<1>15. Settled'
  BY <1>1, EventIs, SettledStays DEF DataInv, settings
<1>16. task'[t] = x /\ \A s \in Tasks \ {t} : task'[s] = task[s]
  BY <1>1 DEF Shape, TaskStep
<1>17. DataInv' /\ t \in Running
  BY <1>1, <1>10, <1>14, <1>15 DEF DataInv, Running, InFlight, At
<1>18. QED
  BY <1>3, <1>4, <1>5, <1>6, <1>16, <1>17, <1>11a DEF old, p

\* A task that is over, that starts again or that only clears its marker.
LEMMA EndKeeps ==
  ASSUME Shape, DataInv, NEW t \in Tasks, NEW x, TaskStep(t, x), UNCHANGED regime, UNCHANGED jobs,
         x.plan = <<>>, x.results = <<>>, x.selected = <<>>,
         \/ x.pc = "done"
         \/ /\ t \in Running /\ x.pc \in {"queued", "clear"}
            /\ x.kind = task[t].kind /\ x.by = task[t].by /\ x.user = task[t].user
  PROVE  Stocked' /\ (\A s \in Tasks : RunTrue(task[s])') /\ Shrinking
<1>1. Stocked' /\ Forward
  BY StockedStays DEF DataInv
<1>2. x.pc # "done" => x.user \in Users /\ x.kind \in Kinds /\ (x.by = "sweep" => x.kind \in regime)
  BY DEF DataInv, RunTrue, Running, InFlight, At
<1>3. x.pc \notin {"ingest", "insert"}
  OBVIOUS
<1>4. RunTrue(x)
  BY <1>2, <1>3, EmptyIsTrue
<1>5. RunTrue(x)'
  BY <1>1, <1>4, RunStays
<1>6. \A s \in Tasks : RunTrue(task[s])'
  BY <1>1, <1>5, TaskMoves DEF DataInv
<1>7. ToSet(x.selected) = {}
  BY DEF ToSet
<1>8. \A u \in Users : Live(u)' \subseteq Live(u)
  BY LiveStays DEF jobs
<1>9. \/ x.pc \in {"done", "queued"}
      \/ /\ t \in Running /\ x.user = task[t].user
         /\ ToSet(x.selected) \subseteq ToSet(task[t].selected)
  BY <1>7
<1>10. Shrinking
  BY <1>8, <1>9, ShrinkMoves
<1>11. QED
  BY <1>1, <1>6, <1>10

\* The end of a run, its error, its kill and its redelivery.
LEMMA EndsKeep ==
  ASSUME Shape, DataInv, NEW t \in Tasks,
         ClearSweep(t) \/ TaskError(t) \/ TaskKilled(t) \/ WorkerCrash(t)
  PROVE  DataInv' /\ Shrinking
<1> DEFINE again == Message(task[t].kind, task[t].by, task[t].user)
           failed == [again EXCEPT !.pc = "clear"]
<1>1. PICK x \in {Done, again, failed} :
        /\ TaskStep(t, x)
        /\ x # Done => t \in Running
  BY Zenon DEF ClearSweep, TaskError, TaskKilled, WorkerCrash
<1>2. /\ UNCHANGED regime /\ UNCHANGED jobs
      /\ UNCHANGED guards \/ marker' = [marker EXCEPT ![task[t].kind] = @ \ {task[t].user}]
      /\ UNCHANGED <<eligible, sweeper, button, request>>
      /\ UNCHANGED events \/ Event("error") \/ Event("kill") \/ Event("crash")
  BY Zenon DEF ClearSweep, TaskError, TaskKilled, WorkerCrash, guards, settings
<1>3. /\ x.plan = <<>> /\ x.results = <<>> /\ x.selected = <<>>
      /\ \/ x.pc = "done"
         \/ /\ t \in Running /\ x.pc \in {"queued", "clear"}
            /\ x.kind = task[t].kind /\ x.by = task[t].by /\ x.user = task[t].user
  <2>1. CASE x = Done
    BY <2>1, DoneIs
  <2>2. CASE x = again /\ t \in Running
    BY <2>2, FreshIs
  <2>3. CASE x = failed /\ t \in Running
    <3>1. /\ DOMAIN again = TaskFields
          /\ again.kind = task[t].kind /\ again.by = task[t].by /\ again.user = task[t].user
          /\ again.plan = <<>> /\ again.results = <<>> /\ again.selected = <<>>
      BY FreshIs
    <3> HIDE DEF again
    <3>2. QED
      BY <2>3, <3>1 DEF TaskFields
  <2>4. QED
    BY <1>1, <2>1, <2>2, <2>3
<1>4. Stocked' /\ (\A s \in Tasks : RunTrue(task[s])') /\ Shrinking
  <2>1. TaskStep(t, x)
    BY <1>1
  <2>2. UNCHANGED regime
    BY <1>2
  <2>3. UNCHANGED jobs
    BY <1>2
  <2>4. QED
    BY <1>3, <2>1, <2>2, <2>3, EndKeeps
<1>5. \A k \in Kinds : marker'[k] \subseteq Users
  BY <1>2 DEF DataInv, Settled, guards, Shape
<1>6. events' \in 0..MaxEvents
  BY <1>2, EventIs DEF DataInv
<1>7. Settled'
  BY <1>2, <1>5, <1>6 DEF DataInv, Settled, SweepAt, RequestAt
<1>8. QED
  BY <1>4, <1>7 DEF DataInv

\* The retention takes a document from the pool: no row and no selection is of one that is
\* neither there nor counted.
LEMMA ReapKeeps ==
  ASSUME Shape, DataInv, NEW p, Reap(p)
  PROVE  DataInv' /\ Shrinking
<1>1. /\ Event("reap") /\ p \in ToSet(pool) /\ pool' = Without(pool, p)
      /\ reaped' = [reaped EXCEPT ![p] = @ + 1]
      /\ UNCHANGED <<regime, listed, cached, rows, task, settings>> /\ UNCHANGED guards
  BY Zenon DEF Reap, Without, Filtered
<1>2. /\ pool \in Seq(Postings) /\ IsInjective(pool) /\ DOMAIN rows = Users
      /\ DOMAIN reaped = Postings /\ (\A q \in Postings : reaped[q] \in Nat)
      /\ \A u \in Users : Known(rows[u])
  BY DEF DataInv, Stocked
<1>3. p \in Postings
  BY <1>1, <1>2 DEF ToSet
<1>4. ToSet(pool') = ToSet(pool) \ {p} /\ pool' \in Seq(Postings)
  BY <1>1, <1>2, WithoutIs
<1>5. IsInjective(pool')
  <2>1. PICK f : f = [j \in ToSet(pool) |-> j]
    OBVIOUS
  <2>2. \A n \in DOMAIN pool : pool[n] \in ToSet(pool)
    BY DEF ToSet
  <2>3. \A m, n \in DOMAIN pool : f[pool[m]] = f[pool[n]] => m = n
    BY <1>2, <2>1, <2>2 DEF IsInjective
  <2>4. \A m, n \in DOMAIN Without(pool, p) :
          f[Without(pool, p)[m]] = f[Without(pool, p)[n]] => m = n
    BY <1>2, <2>3, WithoutApart
  <2>5. QED
    BY <1>1, <2>4 DEF IsInjective
<1>6. /\ DOMAIN reaped' = Postings /\ reaped'[p] = reaped[p] + 1
      /\ \A q \in Postings \ {p} : reaped'[q] = reaped[q]
  BY <1>1, <1>2, <1>3
<1>7. \A q \in Postings : reaped'[q] \in Nat /\ reaped[q] <= reaped'[q]
  BY <1>2, <1>6
<1>8. Forward
  BY <1>2, <1>4, <1>6, <1>7 DEF Forward
<1>9. ASSUME NEW u \in Users PROVE Known(rows[u])'
  <2>1. PICK ids : ids = rows[u]
    OBVIOUS
  <2>2. Known(ids)'
    BY <1>2, <1>8, <2>1, KnownStays
  <2>3. QED
    BY <1>1, <2>1, <2>2
<1>10. Stocked'
  BY <1>1, <1>2, <1>4, <1>5, <1>6, <1>7, <1>9 DEF DataInv, Stocked
<1>11. \A t \in Tasks : RunTrue(task[t])'
  BY <1>1, <1>8, TasksStay DEF DataInv
<1>12. Settled'
  BY <1>1, EventIs, SettledStays DEF DataInv, settings
<1>13. ASSUME NEW u \in Users, NEW q \in Live(u)' PROVE q \in Live(u)
  <2>1. q \in Postings /\ <<q, reaped'[q]>> \in rows[u]
    BY <1>1, <1>13 DEF Live, job_id
  <2>2. PICK id \in rows[u] : id = <<q, reaped'[q]>>
    BY <2>1
  <2>3. id[1] = q /\ id[2] = reaped'[q] /\ id[2] <= reaped[q]
    <3>1. id[1] = q /\ id[2] = reaped'[q]
      BY <2>2
    <3>2. id[2] <= reaped[id[1]]
      BY <1>2, <2>2 DEF Known
    <3>3. QED
      BY <3>1, <3>2
  <2>4. q # p
    BY <1>2, <1>3, <1>6, <2>3
  <2>5. reaped'[q] = reaped[q]
    BY <1>6, <2>1, <2>4
  <2>6. QED
    BY <2>1, <2>5 DEF Live, job_id
<1>14. Shrinking
  BY <1>1, <1>13 DEF Shrinking, Running, InFlight, At
<1>15. QED
  BY <1>10, <1>11, <1>12, <1>14 DEF DataInv

\* A step that leaves tasks and rows alone.
LEMMA ShrinkStays ==
  ASSUME \A s \in Tasks : task'[s] = task[s], UNCHANGED <<reaped, rows>>
  PROVE  Shrinking
  BY LiveStays DEF Shrinking, Running, InFlight, At

\* An entry of a plan names a source.
LEMMA EntrySource ==
  ASSUME NEW e \in Entries
  PROVE  e[1] \in Sources
  BY PlanIs DEF Entries

\* The boards, the cache and the user.
LEMMA BeyondKeeps ==
  ASSUME Shape, DataInv, Beyond
  PROVE  DataInv' /\ Shrinking
<1>1. CASE \E p : Reap(p)
  BY <1>1, ReapKeeps
<1>2. ASSUME NEW s \in Seq(Postings), pool' = upsert(s), cached' \subseteq Entries,
             UNCHANGED <<regime, listed, reaped, rows, task, settings>>, UNCHANGED guards,
             events' \in 0..MaxEvents
      PROVE  DataInv' /\ Shrinking
  <2>1. Stocked' /\ Forward
    BY <1>2, StockedGrows DEF DataInv
  <2>2. Settled'
    BY <1>2, SettledStays DEF DataInv, settings
  <2>3. \A t \in Tasks : RunTrue(task[t])'
    BY <1>2, <2>1, TasksStay DEF DataInv
  <2>4. Shrinking
    BY <1>2, ShrinkStays
  <2>5. QED
    BY <2>1, <2>2, <2>3, <2>4 DEF DataInv
<1>3. ASSUME NEW e \in Entries, OtherSearch(e) PROVE DataInv' /\ Shrinking
  <2>1. ingested(fetch(e), Dropped) \in Seq(Postings)
    BY EntrySource, FetchIs, IngestedIs
  <2>2. /\ pool' = upsert(ingested(fetch(e), Dropped)) /\ cached' = cached \cup {e}
        /\ UNCHANGED <<regime, listed, reaped, rows, task, settings>> /\ UNCHANGED guards
        /\ Event("other")
    BY <1>3 DEF OtherSearch
  <2>3. cached' \subseteq Entries /\ events' \in 0..MaxEvents
    BY <2>2, EventIs DEF DataInv, Stocked
  <2>4. QED
    BY <1>2, <2>1, <2>2, <2>3
<1>4. ASSUME NEW s \in Sources, run_source(s) PROVE DataInv' /\ Shrinking
  <2>1. ingested(fetch(<<s, NoQuery>>), {}) \in Seq(Postings)
    <3>1. PICK e : e = <<s, NoQuery>>
      OBVIOUS
    <3>2. e[1] \in Sources
      BY <3>1
    <3>3. fetch(e) \in Seq(Postings)
      BY <3>2, FetchIs
    <3>4. QED
      BY <3>1, <3>3, IngestedIs
  <2>2. /\ pool' = upsert(ingested(fetch(<<s, NoQuery>>), {})) /\ Event("operator")
        /\ UNCHANGED <<regime, listed, cached, reaped, rows, task, settings>> /\ UNCHANGED guards
    BY <1>4 DEF run_source
  <2>3. cached' \subseteq Entries /\ events' \in 0..MaxEvents
    BY <2>2, EventIs DEF DataInv, Stocked
  <2>4. QED
    BY <1>2, <2>1, <2>2, <2>3
<1>5. ASSUME UNCHANGED <<regime, pool, reaped, rows, task>>, UNCHANGED guards, events' \in 0..MaxEvents,
             listed' \subseteq Postings, cached' \subseteq Entries, eligible' \subseteq Users
      PROVE  DataInv' /\ Shrinking
  <2>1. Forward
    BY <1>5 DEF DataInv, Stocked, Forward
  <2>1a. \A u \in Users : Known(rows[u])'
    BY <1>5 DEF DataInv, Stocked, Known
  <2>1b. Stocked'
    BY <1>5, <2>1a DEF DataInv, Stocked
  <2>2. Settled'
    BY <1>5 DEF DataInv, Settled, guards, SweepAt, RequestAt
  <2>3. \A t \in Tasks : RunTrue(task[t])'
    BY <1>5, <2>1, TasksStay DEF DataInv
  <2>4. Shrinking
    BY <1>5, ShrinkStays
  <2>5. QED
    BY <2>2, <2>3, <2>4, <2>1b DEF DataInv
<1>6. listed \subseteq Postings /\ cached \subseteq Entries /\ eligible \subseteq Users
  BY DEF DataInv, Stocked, Settled
<1>7. ASSUME NEW e \in Entries, ExpireFetch(e) PROVE DataInv' /\ Shrinking
  <2>1. events' \in 0..MaxEvents
    BY <1>7, EventIs DEF DataInv, ExpireFetch
  <2>2. QED
    BY <1>5, <1>6, <1>7, <2>1 DEF ExpireFetch, settings
<1>8. ASSUME NEW p \in Postings, Relist(p) PROVE DataInv' /\ Shrinking
  <2>1. events' \in 0..MaxEvents
    BY <1>8, EventIs DEF DataInv, Relist
  <2>2. QED
    BY <1>5, <1>6, <1>8, <2>1 DEF Relist, settings
<1>9. ASSUME NEW u \in Users, NEW c, Exclude(u, c) \/ Pause(u) PROVE DataInv' /\ Shrinking
  <2>1. events' \in 0..MaxEvents
    BY <1>9, EventIs DEF DataInv, Exclude, Pause
  <2>2. UNCHANGED <<regime, pool, reaped, rows, task, listed, cached>> /\ UNCHANGED guards
    BY <1>9 DEF Exclude, Pause, jobs
  <2>3. eligible' \subseteq Users
    BY <1>6, <1>9 DEF Exclude, Pause
  <2>4. QED
    BY <1>5, <1>6, <2>1, <2>2, <2>3
<1>10. QED
  BY <1>1, <1>3, <1>4, <1>7, <1>8, <1>9 DEF Beyond

-----------------------------------------------------------------------------
(* New tasks, sweeps and requests, on what they hold *)

\* A new message of a user, by whoever queues it.
LEMMA QueueKeeps ==
  ASSUME Shape, DataInv, NEW t \in Tasks, NEW kind \in Kinds, NEW by, NEW u \in Users,
         by = "sweep" => kind \in regime, Queue(t, kind, by, u), UNCHANGED regime, UNCHANGED jobs
  PROVE  Stocked' /\ (\A s \in Tasks : RunTrue(task[s])') /\ Shrinking
<1>1. PICK x : x = Message(kind, by, u) /\ TaskStep(t, x)
  BY DEF Queue
<1>2. /\ x.pc = "queued" /\ x.kind = kind /\ x.by = by /\ x.user = u
      /\ x.plan = <<>> /\ x.results = <<>> /\ x.selected = <<>>
  BY <1>1, FreshIs
<1>3. Stocked' /\ Forward
  BY StockedStays DEF DataInv
<1>4. RunTrue(x)
  BY <1>2, EmptyIsTrue
<1>5. RunTrue(x)'
  BY <1>3, <1>4, RunStays
<1>6. \A s \in Tasks : RunTrue(task[s])'
  BY <1>1, <1>3, <1>5, TaskMoves DEF DataInv
<1>7. \A v \in Users : Live(v)' \subseteq Live(v)
  BY LiveStays DEF jobs
<1>8. x.pc \in {"done", "queued"}
  BY <1>2
<1>9. Shrinking
  BY <1>1, <1>7, <1>8, ShrinkMoves
<1>10. QED
  BY <1>3, <1>6, <1>9

\* A step of a sweep.
LEMMA SweepSettles ==
  ASSUME Shape, Settled, NEW k \in Kinds, NEW new, SweepStep(k, new), new.todo \subseteq Users,
         new.pc = "publish" => new.user \in Users, new.pc # "idle" => k \in regime,
         \A j \in Kinds : marker'[j] \subseteq Users,
         UNCHANGED <<regime, eligible, button, request>>, events' \in 0..MaxEvents
  PROVE  Settled'
<1>1. sweeper'[k] = new /\ \A j \in Kinds \ {k} : sweeper'[j] = sweeper[j]
  BY DEF Shape, SweepStep
<1>2. QED
  BY <1>1 DEF Settled, SweepAt, RequestAt

\* A step of a request.
LEMMA RequestSettles ==
  ASSUME Shape, Settled, NEW h \in Requests, NEW new, RequestStep(h, new),
         new.pc = "set" => new.task \in Tasks,
         \A u \in Users : button'[u] \in Tasks \cup {NoTask},
         UNCHANGED <<regime, eligible, marker, sweeper>>, events' \in 0..MaxEvents
  PROVE  Settled'
<1>1. request'[h] = new /\ \A g \in Requests \ {h} : request'[g] = request[g]
  BY DEF Shape, RequestStep
<1>2. QED
  BY <1>1 DEF Settled, SweepAt, RequestAt

\* A step of neither tasks nor pool nor rows.
LEMMA RestKeeps ==
  ASSUME Shape, DataInv, UNCHANGED regime, UNCHANGED jobs, \A s \in Tasks : task'[s] = task[s]
  PROVE  Stocked' /\ (\A s \in Tasks : RunTrue(task[s])') /\ Shrinking
<1>1. Stocked' /\ Forward
  BY StockedStays DEF DataInv
<1>2. \A t \in Tasks : RunTrue(task[t])'
  BY <1>1, TasksStay DEF DataInv
<1>3. Shrinking
  BY ShrinkStays DEF jobs
<1>4. QED
  BY <1>1, <1>2, <1>3

\* The records of sweeps.
LEMMA SweepRecords ==
  /\ IdleSweeper.pc = "idle" /\ IdleSweeper.todo = {}
  /\ \A S : /\ Remaining(S).todo = S /\ Remaining(S).pc \in {"idle", "check"}
            /\ [IdleSweeper EXCEPT !.pc = "check", !.todo = S].todo = S
            /\ [IdleSweeper EXCEPT !.pc = "check", !.todo = S].pc = "check"
  /\ \A S, u : LET x == [pc |-> "publish", todo |-> S, user |-> u]
               IN  x.todo = S /\ x.pc = "publish" /\ x.user = u
  BY DEF IdleSweeper, Remaining

\* The sweeps, of users that are eligible, while they are on.
LEMMA SweepsKeep ==
  ASSUME Shape, DataInv, NEW k \in Kinds,
         SweepNext(k) \/ PublishFails(k) \/ \E u \in Users : ExpireMarker(k, u)
  PROVE  DataInv' /\ Shrinking
<1>1. /\ regime \in Regimes /\ eligible \subseteq Users /\ sweeper[k].todo \subseteq Users
      /\ (SweepAt(k, "publish") => sweeper[k].user \in Users) /\ (~SweepAt(k, "idle") => k \in regime)
      /\ \A j \in Kinds : marker[j] \subseteq Users
  BY DEF DataInv, Settled
<1>2. ASSUME NEW new, SweepStep(k, new), new.todo \subseteq Users,
             new.pc = "publish" => new.user \in Users, new.pc # "idle" => k \in regime,
             \A j \in Kinds : marker'[j] \subseteq Users,
             UNCHANGED <<regime, eligible, button, request, task>>, UNCHANGED jobs,
             events' \in 0..MaxEvents
      PROVE  DataInv' /\ Shrinking
  <2>1. Settled'
    BY <1>2, SweepSettles DEF DataInv
  <2>2. QED
    BY <1>2, <2>1, RestKeeps DEF DataInv
<1>3. CASE StartSweep(k)
  <2>1. PICK new : new = [IdleSweeper EXCEPT !.pc = "check", !.todo = eligible]
    OBVIOUS
  <2>2. new.todo = eligible /\ new.pc = "check"
    BY <2>1, SweepRecords
  <2>3. /\ SweepStep(k, new) /\ k \in regime /\ UNCHANGED jobs /\ UNCHANGED events
        /\ UNCHANGED <<regime, eligible, marker, button, request, task>>
    BY <1>3, <2>1 DEF StartSweep, settings
  <2>4. events' \in 0..MaxEvents
    BY <2>3 DEF DataInv, Settled
  <2>5. QED
    BY <1>1, <1>2, <2>2, <2>3, <2>4
<1>4. ASSUME NEW u \in Users, CheckUser(k, u) PROVE DataInv' /\ Shrinking
  <2>1. PICK rest : rest = sweeper[k].todo \ {u}
    OBVIOUS
  <2>2. /\ SweepAt(k, "check") /\ UNCHANGED jobs /\ UNCHANGED events
        /\ UNCHANGED <<regime, eligible, button, request, task>>
        /\ \/ SweepStep(k, Remaining(rest)) /\ UNCHANGED marker
           \/ /\ SweepStep(k, [pc |-> "publish", todo |-> rest, user |-> u])
              /\ marker' = [marker EXCEPT ![k] = @ \cup {u}]
    BY <1>4, <2>1 DEF CheckUser, settings
  <2>3. PICK new : /\ SweepStep(k, new) /\ new.todo = rest
                   /\ (new.pc = "publish" => new.user = u)
    BY <2>2, SweepRecords
  <2>4. \A j \in Kinds : marker'[j] \subseteq Users
    BY <1>1, <2>2 DEF Shape
  <2>5. k \in regime /\ rest \subseteq Users
    BY <1>1, <2>1, <2>2 DEF SweepAt
  <2>6. events' \in 0..MaxEvents
    BY <2>2 DEF DataInv, Settled
  <2>7. QED
    BY <1>2, <2>2, <2>3, <2>4, <2>5, <2>6
<1>5. ASSUME NEW t \in Tasks, Publish(k, t) PROVE DataInv' /\ Shrinking
  <2>1. /\ SweepAt(k, "publish") /\ Queue(t, k, "sweep", sweeper[k].user)
        /\ SweepStep(k, Remaining(sweeper[k].todo)) /\ UNCHANGED jobs /\ UNCHANGED events
        /\ UNCHANGED <<regime, eligible, marker, button, request>>
    BY <1>5 DEF Publish, settings
  <2>2. k \in regime /\ sweeper[k].user \in Users
    BY <1>1, <2>1 DEF SweepAt
  <2>3. Stocked' /\ (\A s \in Tasks : RunTrue(task[s])') /\ Shrinking
    BY <2>1, <2>2, QueueKeeps
  <2>4. events' \in 0..MaxEvents /\ \A j \in Kinds : marker'[j] \subseteq Users
    BY <1>1, <2>1 DEF DataInv, Settled
  <2>5. PICK new : /\ SweepStep(k, new) /\ new.todo = sweeper[k].todo
                   /\ new.pc \in {"idle", "check"}
    BY <2>1, SweepRecords
  <2>6. Settled'
    BY <1>1, <2>1, <2>2, <2>4, <2>5, SweepSettles DEF DataInv
  <2>7. QED
    BY <2>3, <2>6 DEF DataInv
<1>6. CASE PublishFails(k)
  <2>1. /\ SweepStep(k, IdleSweeper) /\ UNCHANGED jobs /\ Event("broker")
        /\ UNCHANGED <<regime, eligible, marker, button, request, task>>
    BY <1>6 DEF PublishFails, settings
  <2>2. PICK new : SweepStep(k, new) /\ new.todo = {} /\ new.pc = "idle"
    BY <2>1, SweepRecords
  <2>3. events' \in 0..MaxEvents
    BY <2>1, EventIs DEF DataInv
  <2>4. QED
    BY <1>1, <1>2, <2>1, <2>2, <2>3
<1>7. ASSUME NEW u \in Users, ExpireMarker(k, u) PROVE DataInv' /\ Shrinking
  <2>1. /\ marker' = [marker EXCEPT ![k] = @ \ {u}] /\ UNCHANGED jobs
        /\ UNCHANGED events \/ Event("late")
        /\ UNCHANGED <<regime, eligible, sweeper, button, request, task>>
    BY <1>7 DEF ExpireMarker, settings
  <2>2. events' \in 0..MaxEvents
    BY <2>1, EventIs DEF DataInv
  <2>3. \A j \in Kinds : marker'[j] \subseteq Users
    BY <1>1, <2>1 DEF Shape
  <2>4. Settled'
    BY <2>1, <2>2, <2>3 DEF DataInv, Settled, SweepAt, RequestAt
  <2>5. QED
    BY <2>1, <2>4, RestKeeps DEF DataInv
<1>8. QED
  BY <1>3, <1>4, <1>5, <1>6, <1>7 DEF SweepNext

\* The requests, of a user's button and the task it names.
LEMMA RequestsKeep ==
  ASSUME Shape, DataInv, NEW h \in Requests,
         \/ RequestNext(h) \/ ApiCrash(h)
         \/ \E u \in Users : request_matching(h, u) \/ matching_status(h, u) \/ cancel_matching(h, u)
  PROVE  DataInv' /\ Shrinking
<1>1. /\ \A u \in Users : button[u] \in Tasks \cup {NoTask}
      /\ RequestAt(h, "set") => request[h].task \in Tasks
      /\ events \in 0..MaxEvents
  BY DEF DataInv, Settled
<1>2. /\ DOMAIN request[h] = {"pc", "user", "task"} /\ DOMAIN button = Users
      /\ ~RequestAt(h, "idle") => request[h].user \in Users
  BY RequestIs DEF Shape
<1>3. ASSUME NEW new, RequestStep(h, new), new.pc = "set" => new.task \in Tasks,
             \A u \in Users : button'[u] \in Tasks \cup {NoTask},
             UNCHANGED <<regime, eligible, marker, sweeper, task>>, UNCHANGED jobs,
             events' \in 0..MaxEvents
      PROVE  DataInv' /\ Shrinking
  <2>1. Settled'
    BY <1>3, RequestSettles DEF DataInv
  <2>2. QED
    BY <1>3, <2>1, RestKeeps DEF DataInv
<1>4. ASSUME NEW t \in Tasks, PublishSearch(h, t) PROVE DataInv' /\ Shrinking
  <2>1. PICK new : new = [request[h] EXCEPT !.pc = "set", !.task = t]
    OBVIOUS
  <2>2. new.task = t
    BY <1>2, <2>1
  <2>3. /\ RequestAt(h, "publish") /\ Queue(t, "source", "button", request[h].user)
        /\ RequestStep(h, new) /\ UNCHANGED jobs /\ UNCHANGED events
        /\ UNCHANGED <<regime, eligible, marker, sweeper, button>>
    BY <1>4, <2>1 DEF PublishSearch, settings
  <2>4. request[h].user \in Users /\ "source" \in Kinds
    BY <1>2, <2>3 DEF RequestAt, Kinds
  <2>5. Stocked' /\ (\A s \in Tasks : RunTrue(task[s])') /\ Shrinking
    BY <2>3, <2>4, QueueKeeps
  <2>6. events' \in 0..MaxEvents /\ \A u \in Users : button'[u] \in Tasks \cup {NoTask}
    BY <1>1, <2>3
  <2>7. Settled'
    BY <2>2, <2>3, <2>6, RequestSettles DEF DataInv
  <2>8. QED
    BY <2>5, <2>7 DEF DataInv
<1>5. CASE Revoke(h)
  <2>1. PICK new : new = [request[h] EXCEPT !.pc = "unset"]
    OBVIOUS
  <2>2. new.pc = "unset"
    BY <1>2, <2>1
  <2>3. PICK t : /\ TaskStep(t, Done) /\ RequestStep(h, new) /\ UNCHANGED jobs /\ UNCHANGED events
                 /\ UNCHANGED <<regime, eligible, marker, sweeper, button>>
    BY <1>5, <2>1 DEF Revoke, settings
  <2>4. events' \in 0..MaxEvents /\ \A u \in Users : button'[u] \in Tasks \cup {NoTask}
    BY <1>1, <2>3
  <2>5. Settled'
    BY <2>2, <2>3, <2>4, RequestSettles DEF DataInv
  <2>6. Stocked' /\ (\A s \in Tasks : RunTrue(task[s])') /\ Shrinking
    <3>1. CASE t \in Tasks
      <4>1. PICK x : x = Done
        OBVIOUS
      <4>2. x.pc = "done" /\ x.plan = <<>> /\ x.results = <<>> /\ x.selected = <<>>
        BY <4>1, DoneIs
      <4>3. QED
        BY <2>3, <3>1, <4>1, <4>2, EndKeeps
    <3>2. CASE t \notin Tasks
      <4>1. \A s \in Tasks : task'[s] = task[s]
        BY <2>3, <3>2 DEF TaskStep, Shape
      <4>2. QED
        BY <2>3, <4>1, RestKeeps
    <3>3. QED
      BY <3>1, <3>2
  <2>7. QED
    BY <2>5, <2>6 DEF DataInv
<1>6. ASSUME \/ set_match_state(h) \/ Probe(h) \/ clear_match_state(h) \/ ApiCrash(h)
             \/ \E u \in Users :
                  request_matching(h, u) \/ matching_status(h, u) \/ cancel_matching(h, u)
      PROVE  DataInv' /\ Shrinking
  <2>1. /\ UNCHANGED <<regime, eligible, marker, sweeper, task>> /\ UNCHANGED jobs
        /\ UNCHANGED events \/ Event("click") \/ Event("stop") \/ Event("api_crash")
    BY <1>6 DEF set_match_state, Probe, clear_match_state, ApiCrash, request_matching,
                matching_status, cancel_matching, settings
  <2>2. events' \in 0..MaxEvents
    BY <2>1, EventIs DEF DataInv
  <2>3. \A u \in Users : button'[u] \in Tasks \cup {NoTask}
    BY <1>1, <1>2, <1>6 DEF set_match_state, Probe, clear_match_state, ApiCrash, request_matching,
                matching_status, cancel_matching
  <2>4. PICK new : RequestStep(h, new) /\ new.pc # "set"
    <3>1. /\ IdleRequest.pc # "set" /\ [request[h] EXCEPT !.pc = "unset"].pc # "set"
          /\ \A u, t : [pc |-> "probe", user |-> u, task |-> t].pc # "set"
          /\ \A u, t : [pc |-> "revoke", user |-> u, task |-> t].pc # "set"
          /\ \A u : [IdleRequest EXCEPT !.pc = "publish", !.user = u].pc # "set"
      BY <1>2 DEF IdleRequest
    <3>2. QED
      BY <1>6, <3>1, Zenon DEF set_match_state, Probe, clear_match_state, ApiCrash, request_matching,
                        matching_status, cancel_matching
  <2>5. QED
    BY <1>3, <2>1, <2>2, <2>3, <2>4
<1>7. QED
  BY <1>4, <1>5, <1>6 DEF RequestNext

-----------------------------------------------------------------------------
(* Rows and runs of a role *)

\* The counts are of finite sets, and a run that holds a role is a run.
LEMMA RolesCount ==
  ASSUME DataInv, IsFiniteSet(Tasks), NEW u \in Users, NEW role
  PROVE  /\ IsFiniteSet(Runs(u)) /\ IsFiniteSet(Holding(u, role)) /\ IsFiniteSet(Having(u, role))
         /\ Cardinality(Runs(u)) \in Nat /\ Cardinality(Holding(u, role)) \in Nat
         /\ Cardinality(Having(u, role)) \in Nat
         /\ Cardinality(Holding(u, role)) <= Cardinality(Runs(u))
<1>1. pool \in Seq(Postings) /\ Live(u) \subseteq ToSet(pool)
  BY LiveIsThere DEF DataInv, Stocked
<1>2. IsFiniteSet(ToSet(pool))
  <2>1. IsFiniteSet(1..Len(pool)) /\ DOMAIN pool = 1..Len(pool)
    BY <1>1, UpTo
  <2>2. IsFiniteSet({pool[n] : n \in DOMAIN pool})
    BY <2>1, ImageIsFinite
  <2>3. QED
    BY <2>2 DEF ToSet
<1>3. Runs(u) \in SUBSET Tasks /\ Holding(u, role) \in SUBSET Runs(u)
  BY DEF Runs, Holding, Running, InFlight
<1>4. Having(u, role) \in SUBSET ToSet(pool)
  BY <1>1 DEF Having
<1>5. IsFiniteSet(Runs(u))
  BY <1>3, FS_Subset
<1>6. IsFiniteSet(Holding(u, role)) /\ Cardinality(Holding(u, role)) <= Cardinality(Runs(u))
  BY <1>3, <1>5, FS_Subset
<1>7. IsFiniteSet(Having(u, role))
  BY <1>2, <1>4, FS_Subset
<1>8. QED
  BY <1>5, <1>6, <1>7, FS_CardinalityType

\* Without a second search, the searches of the sweep are a user's only tasks.
LEMMA AloneInFlight ==
  ASSUME MarkersInv, DataInv, ~Overlapping, NEW u \in Users,
         NEW s \in InFlight, NEW t \in InFlight, task[s].user = u, task[t].user = u
  PROVE  s = t
<1>1. \A x \in InFlight : task[x].kind = "source"
  <2> SUFFICES ASSUME NEW x \in InFlight PROVE task[x].kind = "source"
    OBVIOUS
  <2>1. QueuedBy(task[x]) /\ RunTrue(task[x]) /\ task[x].pc # "done"
    BY DEF MarkersInv, OriginsTrue, DataInv, InFlight, At
  <2>2. task[x].kind \in Kinds /\ (task[x].by = "sweep" => task[x].kind \in regime)
    BY <2>1 DEF RunTrue
  <2>3. QED
    BY <2>1, <2>2 DEF QueuedBy, Overlapping, Kinds
<1>2. Marked("source", u)
  BY DEF MarkersInv, SweepInv, OnlySweeps, Overlapping, Kinds
<1>3. QED
  BY <1>1, <1>2 DEF Marked, Sweeping

\* A user's runs are no more than the rows a role may have.
LEMMA RunsAllowed ==
  ASSUME MarkersInv, DataInv, RolesInv, IsFiniteSet(Tasks), NEW u \in Users
  PROVE  Cardinality(Runs(u)) <= Allowed
<1>1. CASE Overlapping
  BY <1>1 DEF RolesInv, Allowed
<1>2. CASE ~Overlapping
  <2>1. \A s, t \in Runs(u) : s = t
    BY <1>2, AloneInFlight DEF Runs, Running
  <2>2. Runs(u) = {} \/ \E t : Runs(u) = {t}
    BY <2>1
  <2>3. Cardinality(Runs(u)) <= 1
    <3>1. PICK R : R = Runs(u)
      OBVIOUS
    <3>2. R = {} \/ \E t : R = {t}
      BY <2>2, <3>1
    <3>3. CASE R = {}
      BY <3>1, <3>3, FS_EmptySet
    <3>4. ASSUME NEW t, R = {t} PROVE Cardinality(R) <= 1
      <4>1. Cardinality({t}) = 1
        BY FS_Singleton
      <4>2. QED
        BY <3>4, <4>1
    <3>5. QED
      BY <3>1, <3>2, <3>3, <3>4
  <2>4. QED
    BY <1>2, <2>3 DEF Allowed
<1>3. QED
  BY <1>1, <1>2

\* Fewer rows and fewer runs.
LEMMA RolesLess ==
  ASSUME DataInv, RolesInv, IsFiniteSet(Tasks), UNCHANGED regime, NEW u \in Users,
         NEW role \in {role_key(p) : p \in Postings},
         Having(u, role)' \subseteq Having(u, role), Holding(u, role)' \subseteq Holding(u, role)
  PROVE  Cardinality(Having(u, role)') + Cardinality(Holding(u, role)') <= Allowed'
<1>1. /\ IsFiniteSet(Holding(u, role)) /\ IsFiniteSet(Having(u, role))
      /\ Cardinality(Holding(u, role)) \in Nat /\ Cardinality(Having(u, role)) \in Nat
  BY RolesCount
<1>2. PICK A, B : A = Having(u, role)' /\ B = Holding(u, role)'
  OBVIOUS
<1>3. /\ IsFiniteSet(A) /\ Cardinality(A) <= Cardinality(Having(u, role))
      /\ IsFiniteSet(B) /\ Cardinality(B) <= Cardinality(Holding(u, role))
  BY <1>1, <1>2, FS_Subset
<1>4. Cardinality(A) \in Nat /\ Cardinality(B) \in Nat
  BY <1>3, FS_CardinalityType
<1>5. Cardinality(Having(u, role)) + Cardinality(Holding(u, role)) <= Allowed
  BY DEF RolesInv
<1>6. Allowed' = Allowed /\ Allowed \in Nat
  BY SourcingBounds DEF Allowed, Overlapping
<1>7. Cardinality(A) + Cardinality(B) <= Allowed'
  BY <1>1, <1>3, <1>4, <1>5, <1>6
<1>8. QED
  BY <1>2, <1>7

\* Fewer runs.
LEMMA RunsLess ==
  ASSUME DataInv, RolesInv, IsFiniteSet(Tasks), NEW u \in Users, Runs(u)' \subseteq Runs(u)
  PROVE  Cardinality(Runs(u)') <= Workers
<1>1. IsFiniteSet(Runs(u)) /\ Cardinality(Runs(u)) \in Nat /\ Cardinality(Runs(u)) <= Workers
  BY RolesCount DEF RolesInv
<1>2. PICK R : R = Runs(u)'
  OBVIOUS
<1>3. IsFiniteSet(R) /\ Cardinality(R) <= Cardinality(Runs(u))
  BY <1>1, <1>2, FS_Subset
<1>4. Cardinality(R) \in Nat /\ Workers \in Nat
  BY <1>3, FS_CardinalityType, SourcingBounds
<1>5. Cardinality(R) <= Workers
  BY <1>1, <1>3, <1>4
<1>6. QED
  BY <1>2, <1>5

\* A step that only loses rows and runs keeps the bound.
LEMMA RolesShrink ==
  ASSUME DataInv, RolesInv, IsFiniteSet(Tasks), UNCHANGED regime, Shrinking
  PROVE  RolesInv'
<1>1. ASSUME NEW u \in Users PROVE Cardinality(Runs(u)') <= Workers
  <2>1. Runs(u)' \subseteq Runs(u)
    BY DEF Runs, Shrinking
  <2>2. QED
    BY <2>1, RunsLess
<1>2. ASSUME NEW u \in Users, NEW role \in {role_key(p) : p \in Postings}
      PROVE  Cardinality(Having(u, role)') + Cardinality(Holding(u, role)') <= Allowed'
  <2>1. Having(u, role)' \subseteq Having(u, role)
    BY DEF Having, Shrinking
  <2>2. Holding(u, role)' \subseteq Holding(u, role)
    BY DEF Holding, Runs, Shrinking
  <2>3. QED
    BY <2>1, <2>2, RolesLess
<1>3. QED
  BY <1>1, <1>2 DEF RolesInv

\* A run begins with nothing to insert.
LEMMA BeginRoles ==
  ASSUME Shape, DataInv, RolesInv, IsFiniteSet(Tasks), NEW t \in Tasks, NEW failed, Begin(t, failed)
  PROVE  RolesInv'
<1>1. /\ UNCHANGED <<reaped, rows>> /\ task'[t].selected = <<>> /\ task'[t].user = task[t].user
      /\ \A s \in Tasks \ {t} : task'[s] = task[s]
      /\ Cardinality(Runs(task[t].user)) < Workers
  BY BeginKeeps
<1>2. UNCHANGED regime
  BY DEF Begin
<1>3. ToSet(task'[t].selected) = {}
  BY <1>1 DEF ToSet
<1>4. ASSUME NEW u \in Users PROVE Cardinality(Runs(u)') <= Workers
  <2>1. CASE u # task[t].user
    <3>1. Runs(u)' \subseteq Runs(u)
      BY <1>1, <2>1 DEF Runs, Running, InFlight, At
    <3>2. QED
      BY <3>1, RunsLess
  <2>2. CASE u = task[t].user
    <3>1. PICK R : R = Runs(u)'
      OBVIOUS
    <3>2. R \subseteq Runs(u) \cup {t}
      BY <1>1, <3>1 DEF Runs, Running, InFlight, At
    <3>3. IsFiniteSet(Runs(u)) /\ Cardinality(Runs(u)) \in Nat /\ Cardinality(Runs(u)) < Workers
      BY <1>1, <2>2, RolesCount
    <3>4. /\ IsFiniteSet(Runs(u) \cup {t})
          /\ Cardinality(Runs(u) \cup {t}) \in {Cardinality(Runs(u)), Cardinality(Runs(u)) + 1}
      BY <3>3, FS_AddElement
    <3>5. IsFiniteSet(R) /\ Cardinality(R) <= Cardinality(Runs(u) \cup {t})
      BY <3>2, <3>4, FS_Subset
    <3>6. Cardinality(R) \in Nat /\ Workers \in Nat
      BY <3>5, FS_CardinalityType, SourcingBounds
    <3>7. Cardinality(R) <= Workers
      BY <3>3, <3>4, <3>5, <3>6
    <3>8. QED
      BY <3>1, <3>7
  <2>3. QED
    BY <2>1, <2>2
<1>5. ASSUME NEW u \in Users, NEW role \in {role_key(p) : p \in Postings}
      PROVE  Cardinality(Having(u, role)') + Cardinality(Holding(u, role)') <= Allowed'
  <2>1. Having(u, role)' \subseteq Having(u, role)
    BY <1>1, LiveStays DEF Having
  <2>2. Holding(u, role)' \subseteq Holding(u, role)
    BY <1>1, <1>3 DEF Holding, Runs, Running, InFlight, At
  <2>3. QED
    BY <1>2, <2>1, <2>2, RolesLess
<1>6. QED
  BY <1>4, <1>5 DEF RolesInv

\* What a run selects has no role of a row, and the runs alone are no more than allowed.
LEMMA RankRoles ==
  ASSUME MarkersInv, DataInv, RolesInv, IsFiniteSet(Tasks), NEW t \in Tasks, Rank(t)
  PROVE  RolesInv'
<1>1. /\ UNCHANGED <<reaped, rows>> /\ t \in Running /\ task'[t].user = task[t].user /\ task[t].user \in Users
      /\ task'[t].selected = Ids(Selected(task[t].user)) /\ task'[t].pc \in {"clear", "insert"}
      /\ \A s \in Tasks \ {t} : task'[s] = task[s]
  BY RankKeeps DEF MarkersInv
<1>2. UNCHANGED regime
  BY DEF Rank
<1>3. \A id \in ToSet(task'[t].selected) :
        \A q \in Live(task[t].user) : role_key(q) # role_key(id[1])
  <2>1. pool \in Seq(Postings) /\ Live(task[t].user) \subseteq ToSet(pool)
    BY <1>1, LiveIsThere DEF DataInv, Stocked
  <2>2. /\ Selected(task[t].user) \in Seq(Postings)
        /\ ToSet(Selected(task[t].user)) \subseteq ToSet(pool)
        /\ \A j \in ToSet(Selected(task[t].user)) :
             \A q \in Live(task[t].user) \cap ToSet(pool) : role_key(q) # role_key(j)
    BY <1>1, <2>1, SelectedIs
  <2>3. \A id \in ToSet(Ids(Selected(task[t].user))) : id[1] \in ToSet(Selected(task[t].user))
    BY <2>2, IdsAre DEF DataInv
  <2>4. QED
    BY <1>1, <2>1, <2>2, <2>3
<1>4. ASSUME NEW u \in Users PROVE Runs(u)' = Runs(u)
  BY <1>1 DEF Runs, Running, InFlight, At
<1>5. ASSUME NEW u \in Users PROVE Cardinality(Runs(u)') <= Workers
  BY <1>4, RunsLess
<1>6. ASSUME NEW u \in Users, NEW role \in {role_key(p) : p \in Postings}
      PROVE  Cardinality(Having(u, role)') + Cardinality(Holding(u, role)') <= Allowed'
  <2>1. Having(u, role)' = Having(u, role)
    BY <1>1, LiveStays DEF Having
  <2>2. CASE u = task[t].user /\ \E id \in ToSet(task'[t].selected) : role_key(id[1]) = role
    <3>1. Having(u, role) = {}
      BY <1>3, <2>2 DEF Having
    <3>2. PICK H : H = Holding(u, role)'
      OBVIOUS
    <3>3. H \subseteq Runs(u)
      BY <1>4, <3>2 DEF Holding
    <3>4. IsFiniteSet(Runs(u)) /\ Cardinality(Runs(u)) \in Nat /\ Cardinality(Runs(u)) <= Allowed
      BY RolesCount, RunsAllowed
    <3>5. IsFiniteSet(H) /\ Cardinality(H) <= Cardinality(Runs(u))
      BY <3>3, <3>4, FS_Subset
    <3>6. Cardinality(H) \in Nat /\ Allowed' = Allowed /\ Allowed \in Nat
      BY <1>2, <3>5, FS_CardinalityType, SourcingBounds DEF Allowed, Overlapping
    <3>7. Cardinality(Having(u, role)') = 0
      BY <2>1, <3>1, FS_EmptySet
    <3>8. Cardinality(H) <= Allowed'
      BY <3>4, <3>5, <3>6
    <3>9. QED
      BY <3>2, <3>6, <3>7, <3>8
  <2>3. CASE ~(u = task[t].user /\ \E id \in ToSet(task'[t].selected) : role_key(id[1]) = role)
    <3>1. Holding(u, role)' \subseteq Holding(u, role)
      BY <1>1, <2>3 DEF Holding, Runs, Running, InFlight, At
    <3>2. QED
      BY <1>2, <2>1, <3>1, RolesLess
  <2>4. QED
    BY <2>2, <2>3
<1>7. QED
  BY <1>5, <1>6 DEF RolesInv

\* A row for a role is one run less that holds it.
LEMMA InsertRoles ==
  ASSUME Shape, DataInv, RolesInv, IsFiniteSet(Tasks), NEW t \in Tasks, NEW fails,
         InsertRow(t, fails)
  PROVE  RolesInv'
<1> DEFINE id == Head(task[t].selected)
           p == id[1]
<1>1. /\ t \in Running /\ task'[t].user = task[t].user /\ task[t].user \in Users
      /\ \A s \in Tasks \ {t} : task'[s] = task[s]
      /\ id \in ToSet(task[t].selected)
      /\ ToSet(task'[t].selected) \subseteq ToSet(task[t].selected)
      /\ \A j \in ToSet(task'[t].selected) : role_key(j[1]) # role_key(p)
      /\ \A u \in Users \ {task[t].user} : Live(u)' = Live(u)
      /\ \A u \in Users : Live(u)' \subseteq Live(u) \cup {p}
  BY InsertKeeps
<1>2. UNCHANGED regime
  BY DEF InsertRow
<1> HIDE DEF p
<1>3. ASSUME NEW u \in Users PROVE Cardinality(Runs(u)') <= Workers
  <2>1. Runs(u)' \subseteq Runs(u)
    BY <1>1 DEF Runs, Running, InFlight, At
  <2>2. QED
    BY <2>1, RunsLess
<1>4. ASSUME NEW u \in Users, NEW role \in {role_key(q) : q \in Postings}
      PROVE  Cardinality(Having(u, role)') + Cardinality(Holding(u, role)') <= Allowed'
  <2>1. Holding(u, role)' \subseteq Holding(u, role)
    BY <1>1 DEF Holding, Runs, Running, InFlight, At
  <2>2. CASE u = task[t].user /\ role = role_key(p)
    <3>1. t \in Holding(u, role) /\ t \notin Holding(u, role)'
      <4>1. role_key(id[1]) = role
        BY <2>2 DEF p
      <4>2. t \in Holding(u, role)
        BY <1>1, <2>2, <4>1 DEF Holding, Runs
      <4>3. t \notin Holding(u, role)'
        BY <1>1, <2>2 DEF Holding
      <4>4. QED
        BY <4>2, <4>3
    <3>2. PICK A, B, q : A = Having(u, role)' /\ B = Holding(u, role)' /\ q = p
      OBVIOUS
    <3>3. A \subseteq Having(u, role) \cup {q} /\ B \subseteq Holding(u, role) \ {t}
      BY <1>1, <2>1, <2>2, <3>1, <3>2 DEF Having
    <3>4. /\ IsFiniteSet(Holding(u, role)) /\ IsFiniteSet(Having(u, role))
          /\ Cardinality(Holding(u, role)) \in Nat /\ Cardinality(Having(u, role)) \in Nat
      BY RolesCount
    <3>5. /\ IsFiniteSet(Having(u, role) \cup {q})
          /\ Cardinality(Having(u, role) \cup {q})
               \in {Cardinality(Having(u, role)), Cardinality(Having(u, role)) + 1}
      BY <3>4, FS_AddElement
    <3>6. /\ IsFiniteSet(Holding(u, role) \ {t})
          /\ Cardinality(Holding(u, role) \ {t}) = Cardinality(Holding(u, role)) - 1
      BY <3>1, <3>4, FS_RemoveElement
    <3>7. /\ IsFiniteSet(A) /\ Cardinality(A) <= Cardinality(Having(u, role) \cup {q})
          /\ IsFiniteSet(B) /\ Cardinality(B) <= Cardinality(Holding(u, role) \ {t})
      BY <3>3, <3>5, <3>6, FS_Subset
    <3>8. Cardinality(A) \in Nat /\ Cardinality(B) \in Nat
      BY <3>7, FS_CardinalityType
    <3>9. /\ Cardinality(Having(u, role)) + Cardinality(Holding(u, role)) <= Allowed
          /\ Allowed' = Allowed /\ Allowed \in Nat
      BY <1>2, SourcingBounds DEF RolesInv, Allowed, Overlapping
    <3>10. Cardinality(A) + Cardinality(B) <= Allowed'
      BY <3>4, <3>5, <3>6, <3>7, <3>8, <3>9
    <3>11. QED
      BY <3>2, <3>10
  <2>3. CASE ~(u = task[t].user /\ role = role_key(p))
    <3>1. Having(u, role)' \subseteq Having(u, role)
      BY <1>1, <2>3 DEF Having
    <3>2. QED
      BY <1>2, <2>1, <3>1, RolesLess
  <2>4. QED
    BY <2>2, <2>3
<1>5. QED
  BY <1>3, <1>4 DEF RolesInv

-----------------------------------------------------------------------------
(* The theorems about the pool, the rows and the runs *)

\* The first state.
LEMMA InitData == Init => DataInv
<1> SUFFICES ASSUME Init PROVE DataInv
  OBVIOUS
<1>1. Stocked
  <2>1. pool \in Seq(Postings) /\ IsInjective(pool)
    BY DEF Init, IsInjective
  <2>2. DOMAIN reaped = Postings /\ \A p \in Postings : reaped[p] \in Nat
    BY DEF Init
  <2>3. DOMAIN rows = Users /\ \A u \in Users : Known(rows[u])
    BY DEF Init, Known
  <2>4. QED
    BY <2>1, <2>2, <2>3 DEF Init, Stocked
<1>2. Settled
  <2>1. 0 \in 0..MaxEvents
    BY SourcingBounds
  <2>2. \A h \in Requests : request[h].pc = "idle"
    BY DEF Init, IdleRequest
  <2>3. \A k \in Kinds : /\ sweeper[k].pc = "idle" /\ sweeper[k].todo = {} /\ marker[k] = {}
    BY DEF Init, IdleSweeper
  <2>4. QED
    BY <2>1, <2>2, <2>3 DEF Init, Settled, SweepAt, RequestAt
<1>3. ASSUME NEW t \in Tasks PROVE RunTrue(task[t])
  BY DoneIs, EmptyIsTrue DEF Init
<1>4. QED
  BY <1>1, <1>2, <1>3 DEF DataInv

\* Every step keeps what the state holds; all but three kinds of step only lose rows and runs.
NewRun == \E t \in Tasks : (\E failed : Begin(t, failed)) \/ Rank(t) \/ \E fails : InsertRow(t, fails)

\* A search queued by a save.
LEMMA HookData ==
  ASSUME Shape, DataInv, NEW t \in Tasks, NEW u \in Users, HookPublish(u, t)
  PROVE  DataInv' /\ Shrinking
<1>1. /\ Queue(t, "source", "hook", u) /\ Event("hook") /\ UNCHANGED jobs
      /\ UNCHANGED <<regime, eligible>> /\ UNCHANGED guards
  BY DEF HookPublish, settings
<1>2. Stocked' /\ (\A s \in Tasks : RunTrue(task[s])') /\ Shrinking
  BY <1>1, QueueKeeps DEF Kinds
<1>3. Settled'
  BY <1>1, EventIs, SettledStays DEF DataInv
<1>4. QED
  BY <1>2, <1>3 DEF DataInv

\* The steps, one kind at a time.
LEMMA NextData ==
  ASSUME Shape, DataInv, [Next]_vars
  PROVE  DataInv' /\ (Shrinking \/ NewRun)
<1>1. CASE UNCHANGED vars
  <2>1. UNCHANGED jobs /\ UNCHANGED guards /\ UNCHANGED <<regime, task, eligible, events>>
    BY <1>1 DEF vars, jobs, guards
  <2>2. events' \in 0..MaxEvents
    BY <2>1 DEF DataInv, Settled
  <2>3. Settled'
    BY <2>1, <2>2, SettledStays DEF DataInv
  <2>4. QED
    BY <2>1, <2>3, RestKeeps DEF DataInv
<1>2. CASE Beyond
  BY <1>2, BeyondKeeps
<1>3. CASE \E u \in Users : ExpireButton(u)
  <2>1. PICK u \in Users : ExpireButton(u)
    BY <1>3
  <2>2. /\ button' = [button EXCEPT ![u] = NoTask] /\ UNCHANGED jobs
        /\ UNCHANGED events \/ Event("late")
        /\ UNCHANGED <<regime, eligible, marker, sweeper, request, task>>
    BY <2>1 DEF ExpireButton, settings
  <2>3. events' \in 0..MaxEvents
    BY <2>2, EventIs DEF DataInv
  <2>4. \A v \in Users : button'[v] \in Tasks \cup {NoTask}
    BY <2>2 DEF Shape, DataInv, Settled
  <2>5. Settled'
    BY <2>2, <2>3, <2>4 DEF DataInv, Settled, SweepAt, RequestAt
  <2>6. QED
    BY <2>2, <2>5, RestKeeps DEF DataInv
<1>4. CASE \E t \in Tasks :
             \/ TaskNext(t) \/ TaskError(t) \/ TaskKilled(t) \/ WorkerCrash(t)
             \/ \E failed \in SUBSET Entries \ {{}} : Begin(t, failed)
             \/ InsertRow(t, TRUE)
             \/ \E u \in Users : HookPublish(u, t)
  <2>1. PICK t \in Tasks :
             \/ TaskNext(t) \/ TaskError(t) \/ TaskKilled(t) \/ WorkerCrash(t)
             \/ \E failed \in SUBSET Entries \ {{}} : Begin(t, failed)
             \/ InsertRow(t, TRUE)
             \/ \E u \in Users : HookPublish(u, t)
    BY <1>4
  <2>2. ASSUME NEW failed, Begin(t, failed) PROVE DataInv' /\ NewRun
    BY <2>2, BeginKeeps DEF NewRun
  <2>3. CASE Rank(t)
    BY <2>3, RankKeeps DEF NewRun
  <2>4. ASSUME NEW fails, InsertRow(t, fails) PROVE DataInv' /\ NewRun
    BY <2>4, InsertKeeps DEF NewRun
  <2>5. CASE Ingest(t)
    BY <2>5, IngestKeeps
  <2>6. CASE ClearSweep(t) \/ TaskError(t) \/ TaskKilled(t) \/ WorkerCrash(t)
    BY <2>6, EndsKeep
  <2>7. CASE \E u \in Users : HookPublish(u, t)
    BY <2>7, HookData
  <2>8. QED
    BY <2>1, <2>2, <2>3, <2>4, <2>5, <2>6, <2>7 DEF TaskNext
<1>5. CASE \E k \in Kinds : SweepNext(k) \/ PublishFails(k) \/ \E u \in Users : ExpireMarker(k, u)
  BY <1>5, SweepsKeep
<1>6. CASE \E h \in Requests :
             \/ RequestNext(h) \/ ApiCrash(h)
             \/ \E u \in Users :
                  request_matching(h, u) \/ matching_status(h, u) \/ cancel_matching(h, u)
  BY <1>6, RequestsKeep
<1>7. QED
  BY <1>1, <1>2, <1>3, <1>4, <1>5, <1>6 DEF Next, Beyond

\* The invariants together.
SourcingInv == MarkersInv /\ DataInv

LEMMA InitSourcing == Init => SourcingInv
  BY InitMarkers, InitData DEF SourcingInv

LEMMA NextSourcing ==
  ASSUME SourcingInv, [Next]_vars
  PROVE  SourcingInv'
<1>1. MarkersInv'
  BY NextMarkers DEF SourcingInv
<1>2. DataInv'
  BY NextData DEF SourcingInv, MarkersInv
<1>3. QED
  BY <1>1, <1>2 DEF SourcingInv

\* The pool holds every posting once, a user's rows that have a document have one of the pool,
\* and a run has as many results as sources still to ingest: for any boards, profiles and
\* users, whatever is reaped, listed again or delivered twice on the way.
THEOREM SourcingTypes == Spec => []SourcingTypeOK
<1>1. SourcingInv => SourcingTypeOK
  <2> SUFFICES ASSUME SourcingInv PROVE SourcingTypeOK
    OBVIOUS
  <2>1. Stocked /\ Settled /\ \A t \in Tasks : RunTrue(task[t])
    BY DEF SourcingInv, DataInv
  <2>2. ToSet(pool) \subseteq Postings
    BY <2>1 DEF Stocked, ToSet
  <2>3. ASSUME NEW t \in Tasks
        PROVE  /\ ~At(t, "done") => task[t].user \in Users
               /\ ToSet(task[t].selected) \subseteq JobIds
               /\ Len(task[t].results) \in {0, Len(task[t].plan)}
    BY <2>1 DEF RunTrue, Chosen, Known, At
  <2>4. \A u \in Users : rows[u] \subseteq JobIds /\ Live(u) \subseteq ToSet(pool)
    BY <2>1, LiveIsThere DEF Stocked, Known
  <2>5. QED
    BY <2>1, <2>2, <2>3, <2>4 DEF SourcingTypeOK, Stocked, Settled, InFlight
<1>2. QED
  BY <1>1, InitSourcing, NextSourcing, PTL DEF Spec

\* HardFilter: no row is of a company that was on the user's list when its run ranked.
THEOREM HardFilterAlways == Spec => HardFilter
<1>1. SourcingInv /\ [Next]_vars =>
        [\A t \in Tasks : InsertRow(t, FALSE) =>
            \A c \in task[t].barred : c.key # Head(task[t].selected)[1].company.key]_vars
  <2> SUFFICES ASSUME SourcingInv, NEW t \in Tasks, InsertRow(t, FALSE), NEW c \in task[t].barred
               PROVE  c.key # Head(task[t].selected)[1].company.key
    OBVIOUS
  <2>1. ~Excluded(task[t].barred, Head(task[t].selected)[1])
    BY InsertKeeps DEF SourcingInv, MarkersInv
  <2>2. QED
    BY <2>1 DEF Excluded, company_key
<1>2. QED
  BY <1>1, InitSourcing, NextSourcing, PTL DEF Spec, HardFilter

\* FairShare: what a run goes on with is a fair selection of its ranking, of any pool.
THEOREM FairShareAlways == Spec => FairShare
<1>1. SourcingInv /\ [Next]_vars =>
        [\A t \in Tasks : At(t, "rank") /\ task'[t] # task[t] /\ Rank(t) =>
            LET u == task[t].user
                left == Candidates(Profile(u), Live(u), pool)
            IN  FairSelection(Ranked(Scored(Profile(u), left)), Picks(task'[t].selected), Limit)]_vars
  <2> SUFFICES ASSUME SourcingInv, NEW t \in Tasks, Rank(t)
               PROVE  FairSelection(Ranking(task[t].user), Picks(task'[t].selected), Limit)
    BY Zenon DEF Ranking
  <2>1. task[t].user \in Users /\ task'[t].selected = Ids(Selected(task[t].user))
    BY RankKeeps DEF SourcingInv, MarkersInv
  <2>2. /\ FairSelection(Ranking(task[t].user), Selected(task[t].user), Limit)
        /\ Selected(task[t].user) \in Seq(Postings)
        /\ ToSet(Selected(task[t].user)) \subseteq ToSet(pool)
    BY <2>1, SelectedIs DEF SourcingInv, DataInv, Stocked
  <2>3. Picks(Ids(Selected(task[t].user))) = Selected(task[t].user)
    BY <2>2, IdsAre DEF SourcingInv, DataInv
  <2>4. QED
    BY <2>1, <2>2, <2>3
<1>2. QED
  BY <1>1, InitSourcing, NextSourcing, PTL DEF Spec, FairShare

\* The first state has neither rows nor runs.
LEMMA InitRoles == Init => RolesInv
<1> SUFFICES ASSUME Init PROVE RolesInv
  OBVIOUS
<1>1. \A t \in Tasks : task[t].pc = "done"
  BY DEF Init, Done
<1>2. \A u \in Users : Runs(u) = {}
  BY <1>1 DEF Runs, Running, InFlight, At
<1>3. \A u \in Users, role \in {role_key(p) : p \in Postings} :
        Having(u, role) = {} /\ Holding(u, role) = {}
  BY <1>2 DEF Init, Having, Holding, Live
<1>4. Cardinality({}) = 0 /\ Workers \in Nat \ {0} /\ Allowed \in Nat
  BY FS_EmptySet, SourcingBounds DEF Allowed
<1>5. ASSUME NEW u \in Users PROVE Cardinality(Runs(u)) <= Workers
  <2>1. Runs(u) = {} /\ 0 <= Workers
    BY <1>2, <1>4
  <2>2. QED
    BY <1>4, <2>1
<1>6. ASSUME NEW u \in Users, NEW role \in {role_key(p) : p \in Postings}
      PROVE  Cardinality(Having(u, role)) + Cardinality(Holding(u, role)) <= Allowed
  <2>1. Having(u, role) = {} /\ Holding(u, role) = {} /\ 0 + 0 <= Allowed
    BY <1>3, <1>4
  <2>2. QED
    BY <1>4, <2>1
<1>7. QED
  BY <1>5, <1>6 DEF RolesInv

\* What a behaviour is allowed never changes.
LEMMA RegimeStays ==
  ASSUME [Next]_vars
  PROVE  UNCHANGED regime
<1>1. CASE UNCHANGED vars
  BY <1>1 DEF vars
<1>2. ASSUME NEW t \in Tasks, \/ TaskNext(t) \/ TaskError(t) \/ TaskKilled(t) \/ WorkerCrash(t)
                              \/ \E failed : Begin(t, failed)
                              \/ InsertRow(t, TRUE) \/ \E u \in Users : HookPublish(u, t)
      PROVE  UNCHANGED regime
  BY <1>2, Zenon DEF TaskNext, Begin, Ingest, Rank, InsertRow, ClearSweep, TaskError, TaskKilled,
              WorkerCrash, HookPublish
<1>3. ASSUME NEW k \in Kinds, SweepNext(k) \/ PublishFails(k) \/ \E u \in Users : ExpireMarker(k, u)
      PROVE  UNCHANGED regime
  BY <1>3, Zenon DEF SweepNext, StartSweep, CheckUser, Publish, PublishFails, ExpireMarker
<1>4. ASSUME NEW h \in Requests,
             \/ RequestNext(h) \/ ApiCrash(h)
             \/ \E u \in Users :
                  request_matching(h, u) \/ matching_status(h, u) \/ cancel_matching(h, u)
      PROVE  UNCHANGED regime
  BY <1>4, Zenon DEF RequestNext, PublishSearch, set_match_state, Probe, Revoke, clear_match_state,
              ApiCrash, request_matching, matching_status, cancel_matching
<1>5. ASSUME Beyond \/ \E u \in Users : ExpireButton(u) PROVE UNCHANGED regime
  BY <1>5, Zenon DEF Beyond, ExpireButton, Pause, Exclude, ExpireFetch, OtherSearch, run_source,
              Relist, Reap
<1>6. QED
  BY <1>1, <1>2, <1>3, <1>4, <1>5 DEF Next, Beyond

\* A role's removed documents are finitely many.
LEMMA RemovedIsFinite ==
  ASSUME Stocked, NEW role
  PROVE  IsFiniteSet(Removed(role)) /\ Cardinality(Removed(role)) \in Nat
<1>1. IsFiniteSet(Postings)
  <2>1. ASSUME NEW s \in DOMAIN Board PROVE IsFiniteSet(ToSet(Board[s]))
    <3>1. Board[s] \in Seq(ToSet(Board[s]))
      BY SourcingBoards DEF IsList
    <3>2. PICK b : b = Board[s] /\ b \in Seq(ToSet(Board[s]))
      BY <3>1
    <3>3. IsFiniteSet(1..Len(b)) /\ DOMAIN b = 1..Len(b)
      BY <3>2, UpTo
    <3>4. IsFiniteSet({b[n] : n \in DOMAIN b})
      BY <3>3, ImageIsFinite
    <3>5. QED
      BY <3>2, <3>4 DEF ToSet
  <2>2. PICK f : f = [s \in DOMAIN Board |-> ToSet(Board[s])]
    OBVIOUS
  <2>3. PICK F : F = {f[s] : s \in DOMAIN Board}
    OBVIOUS
  <2>4. IsFiniteSet(F)
    BY <2>3, SourcingBoards, ImageIsFinite
  <2>5. \A T \in F : IsFiniteSet(T)
    BY <2>1, <2>2, <2>3
  <2>6. IsFiniteSet(UNION F)
    BY <2>4, <2>5, FS_UNION
  <2>7. F = {ToSet(Board[s]) : s \in DOMAIN Board}
    BY <2>2, <2>3
  <2>8. QED
    BY <2>6, <2>7 DEF Postings
<1>2. PICK R : R = {q \in Postings : role_key(q) = role}
  OBVIOUS
<1>3. IsFiniteSet(R) /\ R \subseteq Postings
  <2>1. R \in SUBSET Postings
    BY <1>2
  <2>2. QED
    BY <1>1, <2>1, FS_Subset
<1>4. ASSUME NEW p \in R PROVE IsFiniteSet({p} \X (0..(reaped[p] - 1)))
  <2>1. PICK n \in Int : n = reaped[p] - 1
    BY <1>3 DEF Stocked
  <2>2. IsFiniteSet({p}) /\ IsFiniteSet(0..n)
    <3>1. 0 \in Int
      OBVIOUS
    <3>2. IsFiniteSet(0..n)
      BY <3>1, FS_Interval, Zenon
    <3>3. IsFiniteSet({p})
      BY FS_Singleton, Zenon
    <3>4. QED
      BY <3>2, <3>3
  <2>3. IsFiniteSet({p} \X (0..n))
    BY <2>2, FS_Product
  <2>4. QED
    BY <2>1, <2>3
<1>5. PICK f : f = [p \in R |-> {p} \X (0..(reaped[p] - 1))]
  OBVIOUS
<1>6. PICK F : F = {f[p] : p \in R}
  OBVIOUS
<1>7. IsFiniteSet(F)
  BY <1>3, <1>6, ImageIsFinite
<1>8. \A T \in F : IsFiniteSet(T)
  BY <1>4, <1>5, <1>6
<1>9. IsFiniteSet(UNION F)
  BY <1>7, <1>8, FS_UNION
<1>10. Removed(role) = UNION F
  <2>1. F = {{p} \X (0..(reaped[p] - 1)) : p \in R}
    BY <1>5, <1>6
  <2>2. QED
    BY <1>2, <2>1 DEF Removed
<1>11. QED
  BY <1>9, <1>10, FS_CardinalityType

\* A row is of a document of the pool or of one that was removed.
LEMMA RowsAreOf ==
  ASSUME Stocked, NEW u \in Users, NEW role
  PROVE  RowsOf(u, role) \subseteq {job_id(q) : q \in Having(u, role)} \cup Removed(role)
<1> SUFFICES ASSUME NEW id \in RowsOf(u, role)
             PROVE  id \in {job_id(q) : q \in Having(u, role)} \cup Removed(role)
  OBVIOUS
<1>1. id \in rows[u] /\ role_key(id[1]) = role /\ Known(rows[u])
  BY DEF RowsOf, Stocked
<1>2. PICK p \in Postings, n \in Nat : id = <<p, n>>
  BY <1>1 DEF Known, JobIds
<1>3. n <= reaped[p] /\ reaped[p] \in Nat /\ role_key(p) = role
  <2>1. id[1] = p /\ id[2] = n
    BY <1>2
  <2>2. id[2] <= reaped[id[1]] /\ role_key(id[1]) = role
    BY <1>1 DEF Known
  <2>3. reaped[p] \in Nat
    BY DEF Stocked
  <2>4. QED
    BY <2>1, <2>2, <2>3
<1>4. CASE n = reaped[p]
  <2>1. id = job_id(p) /\ p \in Live(u)
    BY <1>1, <1>2, <1>4 DEF job_id, Live
  <2>2. p \in Having(u, role)
    BY <1>3, <2>1 DEF Having
  <2>3. QED
    BY <2>1, <2>2
<1>5. CASE n # reaped[p]
  <2>1. n \in 0..(reaped[p] - 1)
    BY <1>3, <1>5
  <2>2. id \in {p} \X (0..(reaped[p] - 1))
    BY <1>2, <2>1
  <2>3. QED
    BY <1>3, <2>2 DEF Removed
<1>6. QED
  BY <1>4, <1>5

\* RolesBounded: of a role a user has no more rows than the runs that are allowed at once (one,
\* with the sweep alone) and the documents of the role that were removed: for any number of
\* users, tasks, requests and workers.
THEOREM RolesBoundedAlways ==
  ASSUME IsFiniteSet(Tasks)
  PROVE  Spec => []RolesBounded
<1>1. SourcingInv /\ RolesInv => RolesBounded
  <2> SUFFICES ASSUME SourcingInv, RolesInv, NEW u \in Users,
                      NEW role \in {role_key(p) : p \in Postings}
               PROVE  Cardinality(RowsOf(u, role)) <= Allowed + Cardinality(Removed(role))
    BY DEF RolesBounded
  <2>1. DataInv /\ Stocked
    BY DEF SourcingInv, DataInv
  <2>2. PICK H, G : H = Having(u, role) /\ G = Removed(role)
    OBVIOUS
  <2>3. IsFiniteSet(H) /\ Cardinality(H) \in Nat /\ Cardinality(Holding(u, role)) \in Nat
    BY <2>1, <2>2, RolesCount
  <2>4. Cardinality(H) + Cardinality(Holding(u, role)) <= Allowed /\ Allowed \in Nat
    BY <2>2, SourcingBounds DEF RolesInv, Allowed
  <2>5. Cardinality(H) <= Allowed
    BY <2>3, <2>4
  <2>6. PICK f : f = [q \in H |-> job_id(q)]
    OBVIOUS
  <2>7. PICK I : I = {f[q] : q \in H}
    OBVIOUS
  <2>8. IsFiniteSet(I) /\ Cardinality(I) <= Cardinality(H) /\ Cardinality(I) \in Nat
    BY <2>3, <2>7, ImageIsFinite, FS_CardinalityType
  <2>9. IsFiniteSet(G) /\ Cardinality(G) \in Nat
    BY <2>1, <2>2, RemovedIsFinite
  <2>10. I = {job_id(q) : q \in H}
    BY <2>6, <2>7
  <2>11. PICK W : W = RowsOf(u, role)
    OBVIOUS
  <2>12. W \in SUBSET (I \cup G)
    BY <2>1, <2>2, <2>10, <2>11, RowsAreOf
  <2>13. /\ IsFiniteSet(I \cup G)
         /\ Cardinality(I \cup G) = Cardinality(I) + Cardinality(G) - Cardinality(I \cap G)
    BY <2>8, <2>9, FS_Union
  <2>14. Cardinality(I \cap G) \in Nat
    <3>1. I \cap G \in SUBSET I
      OBVIOUS
    <3>2. QED
      BY <2>8, <3>1, FS_Subset, FS_CardinalityType
  <2>15. Cardinality(W) <= Cardinality(I \cup G) /\ IsFiniteSet(W)
    BY <2>12, <2>13, FS_Subset
  <2>16. Cardinality(W) \in Nat
    BY <2>15, FS_CardinalityType
  <2>17. Cardinality(W) <= Allowed + Cardinality(G)
    BY <2>3, <2>4, <2>5, <2>8, <2>9, <2>13, <2>14, <2>15, <2>16
  <2>18. QED
    BY <2>2, <2>11, <2>17
<1>2. SourcingInv /\ RolesInv /\ [Next]_vars => RolesInv'
  <2> SUFFICES ASSUME SourcingInv, RolesInv, [Next]_vars PROVE RolesInv'
    OBVIOUS
  <2>1. MarkersInv /\ DataInv /\ Shape
    BY DEF SourcingInv, MarkersInv
  <2>2. UNCHANGED regime
    BY RegimeStays
  <2>3. Shrinking \/ NewRun
    BY <2>1, NextData
  <2>4. CASE Shrinking
    BY <2>1, <2>2, <2>4, RolesShrink
  <2>5. CASE NewRun
    BY <2>1, <2>5, BeginRoles, RankRoles, InsertRoles DEF NewRun
  <2>6. QED
    BY <2>3, <2>4, <2>5
<1>3. QED
  BY <1>1, <1>2, InitSourcing, InitRoles, NextSourcing, PTL DEF Spec
=============================================================================
