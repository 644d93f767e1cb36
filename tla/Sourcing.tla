------------------------------ MODULE Sourcing ------------------------------
(***************************************************************************)
(* How postings become a user's rows: the discovery and matching sweeps,   *)
(* the "Find matches" button with its status and stop, the tasks they      *)
(* queue (workers/tasks/sourcing.py), the fetch cache, the in-flight       *)
(* markers and the retention of the pool.                                  *)
(*                                                                         *)
(* One action is one call out of the process that runs it.  A Job document *)
(* the retention removes takes its id with it; rows and selections keep    *)
(* that id, and the same posting seen again is a new document.             *)
(***************************************************************************)
EXTENDS Matching

CONSTANTS
    Users, Tasks, Requests,      \* task ids and API handlers in use at once
    Nobody, NoTask,
    Person,                      \* Person[u]: the profile, and the search it asks for
    QuerySources, FeedSources,   \* sequences of source names
    Board,                       \* Board[source]: all it ever carries, in its order
    SourceCap,                   \* MAX_POSTINGS_PER_SOURCE, 0 for none
    MAX_DEMAND_QUERIES,
    Limit,                       \* matches asked of one run
    Workers,                     \* tasks of one user that run at the same time
    Dropped,                     \* companies another user's search leaves out
    Regimes,                     \* the sweeps that are on and the events that happen, one set
                                 \* per behaviour
    MaxEvents

Kinds == {"source", "match"}
EventKinds == Kinds \cup {"click", "stop", "api_crash", "hook", "late", "fetch_fail", "error",
               "kill", "crash", "broker", "insert_fail", "list", "reap", "exclude", "pause",
               "other", "operator"}

ASSUME SourcingBounds == Workers \in Nat \ {0} /\ MaxEvents \in Nat /\ Limit \in Nat
ASSUME SourcingKinds == Regimes \subseteq SUBSET EventKinds
ASSUME SourcingNames == NoTask \notin Tasks

VARIABLES
    regime,       \* the sweeps and events of this behaviour
    listed,       \* postings their boards carry now
    pool,         \* Job documents, newest first
    cached,       \* fetches marked by mark_fetched
    reaped,       \* reaped[p]: Job documents of the posting that are gone
    rows,         \* rows[u]: the ids of the Jobs u has a row for, there or gone
    marker,       \* marker[kind]: users with a sweep marker
    sweeper,      \* sweeper[kind]: run_all_sources and match_all_users
    button,       \* button[u]: the task match:active names
    request,      \* request[h]: a match, status or cancel handler
    task,         \* task[t]: a source_for_user or match_for_user message, or its run
    excluded,     \* excluded[u]: profile.excluded_companies
    eligible,     \* users _eligible_users returns
    events        \* environment events so far

vars == <<regime, listed, pool, cached, reaped, rows, marker, sweeper, button, request, task,
          excluded, eligible, events>>
jobs == <<listed, pool, cached, reaped, rows>>
guards == <<marker, sweeper, button, request>>
settings == <<excluded, eligible>>

Postings == UNION {ToSet(Board[s]) : s \in DOMAIN Board}
Sources == ToSet(QuerySources) \cup ToSet(FeedSources)
JobIds == Postings \X Nat
NoQuery == [what |-> [words |-> {}, note |-> {}], country |-> "any"]

\* Titles and profiles are finite, a source is a board, and boards and searches are lists.
FiniteTitle(title) == IsFiniteSet(title.words) /\ IsFiniteSet(title.note)
IsList(s) == s \in Seq(ToSet(s))
ASSUME SourcingWords ==
    /\ \A w \in DOMAIN Acronym : IsFiniteSet(Acronym[w])
    /\ \A p \in Postings : FiniteTitle(p.title)
ASSUME SourcingPeople == \A u \in Users :
    /\ DOMAIN Person[u] = {"stated", "latest", "skills", "excluded", "countries", "remote",
                           "places", "search"}
    /\ IsFiniteSet(Person[u].stated \cup Person[u].latest) /\ IsFiniteSet(Person[u].skills)
    /\ \A t \in Person[u].stated \cup Person[u].latest : FiniteTitle(t)
    /\ IsList(Person[u].search.titles) /\ IsList(Person[u].search.countries)
ASSUME SourcingBoards ==
    /\ IsList(QuerySources) /\ IsList(FeedSources) /\ Sources \subseteq DOMAIN Board
    /\ IsFiniteSet(DOMAIN Board) /\ \A s \in DOMAIN Board : IsList(Board[s])
    /\ MAX_DEMAND_QUERIES \in Nat /\ SourceCap \in Nat

Done == [pc |-> "done", kind |-> "source", by |-> "sweep", user |-> Nobody, plan |-> <<>>,
         results |-> <<>>, barred |-> {}, selected |-> <<>>]
IdleSweeper == [pc |-> "idle", todo |-> {}, user |-> Nobody]
IdleRequest == [pc |-> "idle", user |-> Nobody, task |-> NoTask]

Init ==
    /\ regime \in Regimes
    /\ listed = Postings
    /\ pool = <<>>
    /\ cached = {}
    /\ reaped = [p \in Postings |-> 0]
    /\ rows = [u \in Users |-> {}]
    /\ marker = [k \in Kinds |-> {}]
    /\ sweeper = [k \in Kinds |-> IdleSweeper]
    /\ button = [u \in Users |-> NoTask]
    /\ request = [h \in Requests |-> IdleRequest]
    /\ task = [t \in Tasks |-> Done]
    /\ excluded = [u \in Users |-> Person[u].excluded]
    /\ eligible = Users
    /\ events = 0

-----------------------------------------------------------------------------
Event(kind) == kind \in regime /\ events < MaxEvents /\ events' = events + 1

At(t, pc) == task[t].pc = pc
TaskStep(t, new) == task' = [task EXCEPT ![t] = new]
InFlight == {t \in Tasks : ~At(t, "done")}
Running == {t \in InFlight : ~At(t, "queued")}
Referenced == {button[u] : u \in Users} \cup {request[h].task : h \in Requests}
Unused == Tasks \ (InFlight \cup Referenced)

\* The posting's document now, if the pool has it; the postings of a user's rows whose
\* document is there.
job_id(p) == <<p, reaped[p]>>
Live(u) == {p \in Postings : job_id(p) \in rows[u]}

Profile(u) == [Person[u] EXCEPT !.excluded = excluded[u]]

\* .delay and apply_async, as task t.
Message(kind, by, u) == [Done EXCEPT !.pc = "queued", !.kind = kind, !.by = by, !.user = u]
Queue(t, kind, by, u) == Unused # {} /\ t = (CHOOSE x \in Unused : TRUE) /\ TaskStep(t, Message(kind, by, u))

-----------------------------------------------------------------------------
(* The searches of a profile *)

\* Two nested loops: the first element of s with every element of t, then the next.
Pairs(s, t) ==
    [n \in 1..(Len(s) * Len(t)) |-> <<s[((n - 1) \div Len(t)) + 1], t[((n - 1) % Len(t)) + 1]>>]

\* Every title in the first country, then the next, up to the cap.
queries(search) ==
    LET all == Pairs(search.countries, search.titles)
    IN  [n \in 1..AtMost(MAX_DEMAND_QUERIES, Len(all)) |->
            [what |-> all[n][2], country |-> all[n][1]]]

fetch_plan(search) == Pairs(QuerySources, queries(search)) \o Pairs(FeedSources, <<NoQuery>>)

\* A source answers a query with what it carries for the title and the country,
\* a feed with all of it.
fetch(entry) ==
    LET query == entry[2]
        hit(p) == /\ p \in listed
                  /\ \/ query = NoQuery
                     \/ /\ domain_tokens(query.what) \cap domain_tokens(p.title) # {}
                        /\ query.country \in p.countries
    IN  Filtered(Board[entry[1]], hit)

\* Mutant: a posting seen again is inserted again.
upsertAnew(postings) == Reverse(postings) \o pool

\* upsert_job for each: a known fingerprint keeps its place.
upsert(postings) ==
    LET isNew(i) == postings[i] \notin ToSet(pool) /\ \A k \in 1..(i - 1) : postings[k] # postings[i]
    IN  Reverse(Picked(postings, {i \in DOMAIN postings : isNew(i)})) \o pool

\* _ingest: the cap, if there is one, comes before the exclusions.
ingested(postings, barred) ==
    LET cap == IF SourceCap > 0 THEN SourceCap ELSE Len(postings)
    IN  Filtered(SubSeq(postings, 1, AtMost(cap, Len(postings))), LAMBDA p : ~Excluded(barred, p))

-----------------------------------------------------------------------------
(* A task.  Redelivery starts it again; a kill leaves no finally behind. *)

\* The plan is what the cache does not cover; all of it is fetched concurrently, and a
\* source that raises contributes nothing.
Begin(t, failed) ==
    /\ At(t, "queued")
    /\ Cardinality({s \in Running : task[s].user = task[t].user}) < Workers
    /\ LET u == task[t].user
           plan == IF task[t].kind = "match" THEN <<>>
                   ELSE Filtered(fetch_plan(Person[u].search), LAMBDA e : e \notin cached)
           result(e) == IF e \in failed THEN <<>> ELSE fetch(e)
       IN  /\ failed \subseteq ToSet(plan)
           /\ TaskStep(t, [task[t] EXCEPT !.pc = IF plan = <<>> THEN "rank" ELSE "ingest",
                                          !.plan = plan, !.barred = excluded[u],
                                          !.results = [i \in DOMAIN plan |-> result(plan[i])]])
    /\ IF failed = {} THEN UNCHANGED events ELSE Event("fetch_fail")
    /\ UNCHANGED <<regime, jobs, guards, settings>>

\* The next source: persist what it returned, then mark_fetched, whatever that was.
Ingest(t) ==
    /\ At(t, "ingest")
    /\ pool' = upsert(ingested(Head(task[t].results), task[t].barred))
    /\ cached' = cached \cup {Head(task[t].plan)}
    /\ TaskStep(t, [task[t] EXCEPT !.plan = Tail(@), !.results = Tail(@),
                                   !.pc = IF Len(task[t].plan) = 1 THEN "rank" ELSE "ingest"])
    /\ UNCHANGED <<regime, listed, reaped, rows, guards, settings, events>>

\* match_jobs_for_user up to its inserts: the profile, the rows and the pool as they are now.
Rank(t) ==
    /\ At(t, "rank")
    /\ LET u == task[t].user
       IN  \E left \in {Candidates(Profile(u), Live(u), pool)} :
           \E ranked \in {Ranked(Scored(Profile(u), left))} :
           \E best \in {diversify(ranked, Limit)} :
             TaskStep(t, [task[t] EXCEPT !.pc = IF best = <<>> THEN "clear" ELSE "insert",
                                         !.barred = excluded[u],
                                         !.selected = [i \in DOMAIN best |-> job_id(best[i].job)]])
    /\ UNCHANGED <<regime, jobs, guards, settings, events>>

\* One row, also when its Job went meanwhile; a duplicate key and any other error let the
\* loop go on.
InsertRow(t, fails) ==
    LET id == Head(task[t].selected)
    IN  /\ At(t, "insert")
        /\ IF fails THEN Event("insert_fail") /\ UNCHANGED rows
                    ELSE UNCHANGED events /\ rows' = [rows EXCEPT ![task[t].user] = @ \cup {id}]
        /\ TaskStep(t, [task[t] EXCEPT !.selected = Tail(@),
                                       !.pc = IF Len(task[t].selected) = 1 THEN "clear"
                                              ELSE "insert"])
        /\ UNCHANGED <<regime, listed, pool, cached, reaped, guards, settings>>

\* The finally clause clears the marker of the kind, whoever queued this run.
ClearSweep(t) ==
    /\ At(t, "clear")
    /\ marker' = [marker EXCEPT ![task[t].kind] = @ \ {task[t].user}]
    /\ TaskStep(t, Done)
    /\ UNCHANGED <<regime, jobs, sweeper, button, request, settings, events>>

TaskError(t) ==
    /\ Event("error")
    /\ t \in Running /\ ~At(t, "clear")
    /\ TaskStep(t, [Message(task[t].kind, task[t].by, task[t].user) EXCEPT !.pc = "clear"])
    /\ UNCHANGED <<regime, jobs, guards, settings>>

\* The child is lost: acknowledged, and no finally clause runs.
TaskKilled(t) ==
    /\ Event("kill")
    /\ t \in Running
    /\ TaskStep(t, Done)
    /\ UNCHANGED <<regime, jobs, guards, settings>>

\* The worker is lost: the message comes back.
WorkerCrash(t) ==
    /\ Event("crash")
    /\ t \in Running
    /\ TaskStep(t, Message(task[t].kind, task[t].by, task[t].user))
    /\ UNCHANGED <<regime, jobs, guards, settings>>

-----------------------------------------------------------------------------
(* The sweeps *)

SweepAt(k, pc) == sweeper[k].pc = pc
SweepStep(k, new) == sweeper' = [sweeper EXCEPT ![k] = new]
Remaining(todo) == IF todo = {} THEN IdleSweeper ELSE [pc |-> "check", todo |-> todo, user |-> Nobody]

StartSweep(k) ==
    /\ SweepAt(k, "idle") /\ k \in regime        \* its interval is not 0
    /\ eligible # {}
    /\ SweepStep(k, [IdleSweeper EXCEPT !.pc = "check", !.todo = eligible])
    /\ UNCHANGED <<regime, jobs, marker, button, request, task, settings, events>>

\* Mutant: the sweep does not look at its markers.
SkippedNever(k, u) == target_titles(Person[u]) = {} /\ (k = "source" \/ Person[u].skills = {})

\* Nothing to search or match on, or one of the kind is queued or running.
Skipped(k, u) ==
    \/ target_titles(Person[u]) = {} /\ (k = "source" \/ Person[u].skills = {})
    \/ u \in marker[k]

\* Nothing another process does between the check and the mark matters to either.
CheckUser(k, u) ==
    /\ SweepAt(k, "check")
    /\ u \in sweeper[k].todo
    /\ LET rest == sweeper[k].todo \ {u}
       IN  IF Skipped(k, u)
             THEN SweepStep(k, Remaining(rest)) /\ UNCHANGED marker
             ELSE /\ SweepStep(k, [pc |-> "publish", todo |-> rest, user |-> u])
                  /\ marker' = [marker EXCEPT ![k] = @ \cup {u}]
    /\ UNCHANGED <<regime, jobs, button, request, task, settings, events>>

Publish(k, t) ==
    /\ SweepAt(k, "publish")
    /\ Queue(t, k, "sweep", sweeper[k].user)
    /\ SweepStep(k, Remaining(sweeper[k].todo))
    /\ UNCHANGED <<regime, jobs, marker, button, request, settings, events>>

\* .delay raises out of the loop: the marker stays, the other users wait.
PublishFails(k) ==
    /\ Event("broker")
    /\ SweepAt(k, "publish")
    /\ SweepStep(k, IdleSweeper)
    /\ UNCHANGED <<regime, jobs, marker, button, request, task, settings>>

\* Mutant: the marker is set without a TTL.
ExpireMarkerNever(k, u) ==
    /\ u \in marker[k] /\ marker' = [marker EXCEPT ![k] = @ \ {u}]
    /\ FALSE /\ UNCHANGED <<regime, jobs, sweeper, button, request, task, settings, events>>

\* The TTL of 1.5 intervals; only a queue that has fallen behind outlives it.
ExpireMarker(k, u) ==
    /\ u \in marker[k]
    /\ IF \E t \in InFlight : task[t].kind = k /\ task[t].user = u
         THEN Event("late") ELSE UNCHANGED events
    /\ ~SweepAt(k, "publish")
    /\ marker' = [marker EXCEPT ![k] = @ \ {u}]
    /\ UNCHANGED <<regime, jobs, sweeper, button, request, task, settings>>

-----------------------------------------------------------------------------
(* "Find matches", its status and its stop *)

RequestStep(h, new) == request' = [request EXCEPT ![h] = new]
RequestAt(h, pc) == request[h].pc = pc

\* With a search running the answer is that one, and the handler is over.
request_matching(h, u) ==
    /\ Event("click")
    /\ RequestAt(h, "idle")
    /\ button[u] = NoTask
    /\ RequestStep(h, [IdleRequest EXCEPT !.pc = "publish", !.user = u])
    /\ UNCHANGED <<regime, jobs, marker, sweeper, button, task, settings>>

PublishSearch(h, t) ==
    /\ RequestAt(h, "publish")
    /\ Queue(t, "source", "button", request[h].user)
    /\ RequestStep(h, [request[h] EXCEPT !.pc = "set", !.task = t])
    /\ UNCHANGED <<regime, jobs, marker, sweeper, button, settings, events>>

set_match_state(h) ==
    /\ RequestAt(h, "set")
    /\ button' = [button EXCEPT ![request[h].user] = request[h].task]
    /\ RequestStep(h, IdleRequest)
    /\ UNCHANGED <<regime, jobs, marker, sweeper, task, settings, events>>

matching_status(h, u) ==
    /\ RequestAt(h, "idle")
    /\ button[u] # NoTask
    /\ RequestStep(h, [pc |-> "probe", user |-> u, task |-> button[u]])
    /\ UNCHANGED <<regime, jobs, marker, sweeper, button, task, settings, events>>

readyAlways(t) == t \in Tasks        \* mutant: the marker is never believed

\* AsyncResult(...).ready(): a finished, failed or revoked task.
ready(t) == At(t, "done")

Probe(h) ==
    /\ RequestAt(h, "probe")
    /\ RequestStep(h, IF ready(request[h].task) THEN [request[h] EXCEPT !.pc = "unset"]
                      ELSE IdleRequest)
    /\ UNCHANGED <<regime, jobs, marker, sweeper, button, task, settings, events>>

cancel_matching(h, u) ==
    /\ Event("stop")
    /\ RequestAt(h, "idle")
    /\ button[u] # NoTask
    /\ RequestStep(h, [pc |-> "revoke", user |-> u, task |-> button[u]])
    /\ UNCHANGED <<regime, jobs, marker, sweeper, button, task, settings>>

\* A queued task is discarded, a running one terminated without its finally clause.
Revoke(h) ==
    /\ RequestAt(h, "revoke")
    /\ TaskStep(request[h].task, Done)
    /\ RequestStep(h, [request[h] EXCEPT !.pc = "unset"])
    /\ UNCHANGED <<regime, jobs, marker, sweeper, button, settings, events>>

clear_match_state(h) ==
    /\ RequestAt(h, "unset")
    /\ button' = [button EXCEPT ![request[h].user] = NoTask]
    /\ RequestStep(h, IdleRequest)
    /\ UNCHANGED <<regime, jobs, marker, sweeper, task, settings, events>>

ApiCrash(h) ==
    /\ Event("api_crash")
    /\ ~RequestAt(h, "idle")
    /\ RequestStep(h, IdleRequest)
    /\ UNCHANGED <<regime, jobs, marker, sweeper, button, task, settings>>

\* The 15 minutes of match:active.
ExpireButton(u) ==
    /\ button[u] # NoTask
    /\ IF button[u] \in InFlight THEN Event("late") ELSE UNCHANGED events
    /\ button' = [button EXCEPT ![u] = NoTask]
    /\ UNCHANGED <<regime, jobs, marker, sweeper, request, task, settings>>

\* A saved profile or a parsed CV queues a search of its own.
HookPublish(u, t) ==
    /\ Event("hook")
    /\ Queue(t, "source", "hook", u)
    /\ UNCHANGED <<regime, jobs, guards, settings>>

-----------------------------------------------------------------------------
(* The boards, the cache, the retention and the user *)

ExpireFetch(e) ==
    /\ e \in cached
    /\ cached' = cached \ {e}
    /\ UNCHANGED <<regime, listed, pool, reaped, rows, guards, task, settings, events>>

\* Another user's search of a plan entry, without the companies that one excludes.
OtherSearch(e) ==
    /\ Event("other")
    /\ e \notin cached
    /\ pool' = upsert(ingested(fetch(e), Dropped))
    /\ cached' = cached \cup {e}
    /\ UNCHANGED <<regime, listed, reaped, rows, guards, task, settings>>

\* A board query of SOURCING_JOBS_JSON: for everyone, uncached, excluding nobody.
run_source(s) ==
    /\ Event("operator")
    /\ pool' = upsert(ingested(fetch(<<s, NoQuery>>), {}))
    /\ UNCHANGED <<regime, listed, cached, reaped, rows, guards, task, settings>>

Relist(p) ==
    /\ Event("list")
    /\ listed' = IF p \in listed THEN listed \ {p} ELSE listed \cup {p}
    /\ UNCHANGED <<regime, pool, cached, reaped, rows, guards, task, settings>>

\* The TTL index on Job.updated_at: the document goes, the rows that name it stay.
Reap(p) ==
    /\ Event("reap")
    /\ p \in ToSet(pool)
    /\ pool' = Filtered(pool, LAMBDA q : q # p)
    /\ reaped' = [reaped EXCEPT ![p] = @ + 1]
    /\ UNCHANGED <<regime, listed, cached, rows, guards, task, settings>>

Exclude(u, c) ==
    /\ Event("exclude")
    /\ excluded' = [excluded EXCEPT ![u] = IF c \in @ THEN @ \ {c} ELSE @ \cup {c}]
    /\ UNCHANGED <<regime, jobs, guards, task, eligible>>

Pause(u) ==
    /\ Event("pause")
    /\ eligible' = IF u \in eligible THEN eligible \ {u} ELSE eligible \cup {u}
    /\ UNCHANGED <<regime, jobs, guards, task, excluded>>

-----------------------------------------------------------------------------
Entries == UNION {ToSet(fetch_plan(Person[u].search)) : u \in Users}

TaskNext(t) ==
    \/ Begin(t, {}) \/ Ingest(t) \/ Rank(t) \/ InsertRow(t, FALSE) \/ ClearSweep(t)

SweepNext(k) ==
    \/ StartSweep(k)
    \/ \E u \in Users : CheckUser(k, u)
    \/ \E t \in Tasks : Publish(k, t)

RequestNext(h) ==
    \/ \E t \in Tasks : PublishSearch(h, t)
    \/ set_match_state(h) \/ Probe(h) \/ Revoke(h) \/ clear_match_state(h)

Next ==
    \/ \E t \in Tasks :
         \/ TaskNext(t) \/ TaskError(t) \/ TaskKilled(t) \/ WorkerCrash(t)
         \/ \E failed \in SUBSET Entries \ {{}} : Begin(t, failed)
         \/ InsertRow(t, TRUE)
         \/ \E u \in Users : HookPublish(u, t)
    \/ \E k \in Kinds : SweepNext(k) \/ PublishFails(k) \/ \E u \in Users : ExpireMarker(k, u)
    \/ \E h \in Requests :
         \/ RequestNext(h) \/ ApiCrash(h)
         \/ \E u \in Users : request_matching(h, u) \/ matching_status(h, u) \/ cancel_matching(h, u)
    \/ \E u \in Users : \/ ExpireButton(u) \/ Pause(u)
                        \/ \E c \in {p.company : p \in Postings} : Exclude(u, c)
    \/ \E e \in Entries : ExpireFetch(e) \/ OtherSearch(e)
    \/ \E s \in Sources : run_source(s)
    \/ \E p \in Postings : Relist(p) \/ Reap(p)

\* Beat keeps sweeping and every TTL runs out.  A publish waits for a free id, which
\* comes and goes.  The queue is FIFO and a run has a hard time limit, so every message
\* comes to an end: weak fairness of TaskNext, whose steps are always enabled once a
\* worker is free, stated without ENABLED; so is that of ExpireFetch.
MessagesEnd == \A t \in Tasks : []<>At(t, "done")
Fairness ==
    /\ MessagesEnd
    /\ \A k \in Kinds : WF_vars(SweepNext(k)) /\ SF_vars(\E t \in Tasks : Publish(k, t))
    /\ \A h \in Requests : WF_vars(RequestNext(h))
    /\ \A k \in Kinds, u \in Users : WF_vars(ExpireMarker(k, u))
    /\ \A u \in Users : WF_vars(ExpireButton(u))
    /\ \A e \in Entries : []<>(e \notin cached)

Spec == Init /\ [][Next]_vars /\ Fairness

-----------------------------------------------------------------------------
(* Properties *)

SourcingTypeOK ==
    /\ regime \in Regimes /\ events \in 0..MaxEvents
    /\ listed \subseteq Postings /\ cached \subseteq Entries /\ eligible \subseteq Users
    /\ IsInjective(pool) /\ ToSet(pool) \subseteq Postings
    /\ \A p \in Postings : reaped[p] \in Nat
    /\ \A u \in Users : /\ rows[u] \subseteq JobIds /\ Live(u) \subseteq ToSet(pool)
                        /\ button[u] \in Tasks \cup {NoTask}
    /\ \A k \in Kinds : marker[k] \subseteq Users
    /\ \A t \in InFlight : task[t].user \in Users /\ ToSet(task[t].selected) \subseteq JobIds
    /\ \A t \in Tasks : Len(task[t].results) \in {0, Len(task[t].plan)}

\* The check for the roles the user has is far from the insert, and the pool changes in
\* between.  It finds a role by the Job of the row, so what the retention removes is
\* forgotten, and the role posted again is matched again.  Whatever is re-posted, reaped,
\* killed or redelivered, a user has no more rows of a role than the runs that are
\* allowed at once (one, with the sweep alone), and one more for each document of the
\* role that was removed.
Overlapping == regime \cap {"match", "click", "hook", "late"} # {}
Allowed == IF Overlapping THEN Workers ELSE 1
RowsOf(u, role) == {id \in rows[u] : role_key(id[1]) = role}
Removed(role) ==
    UNION {{p} \X (0..(reaped[p] - 1)) : p \in {q \in Postings : role_key(q) = role}}
RolesBounded ==
    \A u \in Users : \A role \in {role_key(p) : p \in Postings} :
        Cardinality(RowsOf(u, role)) <= Allowed + Cardinality(Removed(role))

\* Of whatever pool and rows a run meets, it goes on with the best entries the limit
\* and the cap per employer leave room for, one of a role.
Picks(selected) == [i \in DOMAIN selected |-> selected[i][1]]
FairShare ==
    [][\A t \in Tasks : At(t, "rank") /\ task'[t] # task[t] /\ Rank(t) =>
          LET u == task[t].user
              left == Candidates(Profile(u), Live(u), pool)
          IN  FairSelection(Ranked(Scored(Profile(u), left)), Picks(task'[t].selected), Limit)]_vars

\* A company on the user's list when a run ranks gets no row from it, whatever form of
\* its name a posting carries, whoever brought the posting into the pool, and whether the
\* company was put on the list before the run fetched or since.
HardFilter ==
    [][\A t \in Tasks : InsertRow(t, FALSE) =>
          \A c \in task[t].barred : c.key # Head(task[t].selected)[1].company.key]_vars

\* The marker's purpose: at most one queued or running sweep task of a user, through
\* errors, kills, redeliveries and lost publishes.  A search queued by the button or a
\* save clears the marker of a sweep's task, and a marker can run out before its task.
OneSweepTask ==
    \A k \in Kinds, u \in Users :
        (regime \cap {"late"} = {} /\ (k = "match" \/ regime \cap {"click", "hook"} = {})) =>
        Cardinality({t \in InFlight : task[t].by = "sweep" /\ task[t].kind = k
                                     /\ task[t].user = u}) <= 1

\* While requests of a user do not overlap and no marker runs out early, the stop
\* button points at the search under way, and so no second one is stacked on it.
StopFindsSearch ==
    Cardinality(Requests) = 1 /\ regime \cap {"late", "api_crash"} = {} =>
        \A t \in InFlight : task[t].by = "button" =>
            \/ button[task[t].user] = t
            \/ \E h \in Requests : RequestAt(h, "set") /\ request[h].task = t

\* Both markers at once: what Redis says of a task that is queued or running is true.
MarkersTrue == OneSweepTask /\ StopFindsSearch

Offered(u, p) ==
    \E e \in ToSet(fetch_plan(Person[u].search)) :
        p \in ToSet(ingested(fetch(e), excluded[u]))

\* Postings for a user of which every office scores: the dedupe keeps the newest one it
\* scans, and a newest one below the threshold hides the others.
Worthy ==
    {w \in Users \X Postings :
        /\ Passes(Person[w[1]], w[2])
        /\ \A q \in Postings : role_key(q) = role_key(w[2]) /\ Passes(Person[w[1]], q)
                => score_job(Person[w[1]], q) >= MIN_MATCH_SCORE}

Wanted(u, p) == "source" \in regime /\ u \in eligible /\ <<u, p>> \in Worthy /\ Offered(u, p)

Covered(u, p) == \E q \in Live(u) : role_key(q) = role_key(p)

\* Whatever was lost, failed, cached without its postings, stopped or reaped on the
\* way, a role the user's own search keeps offering becomes one of the user's rows.
Reached == <>[](\A u \in Users, p \in Postings : Covered(u, p) \/ ~Wanted(u, p))
=============================================================================
