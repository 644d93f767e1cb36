# Aptil: verification project

TLA+ models of the Aptil backend (`src/backend/app`), the TLC runs that check
them on small instances, and proofs that TLAPS checks for every instance.

- [1. The system](#1-the-system)
- [2. Plan](#2-plan)
- [3. The apply engine](#3-the-apply-engine)
- [4. Billing](#4-billing)
- [5. Sessions](#5-sessions)
- [6. The credential key](#6-the-credential-key)
- [7. Matching and sourcing](#7-matching-and-sourcing)
- [8. Onboarding and the CV](#8-onboarding-and-the-cv)
- [9. Interviews](#9-interviews)
- [10. A run of an adapter](#10-a-run-of-an-adapter)
- [11. Runs](#11-runs)
- [12. What is proved](#12-what-is-proved)
- [13. What the code does not keep](#13-what-the-code-does-not-keep)
- [14. Limits and what is not modelled](#14-limits-and-what-is-not-modelled)

## 1. The system

Aptil finds jobs, matches them with a user's profile and submits applications in
the user's name.  A FastAPI process answers HTTP requests; four Celery workers
(`scripts/start-worker.sh`: queues *critical*, *interactive*, *apply* and
*celery*) run tasks from Redis; MongoDB holds the documents, through Beanie;
Stripe takes payments; Playwright drives the employers' forms.

Three facts about this stack shape every model here:

1. Beanie's `Document.save()` writes the **whole** document its holder read, and
   upserts it.  Only `update({"$inc": ...})`, `update({"$set": ...})` and inserts
   under a unique index are narrower than that.
2. `task_acks_late` is set for every task, but a message comes back after the loss
   of a worker process only where `reject_on_worker_lost` is set too:
   `submit_application` and the CV parser.
3. Nothing holds a lock.  Two handlers that touch one document interleave at every
   `await`.

| Component | State | Operations | Meets | What makes it correct |
|---|---|---|---|---|
| Apply engine: `workers/tasks/apply.py`, `api/v1/routes/jobs.py` | `JobApplication.status`, `needs_action`; `User.automation_state`; messages on the *apply* queue | sweep, Apply, Apply top N, requeue after verification; submit with retry; pause, resume, stop; hand-set status; cover letters | billing (gate, meter), tailoring, adapters, purge | no submission shown or charged without evidence; none twice; none after stop; no row stuck in queued; cap and quota |
| Tailoring: `workers/tasks/tailoring.py` | the row's résumé reference | one task chained before the submission | apply engine | does not undo what others wrote |
| ATS adapters: `services/ats/*` | none of their own; managed credentials | log in or register, fill, submit, confirm | apply engine, managed accounts | park rather than guess; "submitted" only on a confirmation page |
| Billing: `services/billing.py`, `models/billing.py`, `routes/billing.py` | `Subscription` (plan, status, window, counters, Stripe id), `StripeEvent` | provision, check, increment, reset a period, webhooks, checkout, portal | apply engine, interviews, registration, account deletion, Stripe | agrees with Stripe; each use counted; no tier nobody bought |
| Sweeps and job cache: `workers/tasks/scheduler.py`, `workers/tasks/sourcing.py`, `services/job_cache.py`, the search handlers of `routes/jobs.py` | Redis markers "in flight", "fetched", "unapplicable", `match:active` | dispatch per user, guard, search on demand with status and stop, purge | discovery, matching, apply engine | one sweep task per user and kind; markers name what runs; what a search keeps offering is matched in the end |
| Discovery and connectors: `workers/tasks/discovery.py`, `services/connectors/*` | the shared `Job` pool and its retention TTL | fetch, normalise, upsert by fingerprint | matching | one document per posting |
| Matching: `services/matching.py` | new matched rows | score, diversify, insert | pool, profile | caps per company, no job twice, threshold |
| Site credentials and the key rotation script: `core/security.py`, `routes/onboarding.py`, `routes/credentials.py`, `scripts/rotate_credential_key.py` | `SiteCredential.encrypted_password`; the current key and the retired ones in the environment of each process | store, delete, reveal; re-wrap, report | two-factor secrets, which are under the same key; adapters | a secret stays readable through a rotation; the report is true |
| Managed accounts and inbound mail: `services/apply_email.py`, `routes/inbound.py` | `SiteCredential.status`, `InboundEmail.processed`, the alias | ingest a mail, vet its link, follow it, requeue | adapters, apply engine | a link is followed only for the site it belongs to; parked rows resume |
| Authentication: `services/auth_service.py`, `routes/auth.py`, `api/deps.py`, `core/security.py` | `RefreshSession`, verification and reset tokens, `token_version` | register, verify, log in, rotate, log out everywhere, reset | billing, e-mail | a token is used once; a revoked session ends; reuse revokes the family |
| Two-factor: `services/twofa.py` | secret, backup codes | set up, enable, verify, disable | authentication | a backup code works once |
| OAuth: `services/oauth_service.py`, `routes/oauth.py` | the provider link of a user | redirect, callback | authentication | one account per identity |
| Rate limiter: `core/ratelimit.py` | a counter with an expiry per subject | count, refuse | every route | at most N per window |
| Interviews: `routes/interviews.py` | `InterviewSession` (questions, answers, status) | create, answer, complete | billing, AI router | metered once; no answer lost |
| CV parsing and profile: `workers/tasks/cv_parsing.py`, `routes/onboarding.py` | `ResumeDocument.status`, `Profile` | upload, parse with retry, merge | AI router, storage | never overwrites what the user typed |
| Account: `routes/account.py` | everything of one user | delete, export | all | nothing is left behind |
| AI router, storage, résumé rendering, e-mail, geo, configuration, logging, frontend | none, or files | calls, rendering | | not modelled, see PROJECT.json |

The hard behaviours are the interleavings of HTTP handlers and tasks over one
document, whole-document saves of stale copies, redelivery after a crash, the two
steps "save the row, then publish the task", and Stripe's unordered, repeated
events.  PROJECT.json lists each under "hazards" at its line.

## 2. Plan

Written, in this order:

1. `ApplicationLedger`: the abstract promise of the engine about evidence and money.
2. `ApplyEngine` with `MCApplyEngine`; it implements `ApplicationLedger`.
3. `ApplyEngineProofs`.
4. `Billing` with `MCBilling`.
5. `Sessions` with `MCSessions`.
6. `CredentialKeys` with `MCCredentialKeys`.
7. `CredentialKeysProofs`.
8. `Matching`: the pure algorithms, with a declarative account of what a selection owes
   its ranking (`FairSelection`).
9. `Sourcing` with `MCSourcing`, which EXTENDS `Matching`: pool, sweeps, button, tasks.
10. `Onboarding` with `MCOnboarding`: profile, CVs, parse.
11. `Interviews` with `MCInterviews`, composed with `Billing`, whose handlers it uses.
12. `AtsRun` with `MCAtsRun`: what `ApplyEngine` takes as one action, `Adapter`, step by
    step, with the sign-in and the managed account.

13. `BillingProofs`, `AtsRunProofs`, `OnboardingProofs`, `InterviewsProofs` (on
    `BillingProofs`), `SessionsProofs` and `SourcingProofs`; in `ApplyEngineProofs` also what
    holds of restricted instances (`QueuedHasWork`, `SweepRespectsCap`, `AtMostOnce`,
    `SubmittedSticks`): section 12.
14. In `BillingProofs`: `InSync`, for events that are delivered one after the other.
15. In `SourcingProofs`: the algorithms of `Matching` for any pool (`FairShare`), and what the
    pool, the rows and the runs hold (`SourcingTypeOK`, `HardFilter`, `RolesBounded`).

Each component has one module, an `MC` module that adds the instance's data and its
symmetry set, and `.cfg` files; proofs are in a module of their own.  No module declares
a RECURSIVE operator.  A property that holds only while something does not happen is
checked on behaviours without it, and section 13 says what happens otherwise.

## 3. The apply engine

`ApplyEngine` is the engine of one user.

| Variable | Code |
|---|---|
| `row[r]` | `JobApplication.status` (with `needs_action` for "awaiting"); "none" before matching, "purged" after deletion |
| `reaped` | rows whose `Job` the TTL index removed |
| `automation` | `User.automation_state` |
| `used` | `Subscription.applications_used` |
| `feeder[f]` | a running `apply_now`, `apply_batch`, `_enqueue_async` or `_verify_managed_async`: where it is, the budget it counted, the rows it read, the row saved and not yet published |
| `task[t]` | a `submit_application` message or its run: step, retries, outcome in hand, the row a tailoring task read |
| `stopping`, `edit`, `purging` | the rows `set_automation` has still to cancel; the document a letter edit read; the ids the purge aggregated |
| `sent`, `received`, `charged` | the world outside: forms submitted, confirmations shown, increments made, per row |
| `beside[f]` | history: rows that became queued by somebody else since sweep `f` counted |
| `events` | environment events so far; `MaxEvents` bounds it |

One action is one database or broker round trip.  The feeders:
`ApplyNow`; `ApplyBatch`, `BatchBreak`; `SweepCount`, `SweepEligible`, `SweepPick`;
`Verified`, `VerifiedPick`; then all four loop over `QueueRow` (save as QUEUED) and
`Publish` (`apply_async`), or fail in `PublishFails` and `FeederDies`.  The task:
`TailorRead`, `TailorSave` / `TailorSkip` / `TailorRaises` / `TailorLost`; `Start` (read the row),
`Gate` (quota, job, adapter), `Adapter` (the browser run), `Record` (the save),
`Meter` (the `$inc`); `TaskRaises` (the retry), `TaskFails` (no retry left), `TaskKilled`
(the hard time limit), `WorkerLost`.  The
others: `Match`, `ReapJob`, `PurgeScan`, `PurgeDelete`, `SetStatus`, `EditRead`,
`EditSave`, `SetRunning`, `StopScan`, `StopCancel`, `StopFinish`.

Abstractions.  INTERVIEW, OFFER and REJECTED are one status, since no code of the
engine tells them apart.  All rows are of one site for `VerifiedPick`, whose
credential is taken as pending until then.  Scores are left out: a query
sorted by score and limited to n returns any n of its candidates (`Best`).  A row that
was purged is not matched again.  A window of the plan does not end within a
behaviour: the end of a window belongs to `Billing`.

A run ends early in three ways.  An exception is retried once.  When the retry raises too,
`self.retry(exc=exc)` raises `exc` again, so the clause that waits for
`MaxRetriesExceededError` (apply.py:107) is never entered, `_mark_failed` is dead code and
no row becomes FAILED: `TaskFails` drops the task and leaves the row as it is.  The hard
time limit (celery_app.py:41) kills the child and acknowledges the message: `TaskKilled`
does the same.  A worker that is lost has its message redelivered: `WorkerLost`.
`tailor_for_application` has the same clause; with it the chain ends and no submission
follows.  `apply_all_faults` has all of this; `apply_no_loss` leaves out what strands a row,
and section 13 says what that is.

`SweepRespectsCap` is what the code keeps of MAX_CONCURRENT_PER_USER.  The sweep counts what
is in flight once and queues one row after the other, and nobody else looks at the cap, so
the bound is on the rows in flight less those that others queued since it counted.

`ApplicationLedger` has three actions that matter: an employer confirms an
application, the dashboard claims one that was confirmed, the plan is charged one that
was confirmed and is not charged yet.  `ApplyEngine` implements it with
`claimed = {r : row[r] = "submitted"}`.

Fairness (`FairSpec`): a handler or task that has begun goes on, and a message on the
broker is taken by a worker in the end (Celery's workers poll for ever, and
`start-worker.sh` restarts the group when one dies).  Nothing is assumed of users, of
sweeps, or of faults, and the number of faults in a behaviour is finite.

## 4. Billing

`Billing` is the subscription documents of one tenant.

| Variable | Code |
|---|---|
| `docs`, `born`, `stored` | `Subscription` documents by age; how many were inserted; which are in the collection |
| `erased` | `delete_my_account` has run |
| `stripe[s]` | the subscription as Stripe has it: plan, the `plan_code` in its metadata, status, start of its period |
| `emitted`, `wire` | the events Stripe produced; those without a 2xx answer |
| `recorded` | `StripeEvent` ids |
| `handler[h]` | a request, task or webhook in progress: its step and the document it holds |
| `now`, `fresh` | the current period; uses metered for requests of this period |

Requests are `ensure` (registration, checkout), `check` (`can_apply`,
`can_interview`, `resolve_entitlement`: all go through `_resolved`) and `use`
(`_increment`).  They run `Lookup`, `Ensure`, `Provision`, then `Save` (a check that
rolled the window forward) or `Increment` (one `$inc`, or one `$set` when the window
had elapsed at the time of the read).  A webhook is `Deliver`, `RecordEvent` (insert the
id, or answer a duplicate), `Find`, and then `Save`, or `Adopt`, `SavePlan` and `Save`.
`HandlerDies` may end any of them between two steps.  Stripe is `Buy` (two events, in
either order, of one or of two subscriptions), `Renew`, `Unpaid`, `Cancel`;
`Tick` starts a period and `Erase` deletes the account.

Time is counted in billing periods, so a window that ends at n has elapsed once
`now >= n`, and the difference between Stripe's month and the local 30 days is not
modelled.  Statuses that no code tells apart are one: past_due is "active", canceled
exists only in Stripe because a deletion moves the document to the free plan.  A free
plan is always seeded.

Fairness: a handler that has begun goes on, and Stripe delivers an event until it is
answered.  `InOrder` restricts an instance to events that are delivered one after the
other; Stripe does not promise it, and the runs that check it say what the code needs.

`DocumentsBounded` is what the code keeps of one subscription per tenant.  Nothing in the
database enforces it (`tenant_id` has no unique index, billing.py:78-83), so first requests
that overlap each insert a document, but no later one does: there are never more than
requests served at a time.

All but `PaidGetsPlan` are proved (section 12).

## 5. Sessions

`Sessions` is one account and the requests it makes, from all of its devices.

| Variable | Code |
|---|---|
| `user` | the `User` document: `token_version`, verified, linked to Google, two-factor state, backup codes |
| `session[j]`, `born` | `RefreshSession` rows by the order their tokens were minted; `version` is the `ver` claim of the token |
| `link[l]`, `mailed` | `EmailVerificationToken` rows |
| `minted` | backup codes generated so far; codes are numbered, and a set-up makes `CodesPerSetup` new ones |
| `client` | the tokens, the challenge and the links the person holds |
| `req[r]` | a request: its operation, the round trips it still has to make (`todo`), the user as it read it |
| `changes`, `given`, `reused`, `accepted` | history: changes of password saved, pairs handed out per token, tokens refused as reused, uses per backup code |

`Script` gives for each operation its database round trips in the order of the code:
a rotation is `session`, `user`, `issue`, `retire`, because `rotate_refresh_token`
inserts the successor before it saves the old row.  `Begin` starts a request with
something the person holds, each other action is one round trip of any operation that
comes to it, and an early return drops the rest.  `ReadUser` holds every check of the
document (`Admitted`) and leaves out what the code then does not do (`Skipped`): no
save for an account that is already linked, no code spent when the authenticator's code
was right; `AfterUser` is what remains, and of a link for a verified account that is its
use alone.  `settings` stands for every handler that changes one
field of the user and saves the whole: preferences, onboarding steps, the automation
switch.

A request may be lost between any two round trips (`LoseRequest`), the answer may be
lost after the last (`Answer`), and tokens and links expire.  `epoch` is history: the
number of password changes saved when the request that issued a token read the user.
No handler ever clears `is_active`, so it is left out, and password, cooldown and rate
limit checks are taken as passed.  `/auth/token`, the form behind the API's own
documentation page, issues tokens without asking for a second factor, as the code does.

`sessions_alongside` checks what survives concurrency, with one change of password and
without other saves of the user: the two versions (`ver` and `token_version`) catch the
rotation or login that inserts its session after `revoke_all_sessions` ran.
`sessions_one_by_one` has all operations, one at a time, and says what single use
means there.  That a link is used once is not stated: one at a time it holds by the
check alone, and two requests with one link both pass that check.  `Ancestry` of a token
is the least set of tokens that holds it and the parent of each of its tokens.

All seven properties are proved (section 12), those of the first run for one request at a
time, those of the second also for one change beside any number of requests.

## 6. The credential key

`CredentialKeys` is the key that encrypts secrets at rest, through its rotations.

| Variable | Code |
|---|---|
| `secret[x]` | `SiteCredential.encrypted_password` of a site, or `User.totp_secret_enc` of a user: stored or not, v1 or v2, and the key it is under |
| `env` | `CREDENTIAL_ENCRYPTION_KEY` and `CREDENTIAL_ENCRYPTION_KEYS_OLD` in `.env` |
| `conf[p]` | the settings a process read when it started |
| `script` | a run of `rotate_credential_key.py`: its settings, the documents it fetched, those still to do, and whether all that were stale got re-wrapped |
| `req[p]` | an `add_credential` request between its look-up and its save |
| `reported` | a run since the last new key found or left nothing stale |

Keys are numbered as they are minted; key 0 is one dropped before the behaviour begins,
so rows that nothing opens exist from the start, and so do v1 rows.  `StoreRead` and
`StoreWrite` are `add_credential` (a save upserts, an insert that finds the site taken
stores nothing); `SetUpTotp` is `begin_setup`; `Delete` is `delete_credential` or
`disable`.  `Fetch`, `Rewrap`, `Report` and `ScriptLost` are the script, dry or with
`--apply`; the rows are fetched together, as one cursor batch is, and saved one by one.
`NewKey`, `Restart` and `DropOldKeys` are the operator of docs/compliance.md:66-78: a new
key with the previous one retired, all processes restarted before the script runs, the
retired keys dropped after it reported.  Requests go on all the while.

The model records the key of a secret, not the password.  The script's save of a document
it fetched before is therefore `Rewrap` like any other; that it also puts back the old
password of a credential stored in between, or a credential deleted in between, follows
from the same action and is not a property here.  While processes are being restarted
one that still has the old settings cannot read what a restarted one wrote.

## 7. Matching and sourcing

`Matching` is `services/matching.py` as operators over records.  A title is its words and
the words of its bracketed qualifier, a company its comparison key and its legal suffix,
a location the countries and places it names.  What the heuristics compare is kept, how
they cut strings is not.  `Scanned` is the two scans of the pool, `Candidates` what is
left after the gates and without the postings and roles the user has, `Scored` and
`Ranked` the loop with its role dedupe, sort and threshold, `diversify` the selection
under the cap per employer, doubled when the strict pick is short.  Two names of one
company differ for the cap and the role and are one for the exclusion, as in the code.
`FairSelection` says what a selection owes its ranking without saying how it is made: no
role twice, no employer above the cap, and whatever is left out loses to at least as good
an entry of its role, of its employer at the cap, or of a full list.  A full list has one
entry for a limit of 0, since `pass_with` looks at the limit after it has picked.

Sorts, comprehensions and loops that skip are `InOrder` and `Picked` (`Filtered`): the places
of a list in the order that the number of places before each gives, and the elements at a set
of places.  They say what the code's sort and loops yield in a form lemmas can be stated about.

`Sourcing` is how postings become rows.

| Variable | Code |
|---|---|
| `listed` | what the boards carry now (the outside) |
| `pool` | `Job` documents, newest first |
| `cached` | `fetch:` keys of `mark_fetched` |
| `reaped[p]` | history: documents of the posting that the retention removed |
| `rows[u]` | the `job_id` of each of the user's rows: a posting and which of its documents |
| `marker[k]` | `sweep:{kind}:{user}` keys |
| `sweeper[k]` | a run of `run_all_sources` or `match_all_users` |
| `button[u]`, `request[h]` | the `match:active` key; a request, status or cancel handler |
| `task[t]` | a `source_for_user` or `match_for_user` message or its run: plan, results, postings to insert |
| `excluded`, `eligible` | the exclusions of a profile; whom a sweep visits |

A run is `Begin` (profile, plan and the concurrent fetch), `Ingest` per plan entry,
`Rank` (rows, pool and exclusions as they are then: `match_jobs_for_user` reads the profile
again, and `barred` is what the run last read), `InsertRow` per posting, `ClearSweep`.
`TaskError` ends in the finally clause; `TaskKilled` does not, and the message is gone;
`WorkerCrash` brings the message back.  The sweeps are `StartSweep`, `CheckUser` (look at
the marker and set it), `Publish`, `PublishFails`; the button is `request_matching`,
`PublishSearch`, `set_match_state`, `matching_status`, `Probe`, `cancel_matching`,
`Revoke`, `clear_match_state`.  `Reap` is the TTL index: the `Job` goes, and the rows that
name it stay with their snapshot (models/job.py:97-105).  A posting seen again is a new
document with a new id, and `match_jobs_for_user` looks at the jobs of the user's rows by id
(`Live`), so neither the posting nor its role counts as had any more.

Abstractions.  Check and mark are one action: only this sweep sets a marker of its kind,
so what others do in between, a removal, comes to the same before or after.  Profile,
plan and fetch are one action: nothing is written until `Ingest`.  A posting already in
the pool keeps its place, since `upsert_job` refreshes its `updated_at` and the scan
sorts by `created_at`; `Reap` may take any posting, so the refresh itself is left out.
Thresholds and caps are settings, so they are constants here, and small in the instance.

Fairness: handlers and sweeps go on, every TTL runs out, beat fires for ever, and every
message comes to an end (`MessagesEnd`: `[]<>At(t, "done")`).  The last is a conjunct
rather than weak fairness of the task's steps (and so, for its cost, is that of
`ExpireFetch`): the queue is FIFO, a task waits only for a
worker, and a run has a hard time limit (`celery_app.py:41`), so it ends whether it
finishes, fails or is killed.  Nothing is assumed of users, boards and faults, whose
number in a behaviour is finite.

`MarkersTrue` is what the markers are for: one sweep task of a kind and user, and a stop
button that points at the search under way.  It leaves out, in the formula, what the code
does not keep (section 13).  `RolesBounded` counts what the code gives of a role: one row
where only the sweep queues tasks, else one for each run that may be under way, and one more
for each document of the role that was removed.  Phrases within a title are a relation of
its own (`PhraseIn`: which titles contain which, words in order), as `role_relevant` compares
strings there and sets of words elsewhere.  `Reached` assumes of a role that every office of it scores
(`Worthy`), because the dedupe keeps the newest office before the threshold is looked at.

## 8. Onboarding and the CV

`Onboarding` is the profile of one user while CVs are uploaded and parsed.

| Variable | Code |
|---|---|
| `profile` | `Profile`: a value per field, `autofilled_fields` ("ours"), `resume_strategy` |
| `form` | the values the wizard loaded, sent back whole |
| `typed` | history: fields the user typed into and did not clear |
| `doc[d]`, `stored`, `bytes` | `ResumeDocument` rows by age; those in the database; those whose object is in the bucket |
| `handler[h]` | `update_profile`, `set_resume_strategy`, `upload_resume` or `build_resume` in progress, with the profile it read |
| `parse[d]` | the `parse_resume_document` message of a CV or its run: step, retries, the profile it is about to save |

An upload is `upload_resume`, `Upload` (the object), `Insert` (the row), `ListOld`, `DiscardOld` per old CV
(object, then row), `delay` or `DelayFails`.  The parse is `ReadDoc`, then `TextFails`,
`NoText` or `parse_cv` (with the model or with the regular expressions only),
`ReadProfile`, `SaveProfile`, `MarkDone`; an exception leads to `Raised`: a retry or, when
none is left, an end that writes nothing, since `_mark_failed` is never reached here either
(section 3).  `ParseKilled` is the hard time limit.  An object whose request is lost before the
insert has no row and no number: it stays in the bucket and nothing refers to it.  `apply_to_profile` is the merge: a
parse fills what is blank or ours, clears what is ours and no longer in the CV unless
only the baseline was read, and leaves what the user typed.

A field is nothing, what some CV says, or `Typed`.  Sending a page back is an edit of
every field whose value differs from the profile at that moment, whoever changed it; this
is why stale pages are a kind of behaviour of their own.  `TypedKept` and `CurrentCv` are
stated for saves, uploads and parses that do not cross (the formula names the behaviours),
`OursIsNotTyped` and `ParseResolves` for all of them but those named.

`OnboardingTypeOK`, `Provenance` and `CurrentCv` are proved (section 12).

Fairness: a request that was accepted goes on; a message or run of a parse goes on
strongly, because a worker that is lost again and again brings it back each time, and the
number of losses is finite.

## 9. Interviews

`Interviews` composes with `Billing`: a request of `routes/interviews.py` is served by a
handler of `Billing`, and its gate (`can_interview`) and its increment run as the steps
`Billing` gives them (`HandlerProgress`), interleaved with the tenant's other metered
requests (`Beside`).

| Variable | Code |
|---|---|
| `session[s]`, `there`, `made` | `InterviewSession` documents: status, answers, and the answers its score was computed from |
| `visit[h]` | the interview request of a handler: step, what the gate answered, the session it read |
| `lost` | history: sessions whose request was lost before the increment |

`create_interview`, `GateStep`, `Gated` (402, or the model, which may fail), `InsertSession`,
`Meter`, `MeterStep`, `Metered`.  An answer, a completion or a deletion reads the session
(`Visit`) and saves the whole of it after its call of the model (`SaveSession`,
`DeleteSession`).  An answer is its question and which attempt it was, so that two
attempts at one question can be told apart.  A behaviour is about metering, or about
sessions, one request of a session at a time ("alone") or freely ("overlap").

`InterviewsBounded` says how far the gate can be passed: the limit, plus the handlers
that were between gate and increment together, plus the sessions whose request was lost
after the insert.  A score is reduced to the answers it came from, so `SessionsWhole`
catches a completion shown with another save's answers.

All four properties of the run are proved (section 12).

## 10. A run of an adapter

`AtsRun` is what `ApplyEngine` takes as one action: `run_standard_flow` of the base
adapter, with the sign-in, the account made with the managed alias, and the verification
mail, for rows of one user on one site that are run at the same time.

| Variable | Code |
|---|---|
| `row[r]` | `JobApplication.status` with `needs_action` |
| `run[r]` | the task of the row: step, the credential and the user it read, result |
| `user`, `aliases` | the `User` document: the managed alias, and whether automation is on; aliases generated so far |
| `credential`, `made`, `dropped` | the `SiteCredential` of the site; credentials, and so passwords, are told apart by the number they were generated under; those deleted |
| `accounts`, `signups`, `accepted` | the site: its accounts, sign-up forms sent, forms it accepted |
| `mail`, `task` | aliases a verification mail was sent to; `verify_managed_account` |
| `opened` | credentials for which a link was opened without an error |

The sign-up is `Create` (read the user), `ensure_alias` (a first alias is saved with the whole
user as it was read), `Find`, `Insert` (under the unique index), `perform_registration`,
`Registered` or `DropCredential`.  The mail is `ingest` (dropped when no user has the alias),
`CheckPending`, `Visit`, `Activate` (a save of the credential read before the visit),
`ScanWaiting` (nothing while automation is paused or stopped, and only rows whose job is
there) and `Requeue`.  `AdapterError`, `WorkerLost` and `TaskFails` are the faults,
`apply_now`, `set_automation` and `delete_credential` what the user does meanwhile.

What a probe of the page sees is a choice, except that the site shows its form only to
whom it signed in or where it asks for no sign-in, makes one account of an address, and shows
a confirmation only for what it accepted.  The last is an assumption about employers' pages:
`confirm` looks for words such as "thank you for your interest", and a page that shows them
without having accepted a form is outside this model.  A link that loads without an error may
have confirmed the address or not: the code cannot tell, and says so (apply.py:405-407).

One mail is followed at a time.  Credentials the user stores for a site are in
`CredentialKeys` and not here.  The adapters that this repository ships and submits with,
Greenhouse, Lever and Ashby, have no sign-in; of the flow through it the base class has all,
but Workday, which has the selectors, parks before it opens a browser.  What the run says of
sign-ups is about the code of `base.py`, `apply_email.py` and `apply.py` that the first such
adapter would use.

`RunsTrue` has four parts: types; what is shown submitted was accepted; the password a sign-up
form was sent with is the stored one, or one that was deleted; a credential is active only
if a link was opened for it.  It does not say that an active credential is a confirmed one,
that a deleted one stays away or that rows that wait come back: they need not (section 13).

`RunsTrue` is proved (section 12).  The specification has no fairness.

## 11. Runs

`CHECK_DEADLOCK FALSE` throughout: with every environment event used up and all work
done, the modelled system rightly stands still.

| Run | Checks | Bounds, and why they are enough |
|---|---|---|
| `apply_all_faults` | `Evidence`, `OvershootBounded`, `IInv` (of which `TypeOK` is a conjunct), `SweepRespectsCap`, `ImplementsLedger` | 3 rows, 2 messages, 2 feeders, cap 2, tailoring on, every event kind, 5 events: enough for a batch over two rows, a lost run and a stale save over it, for two runs between gate and meter, and for an Apply before a sweep counts or while it queues. |
| `apply_no_loss` | `QueuedHasWork`, `QueuedResolves` | 1 row, 2 messages, 2 feeders, 6 events: two feeders of one row, a crash, a failing attempt. Without what strands a row: lost feeders, errors of a task's publish, exhausted retries, kills by the time limit, letter edits. |
| `apply_one_authority` | `AtMostOnce`, `SubmittedSticks` | 2 rows, 2 messages, 1 feeder, cap 1, 9 events: a batch over the cap followed by a sweep, a purge and a failing meter. Without failing runs, crashes after the click, stop, edits and hand-set statuses. |
| `billing_all_faults` | `BillingTypeOK`, `NeverGuessed`, `DocumentsBounded` | 2 handlers, 2 Stripe subscriptions, 2 tiers, room for 3 documents, any order, 4 events: provision, two purchases and a crash, a period or a deletion between any two steps; two first requests at a time, and a third that must find what they made. |
| `billing_in_order` | `InSync`, `PaidGetsPlan` | 1 handler, 2 subscriptions one after the other, 3 periods, 7 events: buy, renew, unpaid, cancel and buy again, or metered uses between them. |
| `sessions_one_by_one` | `SessionsTypeOK`, `RotatedOnce`, `ReuseEndsFamily`, `NewestLinkOnly`, `CodeOnce` | 1 request at a time, 4 tokens, 3 links, 2 changes, 6 events, every operation and fault, from a new, a verified and an enrolled account: a login, an interrupted rotation, its repetition and a reuse fit. |
| `sessions_alongside` | `ChangeSignsOut`, `StaysSignedOut` | 2 requests, 4 tokens, 1 change, 7 events: a login, and rotations, logouts and a crash around the change. |
| `keys_rotation` | `KeysTypeOK`, `ReportTrue`, `CredentialsOpen` | 2 sites, 1 user, 2 processes, 3 keys, 8 events, from every mix of v1, v2 and unreadable rows: a full rotation with a request or a deletion inside it, or a lost run and a second one. |
| `sourcing` | `SourcingTypeOK`, `RolesBounded`, `MarkersTrue`, `FairShare`, `HardFilter`, `Reached` | 1 user, 2 task ids that are used again, 2 workers, 1 handler, 8 postings of 3 employers (a role in three offices, an employer with two roles, a company under two names, a posting below the threshold, one no adapter submits, one that both sources list), 2 sources of which one lists more than the cap takes, 2 of the 17 kinds of event per behaviour in 10 combinations: two tasks of one user overlap, and every fault meets a sweep. The caps of 1 per employer and of 2 per run and the threshold bind; `MAX_JOBS_CONSIDERED` does not. Both terms of `RolesBounded` are needed: two runs give a role two rows, and so does a re-posting. |
| `onboarding` | `OnboardingTypeOK`, `Provenance`, `CurrentCv`, `ParseResolves` | 2 handlers, 2 CVs that differ in one field and of which one lacks the other, 3 uploads, 1 retry, 3 events in 9 combinations: a CV replaced during its parse, with an edit before or after. |
| `interviews` | `SessionsWhole`, `InterviewsBounded`, `UsesCounted`, `NothingLost` | 3 handlers, 4 sessions, 2 questions, limit 1, 3 requests about sessions, 5 billing events within one period: three requests pass the gate together, or an answer, another and a completion cross. |
| `ats` | `RunsTrue` | 2 rows, 2 events, and one mail followed at a time: both rows meet the alias, the look-up and the sign-up at the same time, and a fault, a retry, a pause or a deletion falls anywhere in it. |

No run expects a violation: what the code does not keep is in section 13, each entry with
the instance that shows it.

Every property of a passing run has a mutant: an operator beside the definition it
replaces, commented "Mutant", with the bug it stands for.

## 12. What is proved

`ApplyEngineProofs` proves, for any rows, tasks and feeders, any limits and any set of
events, of `Spec` and hence without any fairness:

- `TypeCorrect`: `TypeOK`;
- `Invariance`: the inductive invariant `IInv`;
- `EvidenceCorrect`: `Evidence`;
- `OvershootCorrect`: `OvershootBounded`;
- `LedgerImplemented`: `ImplementsLedger`;

and, of the instances where the code keeps them,

- `QueuedHasWorkAlways`: `QueuedHasWork`, where `NoLoss`: no letter edit, no process lost
  between a save and a publish, none killed by the time limit, no exception that ends a task;
- `AtMostOnceAlways` and `SubmittedSticksEver`: `AtMostOnce` and the action property
  `SubmittedSticks`, where `Alone`: one feeder at a time, no stop, edit or hand-set status, no
  exception of a run and no lost worker before the increment.

`SweepRespectsCapAlways`, `SweepRespectsCap`, is of `Spec` without a premise.

Assumed: `NoRow` is not a row, rows and tasks are finite sets, the slots are a positive
number and the limits natural numbers.

`Evidence` is not inductive, because a stale copy of a row may be written back long
after it was read.  `Proven` adds that every copy, in a letter edit or a tailoring task,
that says "submitted" is of a received application, and counts the runs that still owe
an increment: `charged[r] + Cardinality(Owed(r)) <= received[r]`.  `OvershootBounded`
rests on `SlotsHeld`: every run between the gate and the increment holds a slot of the
worker, and `used` plus their number stays below `PlanLimit + ApplySlots`; a run may
only enter while `used < PlanLimit`.  The proof has one lemma for each conjunct and
kind of step (typing, `Proven`, `SlotsHeld`), one case per action in each, and the
refinement follows from `IInv` step by step: `Adapter` is `Receive`, `Meter` is
`Charge`, a save is `Claim` or `Withdraw`, and the rest stutters.

The premises of the other three are those of the runs, or weaker: `AtMostOnceAlways` also
covers tailored resumes and lost feeders; section 13 shows for most of them what happens
otherwise.  `QueuedHasWork` is inductive with `TypeOK`.  `CapInv` counts, for each sweep, the
rows queued that nobody queued beside it since it counted (`Counted`), with those it has
reserved and not yet queued; whatever others do to `Counted` only takes rows from it.
`OnceInv` says that a row is in one pair of hands (`OneHolder`), what it says while
it is (`FeederSees`, `TasksSound`), that the purge can only have picked rows whose job is
gone, which never reach the adapter (`PurgeSound`), and that a received row says so unless
the run that knows it is about to (`Kept`).

`CredentialKeysProofs` proves, for any sites, users, processes, keys and events:

- `KeysTypeCorrect`: `KeysTypeOK`;
- `KeysInvariance`: the inductive invariant `KeysInv`;
- `ReportCorrect`: `ReportTrue`;
- `RotationLosesNothing`: `CredentialsOpen`.

Assumed: there is a site, and sites are not users.  `CredentialsOpen` is not inductive,
because dropping the old keys is safe only when the report was true, and the report is
made from what was fetched earlier.  `WritersCurrent` says that nothing is written under
a retired key from the fetch on (the restarts come before), `Fetched` that during a run a
credential is as fetched or under the current key, and `Passed` that those the run is
past are under the current key unless it missed one.  `Report` turns `Passed` into
`ReportTrue`, and `DropOldKeys` needs just that.

`BillingProofs` proves, for any handlers, subscriptions, plans and events, in any order of
delivery:

- `BillingTypes`: `BillingTypeOK`;
- `NeverGuessedAlways`: `NeverGuessed`;
- `DocumentsBoundedAlways`: `DocumentsBounded`, with finitely many handlers, at least one;
- `InSyncAlways`: `InSync`, with one handler, events delivered in their order, each naming
  its plan, one live subscription at a time and no crash.

A plan may be in a document, in the document a handler read, in an event, or in Stripe, and
a save of any of them may come last.  `BillingInv` therefore asks of every place that its
plan is free or was bought (`DocumentsBought`, `HandlersGood`, `EventsBought`,
`StripeSells`), and that a webhook handler is at an event Stripe sent.  `BornInv` counts,
with the documents made, the requests that found none and are about to make one; the first
insert makes the others' findings stale but no request joins them.  A tenant that was
deleted begins anew, so the property is asked until then.

`InSync` compares two things that are far apart, the document and what Stripe has, so its
invariant tells the story between them.  `Story` is Stripe's side: an event is about the
subscription of the one before, or about a new one if that was cancelled (`StoryFollows`);
it names the plan its subscription was sold with (`StoryNames`); and the last event is what
Stripe has (`StoryTold`).  `Followed(i)` is ours: what waits is event `i + 1` and those
after it, and the document shows event `i` (`Shows`), unless a webhook is between its two
saves.  `HandlerFollows` says that a webhook is at event `i + 1`, that only it and answered
events are recorded (else the redelivery of an unanswered one would be taken for a
duplicate), and that the copy it will save shows that event.  The copy has the plan only
because an update that finds its document by Stripe id finds one that already has the
plan, which is what `StoryNames` and `Shows` say together (`EventFits`); and a cancellation
always finds its document, because the event before it was about the same subscription.
Every premise is needed: section 13 has a counterexample for each.  A deletion of the
account is allowed, since the invariant is only asked of accounts that are not deleted.

`InterviewsProofs` extends `BillingProofs` and proves, for any number of handlers (finite and
not zero), sessions, questions and visits, and any limit:

- `SessionsWholeAlways`: `SessionsWhole`, in every regime;
- `NothingLostEver`: the action property `NothingLost`;
- `InterviewsBoundedAlways` and `UsesCountedAlways`: `InterviewsBounded` and `UsesCounted`
  as long as the tenant has one document (`born <= 1`).

The premise is what the run's `MaxDocs = 1` says: of two documents the newer has no uses,
which is the entry on documents of section 13 again.  `SessionsWhole` needs of every
copy a request holds what it says of the session (`Whole`), since any of them may be saved;
`NothingLost` needs that a copy of a request alone is the session as it is (`OneAtATime`).
The bound is a count: `made` is what was lost, plus the uses on the document, plus the
requests between insert and increment (`Pending`), and the uses plus all requests that
passed the gate (`Passed`) are at most the limit plus the handlers but one.  That in turn
needs that the gate reads the document as it is, so `MeterInv` has `BillingInv` as a
conjunct and says of every handler which use it is metering.

`AtsRunProofs` proves `RunsTrue` (`AtsRunCorrect`) for any rows, retries and events.
`ResultsTrue` carries the confirmation from the page to the save of the row;
`HeldCredentials` says that a run past its insert holds the stored credential or one that was
deleted, and that the task, past its visit, is about a credential whose link was opened.

`SourcingProofs` proves, for any users, tasks, requests, profiles, boards and settings:

- `MarkersTrueAlways`: `MarkersTrue`, with finitely many requests;
- `SourcingTypes`: `SourcingTypeOK`;
- `FairShareAlways`: the action property `FairShare`;
- `HardFilterAlways`: the action property `HardFilter`;
- `RolesBoundedAlways`: `RolesBounded`, with finitely many tasks.

Assumed: `NoTask` is not a task; a worker runs at least one task; titles, skills and the
acronym table are finite sets, a person's search, a board and the sources are lists, and every
source has a board (`SourcingWords`, `SourcingPeople`, `SourcingBoards`); `Unit` and the
settings of `Matching` natural numbers, the cap per company not 0 and the threshold at most
`Unit` (`MatchingBounds`).

What a run found or is going to insert does not matter to the markers, so the invariant
`MarkersInv` types only who runs what for whom (`Shape`) and who queued it (`OriginsTrue`).
`SweepInv` says that where only the sweep queues tasks of a kind and no marker runs out early,
the one task of a user, and the one about to be published, have a marker.  `SearchInv` is about
the button with one request at a time: each search is the one its user's button names, or the
one the request has published and is about to name; `Sees` is what a request knows at each of
its steps.

`DataInv` is about the data: the pool has each posting once and every row is of a document
that is in the pool or was removed
(`Stocked`), markers and sweeps are of users (`Settled`), and what a run is about to insert
(`Chosen`) are such documents too, no two of a role and none of a company that was barred
when it ranked.  The last two are not kept by the insert but made by the selection, long
before, so they rest on what the algorithms give for every pool and profile: `Filtered` and
`InOrder` are bijections onto the places they come from, so the candidates are within the
scans and pass the gates, the scored have one entry of a role, the ranking is sorted, and
`diversify` takes the entries within the cap up to the limit (`PassTakes`) and so a fair
selection (`FairUnder`).  `FairShare` is that result at each `Rank`, and `HardFilter` is
`Chosen` at each insert.  `RolesBounded` counts, for a user and a role, the rows whose document is there
plus the runs that hold a posting of it: at most one where only one sweep queues tasks, which
`SweepInv` gives, else `Workers`.  `Rank` adds a run to the count only if no such row has the
role, `InsertRow` turns a run into a row, `Reap` turns a row into one that is counted with the
removed documents, and every other step drops one or the other (`Shrinking`).

`OnboardingProofs` proves, for any fields, CVs (at least one), requests and documents, of a
module that assumes that what a user types can be told from what a CV says
(`OnboardingValues`):

- `OnboardingTypes`: `OnboardingTypeOK`;
- `ProvenanceAlways`: `Provenance`;
- `CurrentCvAlways`: `CurrentCv`.

Handlers and parses save whole profiles, so `Honest` (what is recorded as autofilled is not
typed) is asked of the profile and of every copy in every regime.  `TypedInv` adds that,
where saves do not cross, there is one saver (`OneSaver`) and what it is going to save holds
what was typed.  `AloneInv` says that, where uploads do not cross, a request that stored an
object and has yet to insert its row is the only one at work on CVs.  For `FollowsNewest` the invariant `FollowInv` says that only the parse of
the newest CV runs, that every field not typed is blank or ours, so the merge clears it when
the new CV is silent, and that from the save on the profile says what that CV says.

`SessionsProofs` proves, for finitely many requests and any tokens, links, codes, changes
and events:

- `SessionsTypes`: `SessionsTypeOK`;
- `ChangeSignsOutAlways`, `StaysSignedOutEver`: `ChangeSignsOut` and the action property
  `StaysSignedOut`, with `OneByOne` or `OneChange`;
- `NewestLinkAlways`, `CodeOnceAlways`, `RotatedOnceAlways`, `ReuseEndsFamilyAlways`:
  `NewestLinkOnly`, `CodeOnce`, `RotatedOnce` and `ReuseEndsFamily`, with `OneByOne`.

`OneByOne` is one request at a time, `OneChange` any number of requests of which one changes
the password and no other saves the user: the conditions of the two runs, and section 13
shows that the properties fail without them.  `Shape` follows a request through its handler:
`Stages` are the ways a script may be cut, and `Placed` and `Holding` say what a request
at each of them is of and holds; it also counts the changes begun and not saved (`Pending`),
so that `changes <= begun` is kept.  `VersionInv` makes `ChangeSignsOut` inductive: the
version of the user is the number of changes, a copy has the version of its epoch, a copy
that is going to be saved is of now, and every token has its version for epoch.  `LinksInv`
says that between retiring links and mailing a new one none of its purpose is unused,
`CodesInv` that a code that was accepted is in no document or copy, `RotatesInv` that a token
that was exchanged is revoked.  `ReuseEndsFamily` is about chains of any length, which no
induction is available for; instead `FamilyInv` says that there is a set of tokens, apart
from the reused ones and closed under parents, that has every live token and the one that is
being rotated.  The ancestry of a live token is the least closed set and so within it.

Only model-checked:

- all liveness (`QueuedResolves`, `PaidGetsPlan`, `Reached`, `ParseResolves`):
  fairness and ENABLED are out of the prover's reach;

Every invariant and action property that a run checks is also stated by a theorem.  Recursive
data did not stand in the way: the lists of `Matching` and `Sourcing` are defined by what is at
each place, and the chains of `Sessions` by closed sets.

Proof attempts found three flaws of the models, which are mended: `FairSelection` was false for
a limit of 0, which the runs do not try; `HardFilter` spoke of exclusions known when a run
began, and held only because a behaviour of the run has no more than two events; and `upsert`
put a posting that a source lists twice into the pool twice.

## 13. What the code does not keep

The models show more than the runs do.  Each entry is a property of some module on a small
instance that has no run of its own; TLC finds the violation when the instance is given.

| Property | Instance (event kinds; the rest as in the runs above) | What happens |
|---|---|---|
| `AtMostOnce` | 1 row, 1 message; match, apply_now, run, crash after the click | the message of the lost worker comes back and the form goes out twice (apply.py:136: "a retried task must never double-submit") |
| `StopMeansStop` | 1 row, 1 message; match, sweep, stop, run | the message of a cancelled row still starts a run (jobs.py:782: "nothing goes out after the user said stop") |
| `PaidGetsPlan` | 1 handler, in order; ensure, buy, crash | the event id is inserted before the event is processed, so the redelivery of a lost one is answered as a duplicate |
| `QuietMeansCharged` | 1 row; match, apply_now, run, a failing meter | the retry finds the row submitted and returns, so the submission is never charged |
| `AtMostOnce` | 1 row, 2 messages, 1 feeder; match, sweep, run, stop | stop leaves the message of the row on the broker; after a resume the row is queued again, and both messages pass the check before either is recorded |
| `QueuedResolves` | 1 row; match, sweep, process_crash | a sweep lost between the save and the publish leaves the row queued for ever |
| `NeverOverLimit` | 2 rows, 2 messages, limit 1; match, apply_batch | a batch re-reads a counter that only finished runs move |
| `AttemptedRowsKept` | 1 row, limit 1; match, reap, purge, apply_now, stop, apply_crash | a row that is matched again after an attempt is purged with its history |
| `InSync` | not in order; ensure, buy, tick, renew | the older update, applied last, wins |
| `InSync` | in order; ensure, buy, buy_second, cancel | one document cannot follow two live subscriptions |
| `InSync` | in order; ensure, buy_unmarked | a checkout whose plan code no longer resolves is answered and dropped, and the tenant keeps the free plan |
| `InSync` | in order; ensure, buy, crash | the event of a lost webhook was recorded, so its redelivery is answered as a duplicate |
| `InSync` | 2 handlers; ensure, check, buy, tick | a check that rolls the window saves the document it read before the webhook |
| `born <= 1`: one document per tenant | 2 handlers; ensure | two first requests both find none and both insert, as `tenant_id` has no unique index (billing.py:78-83); `DocumentsBounded` is what remains |
| `UsesCounted` | 2 handlers; ensure, use, tick | both write the new window with a count of one |
| `UsesCounted` | 1 handler, 3 periods; ensure, check, use, tick | a window that lies two periods back is moved on by one at each read, and each read zeroes the counters |
| `ChangeSignsOut` | 2 requests, 2 changes; login, change | both changes read version n and save n + 1, and the pair of the first outlives the second |
| `RotatedOnce`, `ReuseEndsFamily` | 2 requests; login, refresh | two rotations both read the token as live and both get a pair; one that is on its way when reuse is found inserts its session after all were revoked |
| `NewestLinkOnly` | 2 requests; forgot | both retire the old links before either inserts its own |
| `CodeOnce` | 2 requests; login, verify_code | both find the code in the list they read |
| `ErasedForGood` | ensure, buy, erase | the next event stores a document of the deleted tenant |
| `QueuedResolves` | 1 row; match, apply_now, run, task_error, retry_error | two failing attempts end in the exception Celery re-raises, not in the one the clause of apply.py:107 waits for, and the row stays queued (apply.py:108: "Do not leave the row stuck in QUEUED forever") |
| `QueuedResolves` | 1 row; match, apply_now, run, hard_kill | the hard time limit kills the run and its message is acknowledged (celery_app.py:41): the row stays queued with no task |
| `CapKept` | 3 rows, 2 feeders, cap 2; match, apply_batch (or sweep, apply_now) | Apply and Apply top N do not count what is in flight, and what they queue beside a sweep is not in its budget (apply.py:305; docs/compliance.md:118: "at most two applications concurrently per user") |
| `Cardinality(RowsOf(u, role)) <= 1` | reap; source | the `Job` of a row goes by its TTL, the posting comes back as a new document, and the role gets a second row and is applied to again (matching.py:588-595, models/job.py:97-105; docs/compliance.md:118-119: "never twice to the same fingerprinted role", models/job.py:20: "Same fingerprint => apply once") |
| `Cardinality(RowsOf(u, role)) <= 1` | source, match (or click, hook) | two runs of one user read the roles the user has before either inserts (matching.py:588-691), and each inserts another office |
| `ChangeSignsOut` | 2 requests; login, change, settings | a settings request that read the user before a password change saves it afterwards, with the old `token_version` and the old password (account.py:176) |
| `TotpOpens` | 1 site, 1 user, 2 keys; a rotation by the book | two-factor secrets are under the same key, the script re-wraps credentials only, and dropping the old key makes them unreadable (rotate_credential_key.py:40, twofa.py:57) |
| `OneSweepTask` without its premise | source, click | an on-demand run clears the marker of a scheduled one that is still queued (sourcing.py:255), and the next sweep stacks a task |
| `StopFindsSearch` without its premise | 2 handlers, or api_crash | two clicks both find no marker; a status poll that probed an old task clears the marker of a new one; a crash after the publish leaves a search without marker |
| `Reached` with `Worthy` asked of the posting alone | a threshold of 9600, which the newest office misses | the role counts as seen before its score is known (matching.py:629), and the office that scores is never looked at |
| `TypedKept` without its premise | upload, edit, overlap | a save of the profile that was read before another one's undoes it |
| `FollowsNewest` without its premise | upload, edit, stale | a page loaded before the parse of the new CV sends back what the old one said, and that counts as an answer from then on (onboarding.py:154) |
| `NewestKept` without its premise | upload, overlap | two uploads list the CVs after both inserted, and each discards the other's (onboarding.py:262) |
| `FollowsNewest` without its premise | upload, early | the parse of the CV that was replaced saves the profile last, and its `doc.save()` inserts the discarded row again (cv_parsing.py:185) |
| `ParseResolves` without its premise | upload, parse_error; or hard_kill; or api_crash; or storage_error | the last retry re-raises the exception it was handed, so `_mark_failed` never runs (cv_parsing.py:104-105: "so the UI stops waiting on a status that would otherwise stay "pending" forever"); the hard time limit acknowledges the message and writes nothing; a handler that is lost, or meets a storage error, after the insert leaves a CV pending that nothing was queued for |
| `NothingLost` in regime "overlap" | 2 requests of one session | the later save writes back the session as it was before the other answer, undoes a completion, or inserts a deleted session again (interviews.py:258-308) |
| an active credential has a confirmed account | 1 row | a link that expired, or a page that asks for one more click, loads without an error and the credential becomes active (apply.py:396-410; the comment at 405-407 says as far as we can tell) |
| a row that waits is queued again | 2 rows | the mail is followed once, and rows are looked for once (apply.py:414-427): one that is parked after that waits for ever, contrary to apply.py:367-372 ("every application parked on this site is re-queued") |
| a row that waits is queued again | 1 row; the user pauses | a mail that is processed while automation is paused or stopped activates the credential and returns (apply.py:415-420); nothing looks for the row after the user resumes |
| mail to an alias finds its user | 2 rows, a user without alias | both runs read the user and save an alias of their own (apply_email.py:61-70); the mail to the one overwritten is dropped (136-139), and an account made with it stays unconfirmed |
| the credential activated is the one the mail is about | 2 rows; an error after the click, a deletion | `ingest` takes whichever credential of the site is pending by then (apply_email.py:161-165): a mail about an earlier sign-up activates a later one |
| a deleted credential stays deleted | 1 row; a deletion during the visit | `Activate` saves the whole credential it read before the visit, which inserts it again (apply.py:410) |
| one sign-up per site | 1 row; a challenge after the click, a retry | the credential of an account that exists is deleted (base.py:922-935), and the next run signs up again |

Not counterexamples of a property but read in the code on the way: a company excluded after
a row was matched is still applied to, since the engine does not look at exclusions; the
finally clause of `source_for_user` is commented as a no-op for on-demand runs
(sourcing.py:250-255) and is not; `docs/compliance.md:22-24` says there is no registration
code path, which `base.py:724` is.

## 14. Limits and what is not modelled

- Celery, MongoDB, Stripe, the clock and process crashes are modelled from how the
  code uses them.  In particular a save is atomic, an insert under a unique index is
  atomic, and a message is delivered at least once.
- The visibility timeout of the Redis broker (a message redelivered while its run
  still goes on) is not modelled; `WorkerLost` covers redelivery after a loss only.
- No adapter of this repository both submits and signs up for accounts (Workday, the
  one with a sign-up form, only parks), so no row waits for an e-mail verification
  today.  `ApplyEngine` and `AtsRun` model the branch, since the code handles it.
- For the same reason `CredentialKeys` has no action for the save at apply.py:410, which
  writes back a whole credential read before a visit of up to 45 seconds: with managed
  credentials it could undo a re-wrap after the script reported.
- One user, one tenant: no property here is about two of them.  In `Sourcing` the other
  users are `OtherSearch`, which fills the shared pool and cache.
- Redis is taken as reachable in `Sourcing`.  The guards of `job_cache.py` fail open when
  it is not: a sweep then stacks tasks and fetches again, which loses nothing.
- `is_unapplicable` is always false, since nothing calls `mark_unapplicable`.
- Not modelled: the refresh that keeps a known posting from expiring; normalisation and
  fingerprints (a posting is its own identity); parsing of countries, text extraction and
  the model's answers; selectors, field mapping and file uploads of the adapters; the
  upkeep sweeps of `scheduler.py`; the rate limiter, whose count and expiry are one atomic
  script; the AI router, storage, rendering, e-mail, configuration, logging, the database
  set-up and the frontend, which are calls or presentation without a protocol of their own.
- Components without a module, and the reason, are listed in PROJECT.json.
