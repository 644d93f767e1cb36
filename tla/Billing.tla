------------------------------ MODULE Billing ------------------------------
(***************************************************************************)
(* The subscription documents of one tenant (services/billing.py), the     *)
(* requests that read, reset and increment them, and the Stripe webhooks   *)
(* that rewrite them.  Stripe itself is the environment: it delivers each  *)
(* event until it is answered, possibly twice at a time and out of order.  *)
(*                                                                         *)
(* One action is one database round trip.  A save writes the whole         *)
(* document its handler read earlier; only the counters have an increment. *)
(* Time is counted in billing periods: now is the number of the current    *)
(* one, and a window that ends at n has elapsed once now >= n.             *)
(***************************************************************************)
EXTENDS Integers, Sequences, FiniteSets

CONSTANTS
    Handlers,          \* requests and tasks served at the same time
    Subs,              \* Stripe subscription ids
    PaidPlans,         \* plans a checkout can buy
    Free,              \* the plan of FREE_PLAN_CODE
    None,              \* no Stripe id, no resolvable plan
    InOrder,           \* Stripe delivers an event after the earlier ones were answered
    Happens,           \* kinds of environment event an instance allows
    MaxDocs, MaxNow, MaxEvents      \* bounds: documents, periods, environment events

EventKinds == {"ensure", "check", "use", "buy", "buy_unmarked", "buy_second", "renew",
               "unpaid", "cancel", "tick", "erase", "crash"}

ASSUME PlansAssumption == Free \notin PaidPlans /\ None \notin PaidPlans \cup Subs \cup {Free}
ASSUME BillingBounds == MaxDocs \in Nat \ {0} /\ MaxNow \in Nat /\ MaxEvents \in Nat
ASSUME BillingSwitches == InOrder \in BOOLEAN /\ Happens \subseteq EventKinds

VARIABLES
    docs, born,        \* docs[d]: Subscription documents, oldest first; how many were made
    stored, erased,    \* the documents in the database; the account was deleted
    stripe,            \* stripe[s]: the subscription as Stripe has it
    emitted,           \* the events Stripe has produced
    wire,              \* those it has no 2xx answer for yet
    recorded,          \* StripeEvent: the ids inserted by handle_webhook
    handler,           \* handler[h]: a request, task or webhook being served
    now,               \* the current period
    fresh,             \* fresh[f]: uses metered for requests of this period
    events             \* environment events so far

vars == <<docs, born, stored, erased, stripe, emitted, wire, recorded, handler, now, fresh, events>>
store == <<docs, born, stored>>

Docs == 1..MaxDocs
Fields == {"applications_used", "interviews_used"}
Unused == [f \in Fields |-> 0]
Plans == PaidPlans \cup {Free}
NoTime == -1
DocStatuses == {"trialing", "active", "unpaid"}
ACTIVE_STATUSES == {"trialing", "active"}        \* past_due counts as active

Subscription(plan, start, end) ==
    [plan |-> plan, status |-> "trialing", start |-> start, end |-> end,
     used |-> Unused, stripe |-> None]
Blank == Subscription(Free, NoTime, NoTime)
FreeWindow == Subscription(Free, now, now + 1)

Requests == {"ensure", "check", "use"}
HandlerPc == {"idle", "lookup", "ensure", "provision", "update", "record", "find",
              "adopt", "save_plan", "save"}
IdleHandler == [pc |-> "idle", kind |-> "ensure", field |-> "applications_used", ev |-> 0,
                doc |-> 1, copy |-> Blank, reset |-> FALSE, began |-> 0]

Init ==
    /\ docs = [d \in Docs |-> Blank]
    /\ born = 0
    /\ stored = {}
    /\ erased = FALSE
    /\ stripe = [s \in Subs |-> [plan |-> Free, meta |-> None, status |-> "none", start |-> 0]]
    /\ emitted = <<>>
    /\ wire = {}
    /\ recorded = {}
    /\ handler = [h \in Handlers |-> IdleHandler]
    /\ now = 0
    /\ fresh = Unused
    /\ events = 0

-----------------------------------------------------------------------------
Event(kind) ==
    /\ kind \in Happens
    /\ events < MaxEvents
    /\ events' = events + 1

HandlerStep(h, new) == handler' = [handler EXCEPT ![h] = new]
At(h, pc) == handler[h].pc = pc
Copy(h) == handler[h].copy
Received(h) == emitted[handler[h].ev]

Active == {d \in stored : docs[d].status \in ACTIVE_STATUSES}
ByStripe(s) == {d \in stored : docs[d].stripe = s}
Latest(D) == CHOOSE d \in D : \A e \in D : e <= d

Expired(doc) == doc.end # NoTime /\ doc.end <= now

\* Mutant: the counters restart but the window stays in the past.
ZeroedOnly(doc) == IF Expired(doc) THEN [doc EXCEPT !.used = Unused] ELSE doc

\* _maybe_reset_period, on the document in memory: one window further.
RolledForward(doc) ==
    IF Expired(doc)
      THEN [doc EXCEPT !.used = Unused, !.start = doc.end, !.end = @ + 1]
      ELSE doc

\* The unique index on stripe_subscription_id.
Clash(d, doc) == doc.stripe # None /\ \E e \in stored \ {d} : docs[e].stripe = doc.stripe

-----------------------------------------------------------------------------
(* Requests: ensure_subscription (registration, checkout), the entitlement   *)
(* checks that all go through _resolved, and _increment.                     *)

Request(h, kind, field) ==
    /\ Event(kind)
    /\ ~erased
    /\ At(h, "idle")
    /\ kind # "use" => field = "applications_used"
    /\ HandlerStep(h, [IdleHandler EXCEPT !.pc = IF kind = "ensure" THEN "ensure" ELSE "lookup",
                                          !.kind = kind, !.field = field, !.began = now])
    /\ UNCHANGED <<store, erased, stripe, emitted, wire, recorded, now, fresh>>

\* The document was read: a check ends here unless it must save a reset.
Found(h, d) ==
    LET held == [handler[h] EXCEPT !.doc = d, !.copy = RolledForward(docs[d]),
                                   !.reset = Expired(docs[d])]
    IN  CASE handler[h].kind = "ensure" -> IdleHandler
          [] handler[h].kind = "check" ->
               IF Expired(docs[d]) THEN [held EXCEPT !.pc = "save"] ELSE IdleHandler
          [] handler[h].kind = "use" -> [held EXCEPT !.pc = "update"]

\* Mutant: a document whose window elapsed is taken for none, and a new one is provisioned
\* for the new period.
LookupInWindow(h) ==
    /\ At(h, "lookup")
    /\ HandlerStep(h, IF Active = {} THEN [handler[h] EXCEPT !.pc = "ensure"]
                      ELSE IF Expired(docs[Latest(Active)]) THEN [handler[h] EXCEPT !.pc = "provision"]
                      ELSE Found(h, Latest(Active)))
    /\ UNCHANGED <<store, erased, stripe, emitted, wire, recorded, now, fresh, events>>

\* get_active_subscription.
Lookup(h) ==
    /\ At(h, "lookup")
    /\ HandlerStep(h, IF Active = {} THEN [handler[h] EXCEPT !.pc = "ensure"]
                                     ELSE Found(h, Latest(Active)))
    /\ UNCHANGED <<store, erased, stripe, emitted, wire, recorded, now, fresh, events>>

\* ensure_subscription: the newest document whatever its status ...
Ensure(h) ==
    /\ At(h, "ensure")
    /\ HandlerStep(h, IF stored = {} THEN [handler[h] EXCEPT !.pc = "provision"]
                      ELSE IF handler[h].kind = "check"
                                /\ docs[Latest(stored)].status \notin ACTIVE_STATUSES
                             THEN IdleHandler
                             ELSE Found(h, Latest(stored)))
    /\ UNCHANGED <<store, erased, stripe, emitted, wire, recorded, now, fresh, events>>

\* insert(); a document's number is the order it was made in.
Insert(doc) ==
    /\ born < MaxDocs
    /\ born' = born + 1
    /\ docs' = [docs EXCEPT ![born + 1] = doc]
    /\ stored' = stored \cup {born + 1}

\* save(): the whole document, also when it was deleted meanwhile (upsert).
Write(d, doc) ==
    /\ docs' = [docs EXCEPT ![d] = doc]
    /\ stored' = stored \cup {d}
    /\ UNCHANGED born

\* ... else a free one is inserted.  tenant_id has no unique index.
Provision(h) ==
    /\ At(h, "provision")
    /\ Insert(FreeWindow)
    /\ HandlerStep(h, IF handler[h].kind = "use"
                        THEN [handler[h] EXCEPT !.pc = "update", !.doc = born + 1,
                                                !.copy = FreeWindow]
                        ELSE IdleHandler)
    /\ UNCHANGED <<erased, stripe, emitted, wire, recorded, now, fresh, events>>

\* Mutant: the counter is read, incremented in memory and written back.
IncrementStale(h) ==
    /\ At(h, "update")
    /\ docs' = [docs EXCEPT ![handler[h].doc].used =
                  [Copy(h).used EXCEPT ![handler[h].field] = @ + 1]]
    /\ fresh' = [fresh EXCEPT ![handler[h].field] = IF handler[h].began = now THEN @ + 1 ELSE @]
    /\ HandlerStep(h, IdleHandler)
    /\ UNCHANGED <<born, stored, erased, stripe, emitted, wire, recorded, now, events>>

\* _increment: one $inc; or, if the window had elapsed when it was read, one $set
\* of both counters and the window.
Increment(h) ==
    /\ At(h, "update")
    /\ LET d == handler[h].doc
           f == handler[h].field
           doc == docs[d]
       IN  docs' = IF d \notin stored THEN docs ELSE [docs EXCEPT ![d] =
                      IF handler[h].reset
                        THEN [doc EXCEPT !.used = [Unused EXCEPT ![f] = 1],
                                         !.start = Copy(h).start, !.end = Copy(h).end]
                        ELSE [doc EXCEPT !.used[f] = doc.used[f] + 1]]
    /\ fresh' = [fresh EXCEPT ![handler[h].field] = IF handler[h].began = now THEN @ + 1 ELSE @]
    /\ HandlerStep(h, IdleHandler)
    /\ UNCHANGED <<born, stored, erased, stripe, emitted, wire, recorded, now, events>>

-----------------------------------------------------------------------------
(* handle_webhook. *)

Deliver(h, e) ==
    /\ At(h, "idle")
    /\ e \in wire
    /\ InOrder => \A x \in wire : e <= x
    /\ HandlerStep(h, [IdleHandler EXCEPT !.pc = "record", !.kind = "webhook", !.ev = e])
    /\ UNCHANGED <<store, erased, stripe, emitted, wire, recorded, now, fresh, events>>

\* The 200 that ends Stripe's retries.
Answer(h) == wire' = wire \ {handler[h].ev}

\* Each id is inserted before it is processed; one that is there is a duplicate.
RecordEvent(h) ==
    /\ At(h, "record")
    /\ IF handler[h].ev \in recorded
         THEN Answer(h) /\ HandlerStep(h, IdleHandler) /\ UNCHANGED recorded
         ELSE /\ recorded' = recorded \cup {handler[h].ev}
              /\ HandlerStep(h, [handler[h] EXCEPT !.pc = "find"])
              /\ UNCHANGED wire
    /\ UNCHANGED <<store, erased, stripe, emitted, now, fresh, events>>

\* What each handler makes of the document it read.
AfterCheckout(doc, m) ==
    [doc EXCEPT !.stripe = m.sub, !.status = "active", !.used = Unused]

\* Mutant: only the start of the window is read from the event.
AfterUpdateStartOnly(doc, m) ==
    [doc EXCEPT !.stripe = m.sub, !.status = m.status, !.start = m.start]

AfterUpdate(doc, m) ==
    [doc EXCEPT !.stripe = m.sub, !.status = m.status,
                !.used = IF doc.start # m.start THEN Unused ELSE @,
                !.start = m.start, !.end = m.start + 1]

\* Mutant: the document is unlinked and keeps the plan.
AfterDeleteKeeping(doc) == [doc EXCEPT !.stripe = None, !.status = "trialing"]

AfterDelete(doc) == FreeWindow

AfterEvent(doc, m) ==
    CASE m.type = "checkout" -> AfterCheckout(doc, m)
      [] m.type = "updated" -> AfterUpdate(doc, m)
      [] m.type = "deleted" -> AfterDelete(doc)

\* Mutant: an event whose plan cannot be resolved gets any paid plan.
ResolveGuessing(m) == IF m.plan = None THEN CHOOSE p \in PaidPlans : TRUE ELSE m.plan

\* _resolve_plan.
Resolve(m) == m.plan

\* By Stripe id; a checkout, and an update that finds nothing, go on to look for
\* the tenant's document, but only if the event names a plan.
Find(h) ==
    /\ At(h, "find")
    /\ LET m == Received(h)
           linked == ByStripe(m.sub)
       IN  IF linked # {} /\ m.type # "checkout"
             THEN /\ HandlerStep(h, [handler[h] EXCEPT !.pc = "save", !.doc = Latest(linked),
                                       !.copy = AfterEvent(docs[Latest(linked)], m)])
                  /\ UNCHANGED wire
             ELSE IF m.type = "deleted" \/ Resolve(m) = None
               THEN Answer(h) /\ HandlerStep(h, IdleHandler)
               ELSE HandlerStep(h, [handler[h] EXCEPT !.pc = "adopt"]) /\ UNCHANGED wire
    /\ UNCHANGED <<store, erased, stripe, emitted, recorded, now, fresh, events>>

\* Mutant: an existing document keeps the plan it has.
AdoptKeeping(h) ==
    /\ At(h, "adopt")
    /\ LET m == Received(h)
           linked == ByStripe(m.sub)
           d == Latest(IF linked # {} THEN linked ELSE stored)
           new == Subscription(Resolve(m), NoTime, NoTime)
       IN  \/ /\ stored # {}
              /\ HandlerStep(h, [handler[h] EXCEPT !.pc = "save_plan", !.doc = d,
                                   !.copy = docs[d]])
              /\ UNCHANGED store
           \/ /\ stored = {}
              /\ Insert(new)
              /\ HandlerStep(h, [handler[h] EXCEPT !.pc = "save", !.doc = born + 1,
                                   !.copy = AfterEvent(new, m)])
    /\ UNCHANGED <<erased, stripe, emitted, wire, recorded, now, fresh, events>>

\* _get_or_create_subscription: the linked document, or the tenant's newest, or
\* a new one without a window.
Adopt(h) ==
    /\ At(h, "adopt")
    /\ LET m == Received(h)
           linked == ByStripe(m.sub)
           d == Latest(IF linked # {} THEN linked ELSE stored)
           new == Subscription(Resolve(m), NoTime, NoTime)
       IN  \/ /\ stored # {}
              /\ HandlerStep(h, [handler[h] EXCEPT !.pc = "save_plan", !.doc = d,
                                   !.copy = [docs[d] EXCEPT !.plan = Resolve(m)]])
              /\ UNCHANGED store
           \/ /\ stored = {}
              /\ Insert(new)
              /\ HandlerStep(h, [handler[h] EXCEPT !.pc = "save", !.doc = born + 1,
                                   !.copy = AfterEvent(new, m)])
    /\ UNCHANGED <<erased, stripe, emitted, wire, recorded, now, fresh, events>>

SavePlan(h) ==
    /\ At(h, "save_plan")
    /\ IF Clash(handler[h].doc, Copy(h))
         THEN HandlerStep(h, IdleHandler) /\ UNCHANGED store
         ELSE /\ Write(handler[h].doc, Copy(h))
              /\ HandlerStep(h, [handler[h] EXCEPT !.pc = "save",
                                   !.copy = AfterEvent(Copy(h), Received(h))])
    /\ UNCHANGED <<erased, stripe, emitted, wire, recorded, now, fresh, events>>

\* The last save of a webhook, or of a check that reset the period; a clash of
\* Stripe ids is an exception, and Stripe sends the event again.
Save(h) ==
    /\ At(h, "save")
    /\ IF Clash(handler[h].doc, Copy(h))
         THEN UNCHANGED <<store, wire>>
         ELSE /\ Write(handler[h].doc, Copy(h))
              /\ IF handler[h].kind = "webhook" THEN Answer(h) ELSE UNCHANGED wire
    /\ HandlerStep(h, IdleHandler)
    /\ UNCHANGED <<erased, stripe, emitted, recorded, now, fresh, events>>

\* The process is lost, or a round trip raises.
HandlerDies(h) ==
    /\ Event("crash")
    /\ ~At(h, "idle")
    /\ HandlerStep(h, IdleHandler)
    /\ UNCHANGED <<store, erased, stripe, emitted, wire, recorded, now, fresh>>

-----------------------------------------------------------------------------
(* Stripe and the clock. *)

Emit(messages) ==
    /\ emitted' = emitted \o messages
    /\ wire' = wire \cup Len(emitted) + 1 .. Len(emitted) + Len(messages)

Live == {s \in Subs : stripe[s].status \in {"active", "unpaid"}}
Message(s, type) ==
    [type |-> type, sub |-> s, plan |-> stripe'[s].meta, status |-> stripe'[s].status,
     start |-> stripe'[s].start]

\* A checkout is paid: two events in either order, both with the plan code that
\* create_checkout_session put in the metadata, unless it no longer resolves.
Buy(s, plan) ==
    /\ stored # {} /\ ~erased
    /\ stripe[s].status = "none"
    /\ \E meta \in {plan, None} :
          /\ stripe' = [stripe EXCEPT ![s] = [plan |-> plan, meta |-> meta,
                                             status |-> "active", start |-> now]]
          /\ \/ Event("buy") /\ Live = {} /\ meta = plan
             \/ Event("buy_second") /\ Live # {} /\ meta = plan
             \/ Event("buy_unmarked") /\ Live = {} /\ meta = None
    /\ \/ Emit(<<Message(s, "updated"), Message(s, "checkout")>>)
       \/ Emit(<<Message(s, "checkout"), Message(s, "updated")>>)
    /\ UNCHANGED <<store, erased, recorded, handler, now, fresh>>

\* A live subscription is renewed, goes unpaid, or is cancelled.
Renew(s) ==
    /\ Event("renew")
    /\ s \in Live
    /\ stripe[s].start < now
    /\ stripe' = [stripe EXCEPT ![s].start = @ + 1, ![s].status = "active"]
    /\ Emit(<<Message(s, "updated")>>)
    /\ UNCHANGED <<store, erased, recorded, handler, now, fresh>>

Unpaid(s) ==
    /\ Event("unpaid")
    /\ stripe[s].status = "active"
    /\ stripe' = [stripe EXCEPT ![s].status = "unpaid"]
    /\ Emit(<<Message(s, "updated")>>)
    /\ UNCHANGED <<store, erased, recorded, handler, now, fresh>>

Cancel(s) ==
    /\ Event("cancel")
    /\ s \in Live
    /\ stripe' = [stripe EXCEPT ![s].status = "canceled"]
    /\ Emit(<<Message(s, "deleted")>>)
    /\ UNCHANGED <<store, erased, recorded, handler, now, fresh>>

Tick ==
    /\ Event("tick")
    /\ now < MaxNow
    /\ now' = now + 1
    /\ fresh' = Unused
    /\ UNCHANGED <<store, erased, stripe, emitted, wire, recorded, handler>>

\* delete_my_account removes the tenant's documents; Stripe is not told.
Erase ==
    /\ Event("erase")
    /\ ~erased
    /\ erased' = TRUE
    /\ stored' = {}
    /\ UNCHANGED <<docs, born, stripe, emitted, wire, recorded, handler, now, fresh>>

-----------------------------------------------------------------------------
HandlerProgress(h) ==
    \/ Lookup(h) \/ Ensure(h) \/ Provision(h) \/ Increment(h)
    \/ RecordEvent(h) \/ Find(h) \/ Adopt(h) \/ SavePlan(h) \/ Save(h)

Next ==
    \/ \E h \in Handlers :
          \/ HandlerProgress(h)
          \/ HandlerDies(h)
          \/ \E kind \in Requests, f \in Fields : Request(h, kind, f)
          \/ \E e \in wire : Deliver(h, e)
    \/ \E s \in Subs :
          \/ Renew(s) \/ Unpaid(s) \/ Cancel(s)
          \/ \E plan \in PaidPlans : Buy(s, plan)
    \/ Tick \/ Erase

Spec == Init /\ [][Next]_vars

\* A request that has begun goes on, and Stripe keeps delivering what has not been
\* answered; users, renewals and faults promise nothing.
Fairness ==
    /\ \A h \in Handlers : WF_vars(HandlerProgress(h))
    /\ \A e \in 1..(2 * MaxEvents) : WF_vars(\E h \in Handlers : e \in wire /\ Deliver(h, e))

FairSpec == Spec /\ Fairness

-----------------------------------------------------------------------------
(* Properties. *)

Windows == {NoTime} \cup Nat
Document ==
    {x \in [plan : Plans, status : DocStatuses, start : Windows, end : Windows,
            used : [Fields -> Nat], stripe : Subs \cup {None}] :
        x.start = NoTime <=> x.end = NoTime}
StripeEvent ==
    [type : {"checkout", "updated", "deleted"}, sub : Subs, plan : PaidPlans \cup {None},
     status : {"active", "unpaid", "canceled"}, start : Nat]
HandlerRecord ==
    [pc : HandlerPc, kind : Requests \cup {"webhook"}, field : Fields, ev : Nat,
     doc : Docs, copy : Document, reset : BOOLEAN, began : Nat]
StripeRecord ==
    [plan : Plans, meta : PaidPlans \cup {None}, start : Nat,
     status : {"none", "active", "unpaid", "canceled"}]

\* Every variable keeps its shape; in particular a document has both ends of its
\* window or neither, also between the two saves of a webhook.
BillingTypeOK ==
    /\ docs \in [Docs -> Document]
    /\ born \in 0..MaxDocs
    /\ stored \in SUBSET Docs
    /\ erased \in BOOLEAN
    /\ stripe \in [Subs -> StripeRecord]
    /\ emitted \in Seq(StripeEvent)
    /\ wire \in SUBSET Nat
    /\ recorded \in SUBSET Nat
    /\ handler \in [Handlers -> HandlerRecord]
    /\ now \in Nat
    /\ fresh \in [Fields -> Nat]
    /\ events \in Nat

\* An entitlement tier the tenant never bought is never granted, whatever the
\* events say and however they interleave with checks, resets and each other.
Sold == {stripe[s].plan : s \in Subs}
NeverGuessed == \A d \in Docs : docs[d].plan = Free \/ docs[d].plan \in Sold

\* When Stripe has its answers and nothing is being served, the documents say what
\* Stripe says: the plan of a live subscription, free access without one.
Quiet == wire = {} /\ \A h \in Handlers : At(h, "idle")
Shown == docs[Latest(stored)]
InSync ==
    Quiet /\ stored # {} /\ ~erased =>
      IF Live = {} THEN Shown.plan = Free /\ Shown.status \in ACTIVE_STATUSES
      ELSE \E s \in Live :
             /\ Shown.plan = stripe[s].plan
             /\ Shown.stripe = s
             /\ Shown.status \in ACTIVE_STATUSES <=> stripe[s].status = "active"

\* A paid subscription becomes the tenant's plan, or ends, or is cancelled first.
PaidGetsPlan ==
    \A s \in Subs :
        stripe[s].status = "active"
          ~> \/ stored # {} /\ Shown.plan = stripe[s].plan /\ Shown.stripe = s
             \/ stripe[s].status # "active" \/ erased

\* Every use in the current period is still on the meter when it is next read: no
\* increment is overwritten by another, by a check or by a reset.
UsesCounted ==
    Quiet /\ stored # {} => \A f \in Fields : RolledForward(Shown).used[f] >= fresh[f]

\* Nothing in the database keeps a tenant to one document (tenant_id has no unique index):
\* requests that find none together each insert one.  But only the first requests can, so
\* until the account is deleted there are at most as many as are served at a time, however
\* often documents go unpaid, are cancelled or are looked up again.
DocumentsBounded == erased \/ born <= Cardinality(Handlers)

\* A deleted account leaves no record behind.
ErasedForGood == erased /\ Quiet => stored = {}
=============================================================================
