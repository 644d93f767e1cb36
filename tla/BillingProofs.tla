---------------------------- MODULE BillingProofs ----------------------------
(***************************************************************************)
(* What holds of the subscription documents for any number of handlers,    *)
(* documents, Stripe subscriptions and events, in any order of delivery,   *)
(* and what more holds of them when events come one by one and in order.   *)
(***************************************************************************)
EXTENDS Billing, TLAPS, SequenceTheorems, FiniteSetTheorems, WellFoundedInduction

\* A plan is free or bought, and a document, a handler or an event carries no other.
Bought(plan) == plan = Free \/ plan \in Sold
GoodDocument(doc) == doc \in Document /\ Bought(doc.plan)

\* A webhook handler is at a message Stripe sent, a request at no webhook's step.
WebhookPc == {"record", "find", "adopt", "save_plan"}
RequestPc == {"lookup", "ensure", "provision", "update"}
GoodHandler(x) ==
    /\ x \in HandlerRecord /\ Bought(x.copy.plan)
    /\ x.pc \in WebhookPc => x.ev \in 1..Len(emitted)
    /\ x.pc \in RequestPc => x.kind \in Requests
    /\ x.pc = "adopt" => emitted[x.ev].plan # None

DocumentsBought == \A d \in Docs : Bought(docs[d].plan)
HandlersGood == \A h \in Handlers : GoodHandler(handler[h])
WireSent == wire \subseteq 1..Len(emitted)

\* An event names the plan its subscription was bought with, or none that resolves; no
\* update tells of a cancellation.
EventsBought ==
    \A i \in 1..Len(emitted) :
        /\ emitted[i].plan = None \/ emitted[i].plan \in Sold
        /\ emitted[i].type = "updated" => emitted[i].status # "canceled"

\* What nobody bought yet has no plan, and what was bought keeps its plan.
StripeSells ==
    \A s \in Subs : /\ stripe[s].status = "none" => stripe[s].plan = Free
                    /\ stripe[s].status # "none" => stripe[s].plan # Free
                    /\ stripe[s].meta \in {None, stripe[s].plan}

BillingInv ==
    /\ BillingTypeOK /\ DocumentsBought /\ HandlersGood /\ WireSent
    /\ EventsBought /\ StripeSells

-----------------------------------------------------------------------------
(* The newest document. *)

\* A set of naturals that is not empty has a least element.
LEMMA LeastOfNat ==
  ASSUME NEW T \in SUBSET Nat, T # {}
  PROVE  \E x \in T : \A y \in T : x <= y
<1> DEFINE R == {ss \in Nat \X Nat : ss[1] < ss[2]}
<1>1. IsWellFoundedOn(R, Nat)
  BY NatLessThanWellFounded DEF OpToRel
<1> HIDE DEF R
<1>2. PICK x \in T : \A y \in T : ~ (<<y, x>> \in R)
  BY <1>1, WFMin
<1>3. \A y \in T : ~ (y < x)
  BY <1>2 DEF R
<1>4. QED
  BY <1>3

\* Latest is the newest of the documents it is given, if there is one.
LEMMA LatestIsNewest ==
  ASSUME NEW n \in Nat, NEW D \in SUBSET (1..n), D # {}
  PROVE  Latest(D) \in D /\ \A e \in D : e <= Latest(D)
<1> DEFINE S == {i \in Nat : i <= n /\ n - i \in D}
<1>1. S \in SUBSET Nat /\ S # {}
  <2>1. PICK x \in D : TRUE
    OBVIOUS
  <2>2. n - x \in Nat /\ n - x <= n /\ n - (n - x) = x
    OBVIOUS
  <2>3. n - x \in S
    BY <2>2
  <2>4. QED
    BY <2>3
<1>2. PICK i \in S : \A j \in S : i <= j
  BY <1>1, LeastOfNat
<1>3. \A y \in D : n - y \in S
  <2>1. ASSUME NEW y \in D PROVE n - (n - y) = y /\ n - y \in Nat /\ n - y <= n
    OBVIOUS
  <2>2. QED
    BY <2>1
<1>4. n - i \in D /\ \A y \in D : y <= n - i
  BY <1>2, <1>3
<1>5. QED
  BY <1>4 DEF Latest

\* The documents found by status, by Stripe id or by tenant are stored ones.
LEMMA FoundIsStored ==
  ASSUME BillingTypeOK, NEW D \in SUBSET stored, D # {}
  PROVE  Latest(D) \in D /\ Latest(D) \in Docs
<1>1. MaxDocs \in Nat /\ D \subseteq 1..MaxDocs
  BY BillingBounds DEF BillingTypeOK, Docs
<1>2. QED
  BY <1>1, LatestIsNewest DEF Docs

-----------------------------------------------------------------------------
(* Documents. *)

\* The documents the code makes from nothing.
LEMMA NewDocuments ==
  ASSUME now \in Nat
  PROVE  /\ Blank \in Document /\ Blank.plan = Free
         /\ FreeWindow \in Document /\ FreeWindow.plan = Free
         /\ \A plan \in Plans : LET new == Subscription(plan, NoTime, NoTime)
                                IN  new \in Document /\ new.plan = plan
  BY DEF Blank, FreeWindow, Subscription, Document, Plans, DocStatuses, Windows, NoTime, Unused

\* A reset of the period keeps the plan and both ends of the window.
LEMMA ResetDocument ==
  ASSUME NEW doc \in Document
  PROVE  RolledForward(doc) \in Document /\ RolledForward(doc).plan = doc.plan
<1>1. CASE Expired(doc)
  <2>1. doc.end \in Nat /\ doc.end + 1 \in Windows /\ doc.end + 1 # NoTime
    BY <1>1 DEF Expired, Document, Windows, NoTime
  <2>2. Unused \in [Fields -> Nat]
    BY DEF Unused
  <2>3. RolledForward(doc) =
          [doc EXCEPT !.used = Unused, !.start = doc.end, !.end = doc.end + 1]
    BY <1>1 DEF RolledForward
  <2>4. doc.end # NoTime /\ doc.end \in Windows
    BY <2>1 DEF NoTime, Windows
  <2>5. QED
    BY <2>1, <2>2, <2>3, <2>4 DEF Document
<1>2. CASE ~Expired(doc)
  BY <1>2 DEF RolledForward
<1>3. QED
  BY <1>1, <1>2

\* A counter is incremented, or begun anew in the window of another copy.
LEMMA MeteredDocument ==
  ASSUME NEW doc \in Document, NEW copy \in Document, NEW f \in Fields
  PROVE  /\ [doc EXCEPT !.used[f] = doc.used[f] + 1] \in Document
         /\ [doc EXCEPT !.used[f] = doc.used[f] + 1].plan = doc.plan
         /\ LET new == [doc EXCEPT !.used = [Unused EXCEPT ![f] = 1],
                                   !.start = copy.start, !.end = copy.end]
            IN  new \in Document /\ new.plan = doc.plan
<1>1. [Unused EXCEPT ![f] = 1] \in [Fields -> Nat]
  BY DEF Unused
<1>2. [doc.used EXCEPT ![f] = @ + 1] \in [Fields -> Nat]
  BY DEF Document
<1>3. QED
  BY <1>1, <1>2 DEF Document

\* What a webhook makes of a document: only a cancellation changes its plan, to free.
LEMMA EventDocument ==
  ASSUME now \in Nat, NEW doc \in Document, NEW m \in StripeEvent,
         m.type = "updated" => m.status # "canceled"
  PROVE  AfterEvent(doc, m) \in Document /\ AfterEvent(doc, m).plan \in {Free, doc.plan}
<1> USE DEF AfterEvent, StripeEvent
<1>1. CASE m.type = "checkout"
  BY <1>1 DEF AfterCheckout, Document, DocStatuses, Unused
<1>2. CASE m.type = "updated"
  <2>1. (IF doc.start # m.start THEN Unused ELSE doc.used) \in [Fields -> Nat]
    BY DEF Unused, Document
  <2>2. m.start # NoTime /\ m.start + 1 # NoTime /\ m.start + 1 \in Windows
    BY DEF NoTime, Windows
  <2>3. QED
    BY <1>2, <2>1, <2>2 DEF AfterUpdate, Document, DocStatuses, Windows
<1>3. CASE m.type = "deleted"
  BY <1>3, NewDocuments DEF AfterDelete
<1>4. QED
  BY <1>1, <1>2, <1>3

-----------------------------------------------------------------------------
(* Handlers. *)

\* An idle handler is a good one.
LEMMA IdleGood == ASSUME BillingTypeOK PROVE GoodHandler(IdleHandler)
<1>1. now \in Nat /\ 1 \in Docs
  BY BillingBounds DEF BillingTypeOK, Docs
<1>2. QED
  BY <1>1, NewDocuments
     DEF GoodHandler, IdleHandler, HandlerRecord, HandlerPc, Requests, Fields, Bought, WebhookPc,
         RequestPc

\* A step that gives one handler a good record, and touches the documents only with good
\* ones, keeps the invariant; Stripe and the messages are as they were.
LEMMA HandlerKeeps ==
  ASSUME BillingInv, NEW h \in Handlers, NEW new, GoodHandler(new), HandlerStep(h, new),
         UNCHANGED <<stripe, emitted>>,
         docs' \in [Docs -> Document], DocumentsBought',
         born' \in 0..MaxDocs, stored' \in SUBSET Docs, erased' \in BOOLEAN,
         wire' \subseteq wire, recorded' \in SUBSET Nat, now' \in Nat, fresh' \in [Fields -> Nat],
         events' \in Nat
  PROVE  BillingInv'
<1> USE DEF BillingInv
<1>1. Sold' = Sold
  BY DEF Sold
<1>2. \A x : GoodHandler(x) => GoodHandler(x)'
  BY <1>1 DEF GoodHandler, Bought
<1>3. handler' = [handler EXCEPT ![h] = new] /\ handler \in [Handlers -> HandlerRecord]
  BY DEF HandlerStep, BillingTypeOK
<1>4. handler' \in [Handlers -> HandlerRecord]
  BY <1>3 DEF GoodHandler
<1>5. HandlersGood'
  <2>1. \A g \in Handlers : GoodHandler(handler'[g])
    BY <1>3 DEF HandlersGood
  <2>2. QED
    BY <1>2, <2>1 DEF HandlersGood, GoodHandler
<1>6. BillingTypeOK'
  BY <1>4 DEF BillingTypeOK
<1>7. WireSent' /\ EventsBought' /\ StripeSells'
  BY <1>1 DEF WireSent, EventsBought, StripeSells
<1>8. QED
  BY <1>5, <1>6, <1>7

\* Writing a good document, or inserting one, keeps them all good.
LEMMA WriteKeeps ==
  ASSUME BillingInv, NEW d \in Docs, NEW doc, GoodDocument(doc), UNCHANGED stripe,
         docs' = [docs EXCEPT ![d] = doc]
  PROVE  docs' \in [Docs -> Document] /\ DocumentsBought'
<1>1. Sold' = Sold
  BY DEF Sold
<1>2. docs \in [Docs -> Document] /\ \A e \in Docs : Bought(docs[e].plan)
  BY DEF BillingInv, BillingTypeOK, DocumentsBought
<1>3. \A e \in Docs : Bought(docs'[e].plan)
  BY <1>2 DEF GoodDocument
<1>4. QED
  BY <1>1, <1>2, <1>3 DEF GoodDocument, DocumentsBought, Bought

\* A document in the database, as it is and as a check reads it, is a good one.
LEMMA StoredGood ==
  ASSUME BillingInv, NEW d \in Docs
  PROVE  GoodDocument(docs[d]) /\ GoodDocument(RolledForward(docs[d]))
<1>1. docs[d] \in Document /\ Bought(docs[d].plan)
  BY DEF BillingInv, BillingTypeOK, DocumentsBought
<1>2. QED
  BY <1>1, ResetDocument DEF GoodDocument

\* A handler that moves on, with the copy it has or another good one, is still a good one,
\* if the event it is at was sent and a request step is a request's.
LEMMA Moved ==
  ASSUME NEW x, GoodHandler(x), NEW pc \in HandlerPc, NEW d \in Docs, NEW copy, GoodDocument(copy),
         pc \in WebhookPc => x.ev \in 1..Len(emitted), pc \in RequestPc => x.kind \in Requests,
         pc = "adopt" => emitted[x.ev].plan # None
  PROVE  /\ GoodHandler([x EXCEPT !.pc = pc])
         /\ GoodHandler([x EXCEPT !.pc = pc, !.copy = copy])
         /\ GoodHandler([x EXCEPT !.pc = pc, !.doc = d, !.copy = copy])
BY DEF GoodHandler, HandlerRecord, GoodDocument

\* The document a request found is a stored one: what it does next is a request's step.
LEMMA FoundGood ==
  ASSUME BillingInv, NEW h \in Handlers, NEW d \in Docs, handler[h].kind \in Requests
  PROVE  GoodHandler(Found(h, d))
<1> DEFINE x == handler[h]
           held == [x EXCEPT !.doc = d, !.copy = RolledForward(docs[d]), !.reset = Expired(docs[d])]
<1>1. GoodHandler(x) /\ GoodHandler(IdleHandler)
  BY IdleGood DEF BillingInv, HandlersGood
<1>2. GoodDocument(RolledForward(docs[d])) /\ Expired(docs[d]) \in BOOLEAN
  BY StoredGood DEF Expired
<1>3. GoodHandler(held) /\ held.kind = x.kind
  BY <1>1, <1>2 DEF GoodHandler, HandlerRecord, GoodDocument
<1> HIDE DEF held
<1>4. GoodHandler([held EXCEPT !.pc = "save"]) /\ GoodHandler([held EXCEPT !.pc = "update"])
  BY <1>1, <1>2, <1>3, Moved DEF HandlerPc, WebhookPc, RequestPc
<1>5. Found(h, d) \in {IdleHandler, [held EXCEPT !.pc = "save"], [held EXCEPT !.pc = "update"]}
  BY DEF Found, Requests, held
<1>6. QED
  BY <1>1, <1>4, <1>5

\* What HandlerKeeps asks of the variables a step leaves alone.
LEMMA Unchanged ==
  ASSUME BillingInv
  PROVE  /\ UNCHANGED <<store, stripe>> => /\ docs' \in [Docs -> Document] /\ DocumentsBought'
                                               /\ born' \in 0..MaxDocs /\ stored' \in SUBSET Docs
         /\ UNCHANGED erased => erased' \in BOOLEAN
         /\ UNCHANGED recorded => recorded' \in SUBSET Nat
         /\ UNCHANGED now => now' \in Nat
         /\ UNCHANGED fresh => fresh' \in [Fields -> Nat]
         /\ UNCHANGED events => events' \in Nat
BY DEF BillingInv, BillingTypeOK, store, DocumentsBought, Bought, Sold

-----------------------------------------------------------------------------
(* Requests *)

\* A request that comes in is a good handler, and changes nothing else.
LEMMA RequestKeeps ==
  ASSUME BillingInv, NEW h \in Handlers, NEW kind \in Requests, NEW f \in Fields,
         Request(h, kind, f)
  PROVE  BillingInv'
<1> DEFINE new == [IdleHandler EXCEPT !.pc = IF kind = "ensure" THEN "ensure" ELSE "lookup",
                                      !.kind = kind, !.field = f, !.began = now]
<1>1. now \in Nat /\ GoodHandler(IdleHandler)
  BY IdleGood DEF BillingInv, BillingTypeOK
<1>2. GoodHandler(new)
  BY <1>1 DEF GoodHandler, HandlerRecord, HandlerPc, WebhookPc, RequestPc
<1>3. /\ HandlerStep(h, new)
      /\ UNCHANGED <<store, erased, stripe, emitted, wire, recorded, now, fresh>>
  BY DEF Request
<1>4. events' \in Nat
  BY DEF Request, Event, BillingInv, BillingTypeOK
<1> HIDE DEF new
<1>5. QED
  BY <1>2, <1>3, <1>4, HandlerKeeps, Unchanged

\* Reading the newest active document, or the newest of all, hands a request a stored one.
LEMMA ReadKeeps ==
  ASSUME BillingInv, NEW h \in Handlers, Lookup(h) \/ Ensure(h)
  PROVE  BillingInv'
<1> DEFINE x == handler[h]
<1>1. GoodHandler(x) /\ GoodHandler(IdleHandler) /\ x.kind \in Requests
  BY IdleGood DEF BillingInv, HandlersGood, GoodHandler, Lookup, Ensure, At, RequestPc
<1>2. /\ Active # {} => Latest(Active) \in Docs
      /\ stored # {} => Latest(stored) \in Docs
  BY FoundIsStored DEF BillingInv, Active
<1>3. GoodHandler([x EXCEPT !.pc = "ensure"]) /\ GoodHandler([x EXCEPT !.pc = "provision"])
  BY <1>1 DEF GoodHandler, HandlerRecord, HandlerPc, WebhookPc, RequestPc
<1>4. UNCHANGED <<store, erased, stripe, emitted, wire, recorded, now, fresh, events>>
  BY DEF Lookup, Ensure
<1>5. PICK new \in {IdleHandler, [x EXCEPT !.pc = "ensure"], [x EXCEPT !.pc = "provision"]}
                   \cup {Found(h, d) : d \in Docs} : HandlerStep(h, new)
  <2>1. CASE Lookup(h)
    BY <2>1, <1>2 DEF Lookup
  <2>2. CASE Ensure(h)
    BY <2>2, <1>2 DEF Ensure
  <2>3. QED
    BY <2>1, <2>2
<1>6. GoodHandler(new)
  BY <1>1, <1>3, <1>5, FoundGood
<1>7. QED
  BY <1>4, <1>5, <1>6, HandlerKeeps, Unchanged

\* The document provisioned is a free one.
LEMMA ProvisionKeeps ==
  ASSUME BillingInv, NEW h \in Handlers, Provision(h)
  PROVE  BillingInv'
<1> DEFINE x == handler[h]
<1>1. GoodHandler(x) /\ GoodHandler(IdleHandler) /\ x.kind \in Requests
  BY IdleGood DEF BillingInv, HandlersGood, GoodHandler, Provision, At, RequestPc
<1>2. GoodDocument(FreeWindow)
  BY NewDocuments DEF BillingInv, BillingTypeOK, GoodDocument, Bought
<1>3. born + 1 \in Docs /\ born \in Nat
  BY BillingBounds DEF BillingInv, BillingTypeOK, Provision, Insert, Docs
<1>4. GoodHandler([x EXCEPT !.pc = "update", !.doc = born + 1, !.copy = FreeWindow])
  BY <1>1, <1>2, <1>3, Moved DEF HandlerPc, WebhookPc
<1>5. UNCHANGED <<erased, stripe, emitted, wire, recorded, now, fresh, events>>
  BY DEF Provision
<1>6. PICK new \in {IdleHandler,
                     [x EXCEPT !.pc = "update", !.doc = born + 1, !.copy = FreeWindow]} :
        HandlerStep(h, new)
  BY DEF Provision
<1>7. docs' \in [Docs -> Document] /\ DocumentsBought'
  BY <1>2, <1>3, <1>5, WriteKeeps DEF Provision, Insert
<1>8. born' \in 0..MaxDocs /\ stored' \in SUBSET Docs
  BY <1>3, BillingBounds DEF BillingInv, BillingTypeOK, Provision, Insert, Docs
<1>9. GoodHandler(new)
  BY <1>1, <1>4, <1>6
<1>10. QED
  BY <1>5, <1>6, <1>7, <1>8, <1>9, HandlerKeeps, Unchanged

\* The increment, or the reset with the window of the copy, keeps the plan.
LEMMA IncrementKeeps ==
  ASSUME BillingInv, NEW h \in Handlers, Increment(h)
  PROVE  BillingInv'
<1> DEFINE x == handler[h]
           d == x.doc
           f == x.field
           counted == [docs[d] EXCEPT !.used[f] = docs[d].used[f] + 1]
           renewed == [docs[d] EXCEPT !.used = [Unused EXCEPT ![f] = 1],
                                      !.start = x.copy.start, !.end = x.copy.end]
<1>1. /\ d \in Docs /\ f \in Fields /\ x.copy \in Document /\ GoodHandler(IdleHandler)
      /\ fresh \in [Fields -> Nat]
  BY IdleGood DEF BillingInv, HandlersGood, GoodHandler, HandlerRecord, BillingTypeOK
<1>2. GoodDocument(docs[d])
  BY <1>1, StoredGood
<1>3. GoodDocument(counted) /\ GoodDocument(renewed)
  BY <1>1, <1>2, MeteredDocument DEF GoodDocument
<1>4. /\ UNCHANGED <<born, stored, erased, stripe, emitted, wire, recorded, now, events>>
      /\ HandlerStep(h, IdleHandler)
  BY DEF Increment
<1>5. docs' = docs \/ docs' = [docs EXCEPT ![d] = counted] \/ docs' = [docs EXCEPT ![d] = renewed]
  <2>1. CASE d \notin stored
    BY <2>1 DEF Increment
  <2>2. CASE d \in stored /\ x.reset
    BY <2>2 DEF Increment, Copy
  <2>3. CASE d \in stored /\ ~x.reset
    <3>1. docs' = [docs EXCEPT ![d] = [docs[d] EXCEPT !.used[f] = docs[d].used[f] + 1]]
      BY <2>3 DEF Increment
    <3>2. QED
      BY <3>1
  <2>4. QED
    BY <2>1, <2>2, <2>3
<1> HIDE DEF counted, renewed
<1>6. docs' \in [Docs -> Document] /\ DocumentsBought'
  BY <1>1, <1>2, <1>3, <1>4, <1>5, WriteKeeps
     DEF BillingInv, BillingTypeOK, DocumentsBought, Bought, Sold
<1>7. fresh' \in [Fields -> Nat]
  <2>1. fresh' = [fresh EXCEPT ![f] = fresh[f] + 1] \/ fresh' = fresh
    BY <1>1 DEF Increment
  <2>2. QED
    BY <1>1, <2>1
<1>8. born' \in 0..MaxDocs /\ stored' \in SUBSET Docs
  BY <1>4 DEF BillingInv, BillingTypeOK
<1>9. QED
  BY <1>1, <1>4, <1>6, <1>7, <1>8, HandlerKeeps, Unchanged

-----------------------------------------------------------------------------
(* Webhooks *)

\* A message Stripe sent is an event of a bought plan.
LEMMA ReceivedGood ==
  ASSUME BillingInv, NEW h \in Handlers, handler[h].pc \in WebhookPc
  PROVE  LET m == Received(h)
         IN  /\ m \in StripeEvent
             /\ m.type = "updated" => m.status # "canceled"
             /\ m.plan = None \/ (m.plan \in Plans /\ Bought(m.plan))
<1>1. handler[h].ev \in 1..Len(emitted) /\ emitted \in Seq(StripeEvent)
  BY DEF BillingInv, HandlersGood, GoodHandler, BillingTypeOK
<1>2. Received(h) \in StripeEvent
  BY <1>1 DEF Received
<1>3. QED
  BY <1>1, <1>2 DEF BillingInv, EventsBought, Received, StripeEvent, Plans, Bought

\* A delivery, and the record of its id.
LEMMA DeliverKeeps ==
  ASSUME BillingInv, NEW h \in Handlers, RecordEvent(h) \/ \E e \in wire : Deliver(h, e)
  PROVE  BillingInv'
<1> DEFINE x == handler[h]
<1>1. GoodHandler(x) /\ GoodHandler(IdleHandler)
  BY IdleGood DEF BillingInv, HandlersGood
<1>2. CASE RecordEvent(h)
  <2>1. x.ev \in 1..Len(emitted) /\ x.ev \in Nat
    BY <1>1, <1>2 DEF GoodHandler, RecordEvent, At, WebhookPc, HandlerRecord
  <2>2. GoodHandler([x EXCEPT !.pc = "find"])
    BY <1>1, <2>1 DEF GoodHandler, HandlerRecord, HandlerPc, RequestPc
  <2>3. PICK new \in {IdleHandler, [x EXCEPT !.pc = "find"]} : HandlerStep(h, new)
    BY <1>2 DEF RecordEvent
  <2>4. UNCHANGED <<store, erased, stripe, emitted, now, fresh, events>> /\ wire' \subseteq wire
    BY <1>2 DEF RecordEvent, Answer
  <2>5. recorded' \in SUBSET Nat
    BY <1>2, <2>1 DEF RecordEvent, BillingInv, BillingTypeOK
  <2>6. GoodHandler(new)
    BY <1>1, <2>2, <2>3
  <2>7. QED
    BY <2>3, <2>4, <2>5, <2>6, HandlerKeeps, Unchanged
<1>3. ASSUME NEW e \in wire, Deliver(h, e) PROVE BillingInv'
  <2> DEFINE new == [IdleHandler EXCEPT !.pc = "record", !.kind = "webhook", !.ev = e]
  <2>1. e \in 1..Len(emitted) /\ e \in Nat
    BY DEF BillingInv, WireSent, BillingTypeOK
  <2>2. GoodHandler(new)
    BY <1>1, <2>1 DEF GoodHandler, HandlerRecord, HandlerPc, RequestPc
  <2>3. /\ HandlerStep(h, new)
        /\ UNCHANGED <<store, erased, stripe, emitted, wire, recorded, now, fresh, events>>
    BY <1>3 DEF Deliver
  <2> HIDE DEF new
  <2>4. QED
    BY <2>2, <2>3, HandlerKeeps, Unchanged
<1>4. QED
  BY <1>2, <1>3

\* Find takes the linked document, or goes on to adopt one for an event that names a plan.
LEMMA FindKeeps ==
  ASSUME BillingInv, NEW h \in Handlers, Find(h)
  PROVE  BillingInv'
<1> DEFINE x == handler[h]
           m == Received(h)
           d == Latest(ByStripe(m.sub))
           adopting == [x EXCEPT !.pc = "adopt"]
           saving == [x EXCEPT !.pc = "save", !.doc = d, !.copy = AfterEvent(docs[d], m)]
<1>1. GoodHandler(x) /\ GoodHandler(IdleHandler) /\ x.pc = "find" /\ x.ev \in 1..Len(emitted)
  BY IdleGood DEF BillingInv, HandlersGood, GoodHandler, Find, At, WebhookPc
<1>2. /\ m \in StripeEvent
      /\ m.type = "updated" => m.status # "canceled"
  BY <1>1, ReceivedGood DEF WebhookPc
<1>3. m.plan # None => GoodHandler(adopting)
  BY <1>1 DEF GoodHandler, HandlerRecord, HandlerPc, RequestPc, Received
<1>4. CASE ByStripe(m.sub) # {}
  <2>1. d \in Docs
    BY <1>4, FoundIsStored DEF BillingInv, ByStripe
  <2>2. GoodDocument(AfterEvent(docs[d], m))
    BY <1>2, <2>1, StoredGood, EventDocument DEF BillingInv, BillingTypeOK, GoodDocument, Bought
  <2>3. GoodHandler(saving)
    BY <1>1, <2>1, <2>2, Moved DEF HandlerPc, WebhookPc, RequestPc
  <2>4. PICK new \in {IdleHandler, adopting, saving} :
          HandlerStep(h, new) /\ (new \in {IdleHandler, saving} \/ m.plan # None)
    BY <1>4 DEF Find, Resolve
  <2>5. GoodHandler(new)
    BY <1>1, <1>3, <2>3, <2>4
  <2>6. /\ UNCHANGED <<store, erased, stripe, emitted, recorded, now, fresh, events>>
        /\ wire' \subseteq wire
    BY DEF Find, Answer
  <2>7. QED
    BY <2>4, <2>5, <2>6, HandlerKeeps, Unchanged
<1>5. CASE ByStripe(m.sub) = {}
  <2>1. PICK new \in {IdleHandler, adopting} :
          HandlerStep(h, new) /\ (new = IdleHandler \/ m.plan # None)
    BY <1>5 DEF Find, Resolve
  <2>2. GoodHandler(new)
    BY <1>1, <1>3, <2>1
  <2>3. /\ UNCHANGED <<store, erased, stripe, emitted, recorded, now, fresh, events>>
        /\ wire' \subseteq wire
    BY DEF Find, Answer
  <2>4. QED
    BY <2>1, <2>2, <2>3, HandlerKeeps, Unchanged
<1>6. QED
  BY <1>4, <1>5

\* Adopt gives a document the plan of the event, which was bought.
LEMMA AdoptKeeps ==
  ASSUME BillingInv, NEW h \in Handlers, Adopt(h)
  PROVE  BillingInv'
<1> DEFINE x == handler[h]
           m == Received(h)
           found == IF ByStripe(m.sub) # {} THEN ByStripe(m.sub) ELSE stored
           d == Latest(found)
           new == Subscription(m.plan, NoTime, NoTime)
           renamed == [docs[d] EXCEPT !.plan = m.plan]
           adopted == [x EXCEPT !.pc = "save_plan", !.doc = d, !.copy = renamed]
           inserted == [x EXCEPT !.pc = "save", !.doc = born + 1, !.copy = AfterEvent(new, m)]
<1>1. GoodHandler(x) /\ x.pc = "adopt" /\ x.ev \in 1..Len(emitted)
  BY DEF BillingInv, HandlersGood, GoodHandler, Adopt, At, WebhookPc
<1>2. /\ m \in StripeEvent
      /\ m.type = "updated" => m.status # "canceled"
      /\ m.plan \in Plans /\ Bought(m.plan)
  BY <1>1, ReceivedGood DEF WebhookPc, GoodHandler, Received
<1>3. UNCHANGED <<erased, stripe, emitted, wire, recorded, now, fresh, events>>
  BY DEF Adopt
<1>4. CASE stored # {} /\ UNCHANGED store /\ HandlerStep(h, adopted)
  <2>1. found \in SUBSET stored /\ found # {}
    BY <1>4 DEF ByStripe
  <2>2. d \in Docs
    BY <2>1, FoundIsStored DEF BillingInv
  <2>3. GoodDocument(renamed)
    <3>1. GoodDocument(docs[d])
      BY <2>2, StoredGood
    <3>2. QED
      BY <1>2, <3>1 DEF GoodDocument, Document
  <2> HIDE DEF renamed, d
  <2>4. GoodHandler(adopted)
    BY <1>1, <2>2, <2>3, Moved DEF HandlerPc, RequestPc
  <2>5. QED
    BY <1>3, <1>4, <2>4, HandlerKeeps, Unchanged
<1>5. CASE stored = {} /\ Insert(new) /\ HandlerStep(h, inserted)
  <2>1. GoodDocument(new)
    BY <1>2, NewDocuments DEF BillingInv, BillingTypeOK, GoodDocument
  <2> HIDE DEF new
  <2>2. GoodDocument(AfterEvent(new, m))
    BY <1>2, <2>1, EventDocument DEF BillingInv, BillingTypeOK, GoodDocument, Bought
  <2>3. born + 1 \in Docs /\ born \in Nat
    BY <1>5, BillingBounds DEF BillingInv, BillingTypeOK, Insert, Docs
  <2>4. GoodHandler(inserted)
    BY <1>1, <2>2, <2>3, Moved DEF HandlerPc, WebhookPc, RequestPc
  <2>5. docs' \in [Docs -> Document] /\ DocumentsBought'
    BY <1>3, <1>5, <2>1, <2>3, WriteKeeps DEF Insert
  <2>6. born' \in 0..MaxDocs /\ stored' \in SUBSET Docs
    BY <1>5, <2>3, BillingBounds DEF BillingInv, BillingTypeOK, Insert, Docs
  <2>7. QED
    BY <1>3, <1>5, <2>4, <2>5, <2>6, HandlerKeeps, Unchanged
<1>6. QED
  BY <1>4, <1>5 DEF Adopt, Resolve

\* A save writes the good copy a handler has; between its two saves a webhook applies the event.
LEMMA SaveKeeps ==
  ASSUME BillingInv, NEW h \in Handlers, SavePlan(h) \/ Save(h)
  PROVE  BillingInv'
<1> DEFINE x == handler[h]
           m == Received(h)
           applied == [x EXCEPT !.pc = "save", !.copy = AfterEvent(Copy(h), m)]
<1>1. GoodHandler(x) /\ GoodHandler(IdleHandler) /\ x.doc \in Docs /\ GoodDocument(x.copy)
  BY IdleGood DEF BillingInv, HandlersGood, GoodHandler, HandlerRecord, GoodDocument
<1>2. SavePlan(h) => GoodHandler(applied)
  <2>1. SUFFICES ASSUME SavePlan(h) PROVE GoodHandler(applied)
    OBVIOUS
  <2>2. x.pc = "save_plan"
    BY <2>1 DEF SavePlan, At
  <2>3. m \in StripeEvent /\ (m.type = "updated" => m.status # "canceled")
    BY <2>2, ReceivedGood DEF WebhookPc
  <2>4. GoodDocument(AfterEvent(Copy(h), m))
    BY <1>1, <2>3, EventDocument DEF BillingInv, BillingTypeOK, GoodDocument, Bought, Copy
  <2>5. QED
    BY <1>1, <2>4, Moved DEF HandlerPc, WebhookPc, RequestPc
<1>3. PICK new \in {IdleHandler, applied} :
        HandlerStep(h, new) /\ (new = IdleHandler \/ SavePlan(h))
  BY DEF SavePlan, Save
<1>4. GoodHandler(new)
  BY <1>1, <1>2, <1>3
<1>5. /\ UNCHANGED <<erased, stripe, emitted, recorded, now, fresh, events>>
      /\ wire' \subseteq wire
  BY DEF SavePlan, Save, Answer
<1>6. UNCHANGED store \/ Write(x.doc, x.copy)
  BY DEF SavePlan, Save, Copy
<1>7. CASE UNCHANGED store
  BY <1>3, <1>4, <1>5, <1>7, HandlerKeeps, Unchanged
<1>8. CASE Write(x.doc, x.copy)
  <2>1. docs' \in [Docs -> Document] /\ DocumentsBought'
    BY <1>1, <1>5, <1>8, WriteKeeps DEF Write
  <2>2. born' \in 0..MaxDocs /\ stored' \in SUBSET Docs
    BY <1>1, <1>8 DEF BillingInv, BillingTypeOK, Write
  <2>3. QED
    BY <1>3, <1>4, <1>5, <2>1, <2>2, HandlerKeeps, Unchanged
<1>9. QED
  BY <1>6, <1>7, <1>8

\* A lost handler is idle.
LEMMA DiesKeeps ==
  ASSUME BillingInv, NEW h \in Handlers, HandlerDies(h)
  PROVE  BillingInv'
<1>1. GoodHandler(IdleHandler) /\ events \in Nat
  BY IdleGood DEF BillingInv, BillingTypeOK
<1>2. /\ UNCHANGED <<store, erased, stripe, emitted, wire, recorded, now, fresh>>
      /\ HandlerStep(h, IdleHandler) /\ events' = events + 1
  BY DEF HandlerDies, Event
<1>3. QED
  BY <1>1, <1>2, HandlerKeeps, Unchanged

-----------------------------------------------------------------------------
(* Stripe and the clock *)

\* Stripe sells or changes a subscription and says so in some messages: what was bought
\* stays bought.
LEMMA StripeKeeps ==
  ASSUME BillingInv, NEW s \in Subs, NEW x \in StripeRecord, NEW ms \in Seq(StripeEvent),
         stripe' = [stripe EXCEPT ![s] = x], x.status # "none",
         x.plan # Free, x.meta \in {None, x.plan},
         stripe[s].status = "none" \/ x.plan = stripe[s].plan,
         Emit(ms),
         \A i \in 1..Len(ms) : /\ ms[i].plan \in {None, x.plan}
                               /\ ms[i].type = "updated" => ms[i].status # "canceled",
         UNCHANGED <<store, erased, recorded, handler, now, fresh>>, events' \in Nat
  PROVE  BillingInv'
<1> USE DEF BillingInv
<1>1. stripe' \in [Subs -> StripeRecord] /\ \A t \in Subs \ {s} : stripe'[t] = stripe[t]
  BY DEF BillingTypeOK
<1>2. stripe'[s] = x
  BY DEF BillingTypeOK
<1>3. \A plan : Bought(plan) => Bought(plan)'
  BY <1>1, <1>2 DEF Bought, Sold, StripeSells
<1>4. Bought(x.plan)' /\ x.plan \in Sold'
  BY <1>2 DEF Bought, Sold
<1>5. \A t \in Subs : stripe[t].plan \in Sold /\ stripe[t].plan # Free => stripe[t].plan \in Sold'
  BY <1>3 DEF Bought, Sold
<1>6. emitted \in Seq(StripeEvent) /\ Len(emitted) \in Nat /\ Len(ms) \in Nat
  BY LenProperties DEF BillingTypeOK
<1>7. /\ emitted' \in Seq(StripeEvent) /\ Len(emitted') = Len(emitted) + Len(ms)
      /\ \A i \in 1..Len(emitted') :
           emitted'[i] = IF i <= Len(emitted) THEN emitted[i] ELSE ms[i - Len(emitted)]
  BY <1>6, ConcatProperties DEF Emit
<1>8. \A i \in 1..Len(emitted) : emitted'[i] = emitted[i] /\ i \in 1..Len(emitted')
  BY <1>6, <1>7
<1>9. wire' \subseteq 1..Len(emitted') /\ wire' \in SUBSET Nat
  <2>1. /\ wire' = wire \cup Len(emitted) + 1 .. Len(emitted) + Len(ms)
        /\ wire \subseteq 1..Len(emitted)
    BY DEF Emit, WireSent
  <2>2. ASSUME NEW L \in Nat, NEW M \in Nat PROVE 1..L \cup L + 1 .. L + M \subseteq 1..L + M
    OBVIOUS
  <2>3. wire' \subseteq 1..Len(emitted) + Len(ms)
    BY <1>6, <2>1, <2>2
  <2>4. QED
    BY <1>6, <1>7, <2>3
<1>10. BillingTypeOK'
  BY <1>1, <1>7, <1>9 DEF BillingTypeOK, store
<1>11. DocumentsBought'
  BY <1>3 DEF DocumentsBought, store
<1>12. HandlersGood'
  <2>1. ASSUME NEW h \in Handlers PROVE GoodHandler(handler[h])'
    <3>1. GoodHandler(handler[h]) /\ handler' = handler
      BY DEF HandlersGood
    <3>2. handler[h].pc = "adopt" => handler[h].ev \in 1..Len(emitted)
      BY <3>1 DEF GoodHandler, WebhookPc
    <3>3. QED
      BY <1>3, <1>8, <3>1, <3>2 DEF GoodHandler
  <2>2. QED
    BY <2>1 DEF HandlersGood
<1>13. EventsBought'
  <2>1. ASSUME NEW i \in 1..Len(emitted')
        PROVE  /\ emitted'[i].plan = None \/ emitted'[i].plan \in Sold'
               /\ emitted'[i].type = "updated" => emitted'[i].status # "canceled"
    <3>1. CASE i <= Len(emitted)
      <4>1. i \in 1..Len(emitted) /\ emitted'[i] = emitted[i]
        BY <1>6, <1>7, <3>1
      <4>2. emitted[i].plan # Free
        <5>1. emitted[i] \in StripeEvent
          BY <1>6, <4>1
        <5>2. QED
          BY <5>1, PlansAssumption DEF StripeEvent
      <4>3. QED
        BY <1>3, <4>1, <4>2 DEF EventsBought, Bought
    <3>2. CASE ~(i <= Len(emitted))
      <4>1. i - Len(emitted) \in 1..Len(ms) /\ emitted'[i] = ms[i - Len(emitted)]
        BY <1>6, <1>7, <3>2
      <4>2. QED
        BY <1>4, <4>1
    <3>3. QED
      BY <3>1, <3>2
  <2>2. QED
    BY <2>1 DEF EventsBought
<1>14. StripeSells'
  BY <1>1, <1>2 DEF StripeSells
<1>15. QED
  BY <1>9, <1>10, <1>11, <1>12, <1>13, <1>14 DEF WireSent

\* The messages of a step are about the subscription as it is after it.
LEMMA MessageType ==
  ASSUME NEW s \in Subs, stripe'[s] \in StripeRecord, stripe'[s].status # "none",
         NEW type \in {"checkout", "updated", "deleted"}
  PROVE  /\ Message(s, type) \in StripeEvent
         /\ Message(s, type).plan = stripe'[s].meta /\ Message(s, type).type = type
         /\ Message(s, type).status = stripe'[s].status
BY DEF Message, StripeEvent, StripeRecord

\* A checkout, a renewal, a failed payment and a cancellation.
LEMMA StripeSteps ==
  ASSUME BillingInv, NEW s \in Subs,
         Renew(s) \/ Unpaid(s) \/ Cancel(s) \/ \E plan \in PaidPlans : Buy(s, plan)
  PROVE  BillingInv'
<1>1. stripe \in [Subs -> StripeRecord] /\ now \in Nat /\ events \in Nat
  BY DEF BillingInv, BillingTypeOK
<1>2. /\ stripe[s].status # "none" => stripe[s].plan # Free
      /\ stripe[s].meta \in {None, stripe[s].plan}
  BY DEF BillingInv, StripeSells
<1>3. UNCHANGED <<store, erased, recorded, handler, now, fresh>> /\ events' \in Nat
  BY <1>1 DEF Renew, Unpaid, Cancel, Buy, Event
<1>4. ASSUME NEW plan \in PaidPlans, Buy(s, plan) PROVE BillingInv'
  <2>1. PICK meta \in {plan, None} :
          stripe' = [stripe EXCEPT ![s] = [plan |-> plan, meta |-> meta,
                                           status |-> "active", start |-> now]]
    BY <1>4 DEF Buy
  <2> DEFINE x == [plan |-> plan, meta |-> meta, status |-> "active", start |-> now]
  <2>2. x \in StripeRecord /\ x.plan # Free /\ x.status # "none" /\ x.meta \in {None, x.plan}
        /\ x.status # "canceled"
    BY <1>1, PlansAssumption DEF StripeRecord, Plans
  <2> HIDE DEF x
  <2>3. stripe' = [stripe EXCEPT ![s] = x] /\ stripe'[s] = x
    BY <1>1, <2>1 DEF x
  <2> DEFINE u == Message(s, "updated")
             c == Message(s, "checkout")
  <2>4. /\ u \in StripeEvent /\ u.plan = x.meta /\ u.status # "canceled"
        /\ c \in StripeEvent /\ c.plan = x.meta /\ c.status # "canceled"
    BY <2>2, <2>3, MessageType
  <2> HIDE DEF u, c
  <2>5. PICK ms \in {<<u, c>>, <<c, u>>} : Emit(ms)
    BY <1>4 DEF Buy, u, c
  <2>6. /\ ms \in Seq(StripeEvent)
        /\ \A i \in 1..Len(ms) : /\ ms[i].plan \in {None, x.plan}
                                 /\ ms[i].type = "updated" => ms[i].status # "canceled"
    <3>1. ASSUME NEW a \in {u, c}, NEW b \in {u, c}, ms = <<a, b>>
          PROVE  /\ ms \in Seq(StripeEvent) /\ Len(ms) = 2
                 /\ ms[1] \in {u, c} /\ ms[2] \in {u, c}
      BY <2>4, <3>1
    <3>2. ms \in Seq(StripeEvent) /\ Len(ms) = 2 /\ ms[1] \in {u, c} /\ ms[2] \in {u, c}
      BY <3>1
    <3>3. \A i \in 1..Len(ms) : ms[i] \in {u, c}
      BY <3>2
    <3>4. QED
      BY <2>2, <2>4, <3>2, <3>3
  <2>7. stripe[s].status = "none"
    BY <1>4 DEF Buy
  <2>8. QED
    BY <1>3, <2>2, <2>3, <2>5, <2>6, <2>7, StripeKeeps
<1>5. ASSUME NEW x \in StripeRecord, NEW type \in {"updated", "deleted"},
             stripe[s].status # "none", x.plan = stripe[s].plan, x.meta = stripe[s].meta,
             x.status # "none", type = "updated" => x.status # "canceled",
             stripe' = [stripe EXCEPT ![s] = x], Emit(<<Message(s, type)>>)
      PROVE  BillingInv'
  <2> DEFINE m == Message(s, type)
  <2>1. stripe'[s] = x
    BY <1>1, <1>5
  <2>2. m \in StripeEvent /\ m.plan \in {None, x.plan}
        /\ (m.type = "updated" => m.status # "canceled")
    BY <1>2, <1>5, <2>1, MessageType
  <2>3. <<m>> \in Seq(StripeEvent)
        /\ \A i \in 1..Len(<<m>>) : /\ <<m>>[i].plan \in {None, x.plan}
                                    /\ <<m>>[i].type = "updated" => <<m>>[i].status # "canceled"
    BY <2>2
  <2> HIDE DEF m
  <2>4. Emit(<<m>>)
    BY <1>5 DEF m
  <2>5. QED
    BY <1>2, <1>3, <1>5, <2>3, <2>4, StripeKeeps
<1>6. CASE Renew(s)
  <2> DEFINE x == [stripe[s] EXCEPT !.start = @ + 1, !.status = "active"]
  <2>1. /\ x \in StripeRecord /\ x.plan = stripe[s].plan /\ x.meta = stripe[s].meta
        /\ x.status = "active" /\ stripe[s].status # "none"
    <3>1. stripe[s] \in StripeRecord /\ stripe[s].start + 1 \in Nat
      BY <1>1 DEF StripeRecord
    <3>2. stripe[s].status # "none"
      BY <1>6 DEF Renew, Live
    <3>3. QED
      BY <3>1, <3>2 DEF StripeRecord
  <2>2. stripe' = [stripe EXCEPT ![s] = x]
    BY <1>1, <1>6 DEF Renew
  <2> HIDE DEF x
  <2>3. QED
    BY <1>5, <1>6, <2>1, <2>2 DEF Renew
<1>7. CASE Unpaid(s)
  <2> DEFINE x == [stripe[s] EXCEPT !.status = "unpaid"]
  <2>1. /\ x \in StripeRecord /\ x.plan = stripe[s].plan /\ x.meta = stripe[s].meta
        /\ x.status = "unpaid" /\ stripe[s].status # "none"
    BY <1>1, <1>7 DEF Unpaid, StripeRecord
  <2>2. stripe' = [stripe EXCEPT ![s] = x]
    BY <1>7 DEF Unpaid
  <2> HIDE DEF x
  <2>3. QED
    BY <1>5, <1>7, <2>1, <2>2 DEF Unpaid
<1>8. CASE Cancel(s)
  <2> DEFINE x == [stripe[s] EXCEPT !.status = "canceled"]
  <2>1. /\ x \in StripeRecord /\ x.plan = stripe[s].plan /\ x.meta = stripe[s].meta
        /\ x.status = "canceled" /\ stripe[s].status # "none"
    BY <1>1, <1>8 DEF Cancel, Live, StripeRecord
  <2>2. stripe' = [stripe EXCEPT ![s] = x]
    BY <1>8 DEF Cancel
  <2> HIDE DEF x
  <2>3. QED
    BY <1>5, <1>8, <2>1, <2>2 DEF Cancel
<1>9. QED
  BY <1>4, <1>6, <1>7, <1>8

-----------------------------------------------------------------------------
\* The invariant holds at the start ...
LEMMA InitInv == Init => BillingInv
<1> SUFFICES ASSUME Init PROVE BillingInv
  OBVIOUS
<1>1. now \in Nat /\ Len(emitted) = 0 /\ 0 \in 0..MaxDocs /\ 1 \in Docs
  BY BillingBounds DEF Init, Docs
<1>2. Blank \in Document /\ Bought(Blank.plan)
  BY <1>1, NewDocuments DEF Bought
<1>3. \A s \in Subs : stripe[s] \in StripeRecord
  BY DEF Init, StripeRecord, Plans
<1>4. IdleHandler \in HandlerRecord
  BY <1>1, <1>2 DEF IdleHandler, HandlerRecord, HandlerPc, Requests, Fields
<1>5. BillingTypeOK
  <2>1. docs \in [Docs -> Document] /\ stripe \in [Subs -> StripeRecord]
        /\ handler \in [Handlers -> HandlerRecord] /\ fresh \in [Fields -> Nat]
    BY <1>2, <1>3, <1>4 DEF Init, Unused
  <2>2. emitted \in Seq(StripeEvent) /\ wire \in SUBSET Nat /\ recorded \in SUBSET Nat
        /\ stored \in SUBSET Docs /\ erased \in BOOLEAN /\ events \in Nat
    <3>1. /\ emitted = <<>> /\ wire = {} /\ recorded = {} /\ stored = {} /\ erased = FALSE
          /\ events = 0
      BY DEF Init
    <3>2. QED
      BY <3>1, EmptySeq
  <2>3. born \in 0..MaxDocs /\ now \in Nat
    BY <1>1 DEF Init
  <2>4. QED
    BY <2>1, <2>2, <2>3 DEF BillingTypeOK
<1>6. GoodHandler(IdleHandler)
  BY <1>5, IdleGood
<1>7. QED
  BY <1>1, <1>2, <1>5, <1>6
     DEF Init, BillingInv, DocumentsBought, HandlersGood, WireSent, EventsBought, StripeSells

\* ... and is kept by every step.
LEMMA NextInv == BillingInv /\ [Next]_vars => BillingInv'
<1> SUFFICES ASSUME BillingInv, [Next]_vars PROVE BillingInv'
  OBVIOUS
<1>1. ASSUME NEW h \in Handlers, HandlerProgress(h) PROVE BillingInv'
  BY <1>1, ReadKeeps, ProvisionKeeps, IncrementKeeps, DeliverKeeps, FindKeeps, AdoptKeeps,
     SaveKeeps
     DEF HandlerProgress
<1>2. CASE Tick
  <2>1. now' \in Nat /\ fresh' \in [Fields -> Nat] /\ events' \in Nat
    BY <1>2 DEF Tick, Event, Unused, BillingInv, BillingTypeOK
  <2>2. UNCHANGED <<store, erased, stripe, emitted, wire, recorded, handler>>
    BY <1>2 DEF Tick
  <2>3. QED
    BY <2>1, <2>2
       DEF BillingInv, BillingTypeOK, DocumentsBought, HandlersGood, GoodHandler, WireSent,
           EventsBought, StripeSells, Bought, Sold, store
<1>3. CASE Erase
  <2>1. erased' \in BOOLEAN /\ stored' \in SUBSET Docs /\ events' \in Nat
    BY <1>3 DEF Erase, Event, BillingInv, BillingTypeOK
  <2>2. UNCHANGED <<docs, born, stripe, emitted, wire, recorded, handler, now, fresh>>
    BY <1>3 DEF Erase
  <2>3. QED
    BY <2>1, <2>2
       DEF BillingInv, BillingTypeOK, DocumentsBought, HandlersGood, GoodHandler, WireSent,
           EventsBought, StripeSells, Bought, Sold
<1>4. CASE UNCHANGED vars
  BY <1>4
     DEF vars, BillingInv, BillingTypeOK, DocumentsBought, HandlersGood, GoodHandler, WireSent,
         EventsBought, StripeSells, Bought, Sold
<1>5. QED
  BY <1>1, <1>2, <1>3, <1>4, DiesKeeps, RequestKeeps, DeliverKeeps, StripeSteps DEF Next

\* Every variable keeps its shape, and a document has both ends of its window or neither,
\* for any handlers, documents, subscriptions and events.
THEOREM BillingTypes == Spec => []BillingTypeOK
<1>1. BillingInv => BillingTypeOK
  BY DEF BillingInv
<1>2. QED
  BY <1>1, InitInv, NextInv, PTL DEF Spec

\* No document grants a plan that was not bought, in whatever order Stripe's events come and
\* however they interleave with requests, resets, lost processes and a deletion.
THEOREM NeverGuessedAlways == Spec => []NeverGuessed
<1>1. BillingInv => NeverGuessed
  BY DEF BillingInv, DocumentsBought, Bought, NeverGuessed
<1>2. QED
  BY <1>1, InitInv, NextInv, PTL DEF Spec
-----------------------------------------------------------------------------
(* How many documents a tenant gets *)

\* The requests that have read that the tenant has no document.
Provisioning == {h \in Handlers : At(h, "provision")}

\* While no document was deleted, those stored are the ones made, a handler saves one of them,
\* and the requests that still provision one saw the tenant before its first.
BornInv ==
    /\ born \in Nat /\ stored = 1..born /\ DOMAIN handler = Handlers
    /\ \A h \in Handlers : handler[h].pc \in {"save_plan", "save"} => handler[h].doc \in stored
    /\ born = 0 \/ born + Cardinality(Provisioning) <= Cardinality(Handlers)

\* A step that neither makes nor deletes a document, and begins to provision only if there is
\* none, keeps it.
LEMMA BornStays ==
  ASSUME IsFiniteSet(Handlers), BornInv, UNCHANGED <<born, stored>>,
         NEW h \in Handlers, NEW new, HandlerStep(h, new),
         new.pc \in {"save_plan", "save"} => new.doc \in stored,
         new.pc = "provision" => stored = {}
  PROVE  BornInv'
<1>1. handler' = [handler EXCEPT ![h] = new] /\ DOMAIN handler = Handlers
  BY DEF BornInv, HandlerStep
<1>2. /\ DOMAIN handler' = Handlers /\ handler'[h] = new
      /\ \A g \in Handlers \ {h} : handler'[g] = handler[g]
  BY <1>1
<1>3. \A g \in Handlers : handler'[g].pc \in {"save_plan", "save"} => handler'[g].doc \in stored'
  BY <1>2 DEF BornInv
<1>4. ASSUME born # 0 PROVE born + Cardinality(Provisioning') <= Cardinality(Handlers)
  <2>1. Provisioning' \subseteq Provisioning
    <3>1. 1 \in stored
      BY <1>4 DEF BornInv
    <3>2. QED
      BY <1>2, <3>1 DEF Provisioning, At
  <2>2. IsFiniteSet(Provisioning) /\ Cardinality(Provisioning) \in Nat
    BY FS_Subset, FS_CardinalityType DEF Provisioning
  <2>3. /\ Cardinality(Provisioning') <= Cardinality(Provisioning)
        /\ Cardinality(Provisioning') \in Nat
    BY <2>1, <2>2, FS_Subset, FS_CardinalityType
  <2>4. QED
    BY <1>4, <2>2, <2>3, FS_CardinalityType DEF BornInv
<1>5. QED
  BY <1>2, <1>3, <1>4 DEF BornInv

\* Making a document keeps it: the request that makes it no longer provisions one.
LEMMA BornGrows ==
  ASSUME IsFiniteSet(Handlers), BornInv, NEW doc, Insert(doc),
         NEW h \in Handlers, NEW new, HandlerStep(h, new), At(h, "provision") \/ stored = {},
         new.pc \in {"save_plan", "save"} => new.doc = born + 1,
         new.pc # "provision"
  PROVE  BornInv'
<1>1. handler' = [handler EXCEPT ![h] = new] /\ DOMAIN handler = Handlers
  BY DEF BornInv, HandlerStep
<1>2. /\ DOMAIN handler' = Handlers /\ handler'[h] = new
      /\ \A g \in Handlers \ {h} : handler'[g] = handler[g]
  BY <1>1
<1>3. born' = born + 1 /\ born \in Nat /\ stored' = 1..born' /\ stored \subseteq stored'
  BY DEF Insert, BornInv
<1>4. \A g \in Handlers : handler'[g].pc \in {"save_plan", "save"} => handler'[g].doc \in stored'
  BY <1>2, <1>3 DEF BornInv
<1>5. /\ IsFiniteSet(Provisioning) /\ Cardinality(Provisioning) \in Nat
      /\ Cardinality(Handlers) \in Nat
  BY FS_Subset, FS_CardinalityType DEF Provisioning
<1>6. Provisioning' \subseteq Provisioning \ {h}
  BY <1>2 DEF Provisioning, At
<1>7. CASE born = 0
  <2>1. Provisioning' \subseteq Handlers \ {h}
    BY <1>6 DEF Provisioning
  <2>2. /\ IsFiniteSet(Handlers \ {h})
        /\ Cardinality(Handlers \ {h}) = Cardinality(Handlers) - 1
    BY FS_RemoveElement
  <2>3. /\ Cardinality(Provisioning') <= Cardinality(Handlers \ {h})
        /\ Cardinality(Provisioning') \in Nat
    BY <2>1, <2>2, FS_Subset, FS_CardinalityType
  <2>4. QED
    BY <1>2, <1>3, <1>4, <1>5, <1>7, <2>2, <2>3 DEF BornInv
<1>8. CASE born # 0
  <2>1. h \in Provisioning
    BY <1>3, <1>8 DEF BornInv, Provisioning
  <2>2. /\ IsFiniteSet(Provisioning \ {h})
        /\ Cardinality(Provisioning \ {h}) = Cardinality(Provisioning) - 1
    BY <1>5, <2>1, FS_RemoveElement
  <2>3. /\ Cardinality(Provisioning') <= Cardinality(Provisioning \ {h})
        /\ Cardinality(Provisioning') \in Nat
    BY <1>6, <2>2, FS_Subset, FS_CardinalityType
  <2>4. QED
    BY <1>2, <1>3, <1>4, <1>5, <1>8, <2>2, <2>3 DEF BornInv
<1>9. QED
  BY <1>7, <1>8

\* The steps of a handler keep it.
LEMMA BornProgress ==
  ASSUME IsFiniteSet(Handlers), BillingInv, BornInv, NEW h \in Handlers, HandlerProgress(h)
  PROVE  BornInv'
<1> DEFINE x == handler[h]
<1>1. IdleHandler.pc = "idle" /\ x \in HandlerRecord
  BY DEF IdleHandler, BillingInv, HandlersGood, GoodHandler
<1>2. \A D \in SUBSET stored : D # {} => Latest(D) \in stored
  BY FoundIsStored DEF BillingInv
<1>3. CASE Lookup(h) \/ Ensure(h)
  <2>1. UNCHANGED <<born, stored>>
    BY <1>3 DEF Lookup, Ensure, store
  <2>2. ASSUME NEW D \in SUBSET stored, D # {}
        PROVE  /\ Found(h, Latest(D)).pc # "provision"
               /\ Found(h, Latest(D)).pc \in {"save_plan", "save"} =>
                    Found(h, Latest(D)).doc \in stored
    <3>1. x.kind \in Requests /\ x \in HandlerRecord
      BY <1>3 DEF BillingInv, HandlersGood, GoodHandler, RequestPc, Lookup, Ensure, At
    <3>2. Latest(D) \in stored
      BY <1>2, <2>2
    <3>3. QED
      BY <1>1, <3>1, <3>2 DEF Found, Requests, HandlerRecord
  <2>3. /\ [x EXCEPT !.pc = "ensure"].pc = "ensure"
        /\ [x EXCEPT !.pc = "provision"].pc = "provision"
    BY <1>1 DEF HandlerRecord
  <2>4. CASE Lookup(h)
    <3>1. PICK new \in {[x EXCEPT !.pc = "ensure"], Found(h, Latest(Active))} :
            HandlerStep(h, new) /\ (Active = {} => new = [x EXCEPT !.pc = "ensure"])
      BY <2>4 DEF Lookup
    <3>2. new.pc # "provision" /\ (new.pc \in {"save_plan", "save"} => new.doc \in stored)
      BY <2>2, <2>3, <3>1 DEF Active
    <3>3. QED
      BY <2>1, <3>1, <3>2, BornStays
  <2>5. CASE Ensure(h)
    <3>1. PICK new \in {[x EXCEPT !.pc = "provision"], IdleHandler, Found(h, Latest(stored))} :
            /\ HandlerStep(h, new)
            /\ stored = {} <=> new = [x EXCEPT !.pc = "provision"]
      <4>1. stored # {} => /\ Found(h, Latest(stored)) # [x EXCEPT !.pc = "provision"]
                           /\ IdleHandler # [x EXCEPT !.pc = "provision"]
        BY <1>1, <2>2, <2>3
      <4>2. QED
        BY <2>5, <4>1 DEF Ensure
    <3>2. /\ new.pc = "provision" => stored = {}
          /\ new.pc \in {"save_plan", "save"} => new.doc \in stored
      BY <1>1, <2>2, <2>3, <3>1
    <3>3. QED
      BY <2>1, <3>1, <3>2, BornStays
  <2>6. QED
    BY <1>3, <2>4, <2>5
<1>4. CASE Provision(h)
  <2> DEFINE found == [x EXCEPT !.pc = "update", !.doc = born + 1, !.copy = FreeWindow]
  <2>1. found.pc = "update"
    BY <1>1 DEF HandlerRecord
  <2>2. PICK new \in {IdleHandler, found} : HandlerStep(h, new)
    BY <1>4 DEF Provision
  <2> HIDE DEF found
  <2>3. new.pc \in {"idle", "update"}
    BY <1>1, <2>1, <2>2
  <2>4. QED
    BY <1>4, <2>2, <2>3, BornGrows DEF Provision
<1>5. CASE Increment(h)
  BY <1>1, <1>5, BornStays DEF Increment
<1>6. CASE RecordEvent(h)
  <2>1. PICK new \in {IdleHandler, [x EXCEPT !.pc = "find"]} : HandlerStep(h, new)
    BY <1>6 DEF RecordEvent
  <2>2. new.pc \in {"idle", "find"}
    BY <1>1, <2>1 DEF HandlerRecord
  <2>3. QED
    BY <1>6, <2>1, <2>2, BornStays DEF RecordEvent, store
<1>7. CASE Find(h)
  <2> DEFINE m == Received(h)
             D == ByStripe(m.sub)
             d == Latest(D)
             saving == [x EXCEPT !.pc = "save", !.doc = d, !.copy = AfterEvent(docs[d], m)]
  <2>1. UNCHANGED <<born, stored>>
    BY <1>7 DEF Find, store
  <2>2. D \in SUBSET stored
    BY DEF ByStripe
  <2>3. PICK new \in {IdleHandler, [x EXCEPT !.pc = "adopt"], saving} :
          HandlerStep(h, new) /\ (D = {} => new \in {IdleHandler, [x EXCEPT !.pc = "adopt"]})
    BY <1>7 DEF Find
  <2>4. /\ saving.pc = "save" /\ saving.doc = d
        /\ [x EXCEPT !.pc = "adopt"].pc = "adopt"
    BY <1>1 DEF HandlerRecord
  <2> HIDE DEF saving
  <2>5. /\ new.pc # "provision"
        /\ new.pc \in {"save_plan", "save"} => new.doc \in stored
    BY <1>1, <1>2, <2>2, <2>3, <2>4
  <2>6. QED
    BY <2>1, <2>3, <2>5, BornStays
<1>8. CASE Adopt(h)
  <2> DEFINE m == Received(h)
             D == IF ByStripe(m.sub) # {} THEN ByStripe(m.sub) ELSE stored
             doc == Subscription(Resolve(m), NoTime, NoTime)
  <2>1. CASE stored # {} /\ UNCHANGED store
    <3>1. D \in SUBSET stored /\ D # {}
      BY <2>1 DEF ByStripe
    <3> DEFINE d == Latest(D)
               new == [x EXCEPT !.pc = "save_plan", !.doc = d,
                                !.copy = [docs[d] EXCEPT !.plan = Resolve(m)]]
    <3>2. HandlerStep(h, new)
      BY <1>8, <2>1 DEF Adopt
    <3>3. new.pc = "save_plan" /\ new.doc = d
      BY <1>1 DEF HandlerRecord
    <3> HIDE DEF new
    <3>4. QED
      BY <1>2, <2>1, <3>1, <3>2, <3>3, BornStays DEF store
  <2>2. CASE stored = {} /\ Insert(doc)
    <3> DEFINE new == [x EXCEPT !.pc = "save", !.doc = born + 1, !.copy = AfterEvent(doc, m)]
    <3>1. HandlerStep(h, new)
      BY <1>8, <2>2 DEF Adopt
    <3>2. new.pc = "save" /\ new.doc = born + 1
      BY <1>1 DEF HandlerRecord
    <3> HIDE DEF new
    <3>3. QED
      BY <2>2, <3>1, <3>2, BornGrows
  <2>3. QED
    BY <1>8, <2>1, <2>2 DEF Adopt
<1>9. CASE SavePlan(h) \/ Save(h)
  <2>1. x.doc \in stored
    BY <1>9 DEF SavePlan, Save, At, BornInv
  <2>2. UNCHANGED <<born, stored>>
    BY <1>9, <2>1 DEF SavePlan, Save, Write, store
  <2> DEFINE saving == [x EXCEPT !.pc = "save", !.copy = AfterEvent(Copy(h), Received(h))]
  <2>3. PICK new \in {IdleHandler, saving} : HandlerStep(h, new)
    BY <1>9 DEF SavePlan, Save
  <2>4. saving.pc = "save" /\ saving.doc = x.doc
    BY <1>1 DEF HandlerRecord
  <2> HIDE DEF saving
  <2>5. /\ new.pc # "provision"
        /\ new.pc \in {"save_plan", "save"} => new.doc \in stored
    BY <1>1, <2>1, <2>3, <2>4
  <2>6. QED
    BY <2>2, <2>3, <2>5, BornStays
<1>10. QED
  BY <1>3, <1>4, <1>5, <1>6, <1>7, <1>8, <1>9 DEF HandlerProgress

\* Every step keeps it but the deletion of the account.
LEMMA BornNext ==
  ASSUME IsFiniteSet(Handlers), ~Erase, BillingInv, BornInv, [Next]_vars
  PROVE  BornInv'
<1>1. IdleHandler.pc = "idle"
  BY DEF IdleHandler
<1>2. ASSUME NEW h \in Handlers, HandlerDies(h) PROVE BornInv'
  BY <1>1, <1>2, BornStays DEF HandlerDies, store
<1>3. ASSUME NEW h \in Handlers, NEW kind \in Requests, NEW f \in Fields, Request(h, kind, f)
      PROVE  BornInv'
  <2> DEFINE new == [IdleHandler EXCEPT !.pc = IF kind = "ensure" THEN "ensure" ELSE "lookup",
                                        !.kind = kind, !.field = f, !.began = now]
  <2>1. new.pc \in {"ensure", "lookup"}
    BY DEF IdleHandler
  <2>2. HandlerStep(h, new)
    BY <1>3 DEF Request
  <2> HIDE DEF new
  <2>3. QED
    BY <1>3, <2>1, <2>2, BornStays DEF Request, store
<1>4. ASSUME NEW h \in Handlers, NEW e \in wire, Deliver(h, e) PROVE BornInv'
  <2> DEFINE new == [IdleHandler EXCEPT !.pc = "record", !.kind = "webhook", !.ev = e]
  <2>1. new.pc = "record"
    BY DEF IdleHandler
  <2>2. HandlerStep(h, new)
    BY <1>4 DEF Deliver
  <2> HIDE DEF new
  <2>3. QED
    BY <1>4, <2>1, <2>2, BornStays DEF Deliver, store
<1>5. ASSUME UNCHANGED <<born, stored, handler>> PROVE BornInv'
  BY <1>5 DEF BornInv, Provisioning, At
<1>6. ASSUME NEW s \in Subs,
             Renew(s) \/ Unpaid(s) \/ Cancel(s) \/ \E plan \in PaidPlans : Buy(s, plan)
      PROVE  BornInv'
  BY <1>5, <1>6 DEF Renew, Unpaid, Cancel, Buy, store
<1>7. CASE Tick \/ UNCHANGED vars
  BY <1>5, <1>7 DEF Tick, store, vars
<1>8. QED
  BY <1>2, <1>3, <1>4, <1>6, <1>7, BornProgress DEF Next

\* A deleted account stays deleted.
LEMMA ErasedStays ==
  ASSUME [Next]_vars, ~erased'
  PROVE  ~erased /\ ~Erase
<1>1. ~Erase
  BY DEF Erase
<1>2. ASSUME NEW h \in Handlers, HandlerProgress(h) \/ HandlerDies(h) PROVE UNCHANGED erased
  BY <1>2
     DEF HandlerProgress, HandlerDies, Lookup, Ensure, Provision, Increment, RecordEvent, Find,
         Adopt, SavePlan, Save
<1>3. ASSUME NEW h \in Handlers,
             \/ \E kind \in Requests, f \in Fields : Request(h, kind, f)
             \/ \E e \in wire : Deliver(h, e)
      PROVE  UNCHANGED erased
  <2>1. ASSUME NEW kind, NEW f, Request(h, kind, f) PROVE UNCHANGED erased
    BY <2>1 DEF Request
  <2>2. ASSUME NEW e, Deliver(h, e) PROVE UNCHANGED erased
    BY <2>2 DEF Deliver
  <2>3. QED
    BY <1>3, <2>1, <2>2
<1>4. ASSUME NEW s \in Subs,
             Renew(s) \/ Unpaid(s) \/ Cancel(s) \/ \E plan \in PaidPlans : Buy(s, plan)
      PROVE  UNCHANGED erased
  BY <1>4 DEF Renew, Unpaid, Cancel, Buy
<1>5. CASE Tick \/ UNCHANGED vars
  BY <1>1, <1>5 DEF Tick, vars
<1>6. QED
  BY <1>1, <1>2, <1>3, <1>4, <1>5 DEF Next

\* Until its account is deleted a tenant gets at most as many documents as requests are
\* served at a time, in whatever order they run: each request that provisions one read that
\* there was none.
THEOREM DocumentsBoundedAlways ==
  ASSUME IsFiniteSet(Handlers), Handlers # {}
  PROVE  Spec => []DocumentsBounded
<1> DEFINE Inv == erased \/ BornInv
<1>1. Cardinality(Handlers) \in Nat \ {0}
  BY FS_CardinalityType, FS_EmptySet
<1>2. Init => Inv
  BY DEF Init, IdleHandler, BornInv
<1>3. Inv => DocumentsBounded
  <2>1. Cardinality(Provisioning) \in Nat
    BY FS_Subset, FS_CardinalityType DEF Provisioning
  <2>2. QED
    BY <1>1, <2>1 DEF BornInv, DocumentsBounded
<1>4. BillingInv /\ Inv /\ [Next]_vars => Inv'
  <2> SUFFICES ASSUME BillingInv, Inv, [Next]_vars, ~erased' PROVE BornInv'
    OBVIOUS
  <2>1. ~Erase
    BY DEF Erase
  <2>2. ~erased
    BY ErasedStays
  <2>3. QED
    BY <2>1, <2>2, BornNext
<1>5. QED
  BY <1>2, <1>3, <1>4, InitInv, NextInv, PTL DEF Spec
-----------------------------------------------------------------------------
(* The documents follow Stripe *)

\* Stripe's story after i events: there is no subscription, before the first event and after
\* a cancellation.
Ended(i) == i = 0 \/ emitted[i].type = "deleted"

\* Each event names the plan its subscription was sold with, and a checkout tells of an
\* active one.
StoryNames ==
    \A i \in 1..Len(emitted) :
        LET m == emitted[i]
        IN  /\ stripe[m.sub].status # "none" /\ m.plan = stripe[m.sub].plan
            /\ m.type = "checkout" => m.status = "active"

\* An event tells of the subscription of the one before, or of a new one if that ended.
StoryFollows ==
    \A i \in 0..(Len(emitted) - 1) :
        IF Ended(i) THEN ~Ended(i + 1) ELSE emitted[i + 1].sub = emitted[i].sub

\* The last event tells what Stripe has.
StoryTold ==
    IF Ended(Len(emitted)) THEN Live = {}
    ELSE LET m == emitted[Len(emitted)]
         IN  Live = {m.sub} /\ stripe[m.sub].status = m.status

\* Every subscription was sold with its plan code.
SoldMarked == \A s \in Subs : stripe[s].status # "none" => stripe[s].meta = stripe[s].plan

Story == StoryNames /\ StoryFollows /\ StoryTold /\ SoldMarked

\* What a document shows when it has followed the story for i events.
Shows(doc, i) ==
    IF Ended(i) THEN doc.plan = Free /\ doc.stripe = None /\ doc.status \in ACTIVE_STATUSES
    ELSE LET m == emitted[i] IN doc.plan = m.plan /\ doc.stripe = m.sub /\ doc.status = m.status

\* A webhook between its record and its last save.
Saving(x) == x.pc = "save" /\ x.kind = "webhook"
Handling(x) == x.pc \in {"find", "adopt", "save_plan"} \/ Saving(x)

\* The handler is at the event that follows i, and its copy is what it will leave; doc is
\* the tenant's document and R the events recorded.
HandlerFollows(x, doc, R, i) ==
    /\ x.pc \in WebhookPc => x.kind = "webhook"
    /\ x.pc \in WebhookPc \/ Saving(x) => x.ev = i + 1 /\ i + 1 \in 1..Len(emitted)
    /\ R \subseteq IF Handling(x) THEN 1..(i + 1) ELSE 1..i
    /\ ~Saving(x) => Shows(doc, i)
    /\ x.pc = "save_plan" => x.copy = [doc EXCEPT !.plan = emitted[i + 1].plan]
    /\ x.pc = "save" => Shows(x.copy, IF Saving(x) THEN i + 1 ELSE i)

\* The first i events were answered, in their order.
Followed(i) ==
    /\ wire = (i + 1)..Len(emitted)
    /\ \A h \in Handlers : HandlerFollows(handler[h], docs[1], recorded, i)

\* Once Stripe tells of the tenant, the tenant has its one document, and it follows the story.
SyncInv ==
    /\ Story
    /\ Len(emitted) > 0 => stored = {1}
    /\ \E i \in 0..Len(emitted) : Followed(i)

\* The tenant has one document at most, the one that is read whenever one is.
LEMMA OneDocument ==
  ASSUME NEW h, Handlers = {h}, BillingInv, BornInv
  PROVE  /\ (stored = {} /\ born = 0) \/ (stored = {1} /\ born = 1)
         /\ \A D \in SUBSET stored : D # {} => stored = {1} /\ Latest(D) = 1
         /\ At(h, "provision") => born = 0
<1>1. IsFiniteSet(Handlers) /\ Cardinality(Handlers) = 1
  BY FS_Singleton
<1>2. IsFiniteSet(Provisioning) /\ Cardinality(Provisioning) \in Nat
  BY <1>1, FS_Subset, FS_CardinalityType DEF Provisioning
<1>3. born \in {0, 1}
  BY <1>1, <1>2 DEF BornInv
<1>4. (stored = {} /\ born = 0) \/ (stored = {1} /\ born = 1)
  <2>1. 1..0 = {} /\ 1..1 = {1}
    OBVIOUS
  <2>2. stored = 1..born
    BY DEF BornInv
  <2>3. QED
    BY <1>3, <2>1, <2>2
<1>5. \A D \in SUBSET stored : D # {} => Latest(D) \in D
  BY FoundIsStored DEF BillingInv
<1>6. At(h, "provision") => born = 0
  <2> SUFFICES ASSUME At(h, "provision") PROVE born = 0
    OBVIOUS
  <2>1. Provisioning = {h}
    BY DEF Provisioning
  <2>2. Cardinality(Provisioning) = 1
    BY <2>1, FS_Singleton
  <2>3. QED
    BY <1>1, <1>3, <2>2 DEF BornInv
<1>7. QED
  BY <1>4, <1>5, <1>6

\* What a record of a handler is after it moved on.
LEMMA HandlerFields ==
  ASSUME NEW x \in HandlerRecord, NEW pc, NEW d, NEW copy
  PROVE  /\ LET y == [x EXCEPT !.pc = pc]
            IN  y.pc = pc /\ y.kind = x.kind /\ y.ev = x.ev /\ y.copy = x.copy
         /\ LET y == [x EXCEPT !.pc = pc, !.copy = copy]
            IN  y.pc = pc /\ y.kind = x.kind /\ y.ev = x.ev /\ y.copy = copy
         /\ LET y == [x EXCEPT !.pc = pc, !.doc = d, !.copy = copy]
            IN  y.pc = pc /\ y.kind = x.kind /\ y.ev = x.ev /\ y.copy = copy
BY DEF HandlerRecord

\* A handler's step that answers nothing beyond event i, and leaves what it should, follows on.
LEMMA SyncMoves ==
  ASSUME NEW h, Handlers = {h}, BillingInv, SyncInv, NEW new, HandlerStep(h, new),
         UNCHANGED <<stripe, emitted>>,
         NEW i \in 0..Len(emitted), wire' = (i + 1)..Len(emitted),
         HandlerFollows(new, docs'[1], recorded', i), Len(emitted) > 0 => stored' = {1}
  PROVE  SyncInv'
<1>1. handler'[h] = new
  BY DEF HandlerStep, BillingInv, BillingTypeOK
<1>2. Story'
  BY DEF SyncInv, Story, StoryNames, StoryFollows, StoryTold, SoldMarked, Ended, Live
<1>3. HandlerFollows(handler[h], docs[1], recorded, i)'
  BY <1>1 DEF HandlerFollows, Shows, Ended
<1>4. Followed(i)'
  BY <1>3 DEF Followed
<1>5. QED
  BY <1>2, <1>4 DEF SyncInv

\* A handler that is at no webhook and saves nothing only has to leave the document's terms.
LEMMA SyncPlain ==
  ASSUME NEW h, Handlers = {h}, BillingInv, SyncInv, NEW new, HandlerStep(h, new),
         UNCHANGED <<stripe, emitted, wire, recorded>>,
         NEW i \in 0..Len(emitted), Followed(i), ~Handling(handler[h]),
         Shows(docs[1], i) => Shows(docs'[1], i),
         new.pc \notin {"record", "find", "adopt", "save_plan", "save"},
         Len(emitted) > 0 => stored' = {1}
  PROVE  SyncInv'
<1>1. HandlerFollows(new, docs'[1], recorded', i)
  BY DEF Followed, HandlerFollows, Handling, Saving, WebhookPc
<1>2. QED
  BY <1>1, SyncMoves DEF Followed

\* Two documents on the same terms.
SameTerms(a, b) == a.plan = b.plan /\ a.stripe = b.stripe /\ a.status = b.status

\* They show the same event.
LEMMA ShowsSame ==
  ASSUME NEW a, NEW b, SameTerms(a, b), NEW i, Shows(a, i)
  PROVE  Shows(b, i)
BY DEF Shows, SameTerms

\* A reset or an increment leaves the terms.
LEMMA TermsStay ==
  ASSUME NEW doc \in Document
  PROVE  /\ SameTerms(doc, RolledForward(doc))
         /\ \A used, start, end :
               SameTerms(doc, [doc EXCEPT !.used = used, !.start = start, !.end = end])
         /\ \A f, k : SameTerms(doc, [doc EXCEPT !.used[f] = k])
<1>1. /\ \A used, start, end :
            SameTerms(doc, [doc EXCEPT !.used = used, !.start = start, !.end = end])
      /\ \A f, k : SameTerms(doc, [doc EXCEPT !.used[f] = k])
  BY DEF SameTerms, Document
<1>2. SameTerms(doc, doc)
  BY DEF SameTerms
<1>3. SameTerms(doc, RolledForward(doc))
  <2> DEFINE new == [doc EXCEPT !.used = Unused, !.start = doc.end, !.end = doc.end + 1]
  <2>1. SameTerms(doc, new)
    BY DEF SameTerms, Document
  <2>2. RolledForward(doc) \in {doc, new}
    BY DEF RolledForward
  <2> HIDE DEF new
  <2>3. QED
    BY <1>2, <2>1, <2>2
<1>4. QED
  BY <1>1, <1>3, Zenon

\* A request that comes in leaves everything as it is.
LEMMA SyncRequest ==
  ASSUME NEW h, Handlers = {h}, BillingInv, SyncInv, NEW kind \in Requests, NEW f \in Fields,
         Request(h, kind, f)
  PROVE  SyncInv'
<1>1. PICK i \in 0..Len(emitted) : Followed(i)
  BY DEF SyncInv
<1> DEFINE new == [IdleHandler EXCEPT !.pc = IF kind = "ensure" THEN "ensure" ELSE "lookup",
                                      !.kind = kind, !.field = f, !.began = now]
<1>2. new.pc \in {"ensure", "lookup"}
  BY DEF IdleHandler
<1>3. HandlerStep(h, new) /\ UNCHANGED <<store, stripe, emitted, wire, recorded>>
  BY DEF Request
<1>4. ~Handling(handler[h])
  BY DEF Request, At, Handling, Saving
<1> HIDE DEF new
<1>5. QED
  BY <1>1, <1>2, <1>3, <1>4, SyncPlain DEF store, SyncInv

\* A request that reads the document leaves it, or goes to save it on the same terms.
LEMMA SyncRead ==
  ASSUME NEW h, Handlers = {h}, BillingInv, BornInv, SyncInv, Lookup(h) \/ Ensure(h)
  PROVE  SyncInv'
<1> DEFINE x == handler[h]
<1>1. PICK i \in 0..Len(emitted) : Followed(i)
  BY DEF SyncInv
<1>2. /\ UNCHANGED <<store, stripe, emitted, wire, recorded>>
      /\ x.pc \in {"lookup", "ensure"} /\ x.kind \in Requests /\ x \in HandlerRecord
  BY DEF Lookup, Ensure, At, BillingInv, HandlersGood, GoodHandler, RequestPc
<1>3. /\ ~Handling(x) /\ ~Saving(x) /\ wire = (i + 1)..Len(emitted)
      /\ HandlerFollows(x, docs[1], recorded, i)
  BY <1>1, <1>2 DEF Handling, Saving, Followed
<1> DEFINE held == [x EXCEPT !.doc = 1, !.copy = RolledForward(docs[1]), !.reset = Expired(docs[1])]
           saving == [held EXCEPT !.pc = "save"]
           updating == [held EXCEPT !.pc = "update"]
           ensuring == [x EXCEPT !.pc = "ensure"]
           providing == [x EXCEPT !.pc = "provision"]
<1>4. /\ IdleHandler.pc = "idle" /\ ensuring.pc = "ensure" /\ providing.pc = "provision"
      /\ updating.pc = "update" /\ saving.pc = "save"
      /\ saving.kind = x.kind /\ saving.copy = RolledForward(docs[1])
  BY <1>2 DEF HandlerRecord, IdleHandler
<1>5. Found(h, 1) \in {IdleHandler, saving, updating}
  BY <1>2 DEF Found, Requests
<1>6. \A D \in SUBSET stored : D # {} => Latest(D) = 1
  BY OneDocument
<1>7. PICK new \in {IdleHandler, ensuring, providing, saving, updating} : HandlerStep(h, new)
  <2> HIDE DEF saving, updating, ensuring, providing
  <2>1. CASE Lookup(h)
    <3>1. Active # {} => Latest(Active) = 1
      BY <1>6 DEF Active
    <3>2. QED
      BY <1>5, <2>1, <3>1 DEF Lookup, ensuring
  <2>2. CASE Ensure(h)
    <3>1. stored # {} => Latest(stored) = 1
      BY <1>6
    <3>2. QED
      BY <1>5, <2>2, <3>1 DEF Ensure, providing
  <2>3. QED
    BY <2>1, <2>2
<1> HIDE DEF held, saving, updating, ensuring, providing
<1>8. CASE new = saving
  <2>1. new.pc = "save" /\ ~Saving(new) /\ ~Handling(new)
    BY <1>2, <1>4, <1>8 DEF Saving, Handling, Requests
  <2>2. docs[1] \in Document /\ Shows(docs[1], i)
    <3>1. 1 \in Docs
      BY BillingBounds DEF Docs
    <3>2. docs[1] \in Document
      BY <3>1 DEF BillingInv, BillingTypeOK
    <3>3. QED
      BY <1>3, <3>2, Zenon DEF HandlerFollows
  <2>3. Shows(new.copy, i)
    <3>1. SameTerms(docs[1], RolledForward(docs[1]))
      BY <2>2, TermsStay, Zenon
    <3>2. PICK doc, copy : doc = docs[1] /\ copy = RolledForward(docs[1])
      OBVIOUS
    <3>3. Shows(copy, i)
      BY <2>2, <3>1, <3>2, ShowsSame
    <3>4. QED
      BY <1>4, <1>8, <3>2, <3>3
  <2>4. HandlerFollows(new, docs'[1], recorded', i)
    BY <1>2, <1>3, <2>1, <2>2, <2>3 DEF HandlerFollows, WebhookPc, store
  <2>5. QED
    BY <1>2, <1>3, <1>7, <2>4, SyncMoves DEF store, SyncInv
<1>9. CASE new # saving
  <2>1. new.pc \notin {"record", "find", "adopt", "save_plan", "save"}
    BY <1>4, <1>7, <1>9
  <2>2. QED
    BY <1>1, <1>2, <1>3, <1>7, <2>1, SyncPlain DEF store, SyncInv
<1>10. QED
  BY <1>8, <1>9

\* The document that is provisioned is on free terms, and is made before Stripe's first event.
LEMMA SyncProvision ==
  ASSUME NEW h, Handlers = {h}, BillingInv, BornInv, SyncInv, Provision(h)
  PROVE  SyncInv'
<1> DEFINE x == handler[h]
           updating == [x EXCEPT !.pc = "update", !.doc = born + 1, !.copy = FreeWindow]
<1>1. PICK i \in 0..Len(emitted) : Followed(i)
  BY DEF SyncInv
<1>2. UNCHANGED <<stripe, emitted, wire, recorded>> /\ x.pc = "provision" /\ x \in HandlerRecord
  BY DEF Provision, At, BillingInv, HandlersGood, GoodHandler
<1>3. born = 0 /\ stored = {}
  BY <1>2, OneDocument DEF At
<1>4. Len(emitted) = 0 /\ i = 0
  <2>1. Len(emitted) \in Nat
    BY DEF BillingInv, BillingTypeOK
  <2>2. QED
    BY <1>3, <2>1 DEF SyncInv
<1>5. docs'[1] = FreeWindow
  BY <1>3, BillingBounds DEF Provision, Insert, BillingInv, BillingTypeOK, Docs
<1>6. Shows(docs'[1], i)
  BY <1>4, <1>5 DEF Shows, Ended, FreeWindow, Subscription, ACTIVE_STATUSES
<1>7. updating.pc = "update" /\ IdleHandler.pc = "idle"
  BY <1>2, HandlerFields DEF IdleHandler
<1>8. PICK new \in {IdleHandler, updating} : HandlerStep(h, new)
  BY DEF Provision
<1> HIDE DEF updating
<1>9. ~Handling(x) /\ new.pc \notin {"record", "find", "adopt", "save_plan", "save"}
  BY <1>2, <1>7, <1>8 DEF Handling, Saving
<1>10. QED
  BY <1>1, <1>2, <1>4, <1>6, <1>8, <1>9, SyncPlain

\* A use changes the counters and the window of a document.
LEMMA SyncIncrement ==
  ASSUME NEW h, Handlers = {h}, BillingInv, SyncInv, Increment(h)
  PROVE  SyncInv'
<1>1. PICK i \in 0..Len(emitted) : Followed(i)
  BY DEF SyncInv
<1>2. /\ UNCHANGED <<stored, stripe, emitted, wire, recorded>> /\ HandlerStep(h, IdleHandler)
      /\ handler[h].pc = "update" /\ IdleHandler.pc = "idle"
  BY DEF Increment, At, IdleHandler
<1>3. PICK d, doc : /\ docs' = docs \/ docs' = [docs EXCEPT ![d] = doc]
                    /\ SameTerms(docs[d], doc)
  <2> DEFINE d == handler[h].doc
             f == handler[h].field
             fresher == [docs[d] EXCEPT !.used = [Unused EXCEPT ![f] = 1],
                                        !.start = Copy(h).start, !.end = Copy(h).end]
             counted == [docs[d] EXCEPT !.used[f] = docs[d].used[f] + 1]
  <2>1. docs[d] \in Document
    BY DEF BillingInv, BillingTypeOK, HandlerRecord
  <2>2. SameTerms(docs[d], fresher) /\ SameTerms(docs[d], counted)
    BY <2>1, TermsStay, Zenon
  <2>3. \/ docs' = docs \/ docs' = [docs EXCEPT ![d] = fresher]
        \/ docs' = [docs EXCEPT ![d] = counted]
    BY Zenon DEF Increment
  <2> HIDE DEF fresher, counted
  <2>4. QED
    BY <2>2, <2>3
<1>4. SameTerms(docs[1], docs'[1])
  <2>1. docs \in [Docs -> Document] /\ 1 \in Docs /\ SameTerms(docs[1], docs[1])
    BY BillingBounds DEF BillingInv, BillingTypeOK, SameTerms, Docs
  <2>2. QED
    BY <1>3, <2>1
<1>5. Shows(docs[1], i) => Shows(docs'[1], i)
  <2> PICK changed : changed = docs'[1]
    OBVIOUS
  <2>1. QED
    BY <1>4, ShowsSame
<1>6. QED
  BY <1>1, <1>2, <1>5, SyncPlain DEF Handling, Saving, SyncInv

\* The first of the events that wait is delivered.
LEMMA SyncDeliver ==
  ASSUME NEW h, Handlers = {h}, InOrder, BillingInv, SyncInv, NEW e \in wire, Deliver(h, e)
  PROVE  SyncInv'
<1> DEFINE delivered == [IdleHandler EXCEPT !.pc = "record", !.kind = "webhook", !.ev = e]
<1>1. PICK i \in 0..Len(emitted) : Followed(i)
  BY DEF SyncInv
<1>2. /\ UNCHANGED <<store, stripe, emitted, wire, recorded>> /\ HandlerStep(h, delivered)
      /\ handler[h].pc = "idle" /\ \A y \in wire : e <= y
  BY DEF Deliver, At
<1>3. delivered.pc = "record" /\ delivered.ev = e /\ delivered.kind = "webhook"
  BY DEF IdleHandler
<1> HIDE DEF delivered
<1>4. e = i + 1 /\ i + 1 \in 1..Len(emitted)
  <2>1. Len(emitted) \in Nat /\ wire = (i + 1)..Len(emitted)
    BY <1>1 DEF BillingInv, BillingTypeOK, Followed
  <2>2. i + 1 \in wire
    BY <2>1
  <2>3. QED
    BY <1>2, <2>1, <2>2
<1>5. HandlerFollows(delivered, docs'[1], recorded', i)
  <2>1. /\ ~Handling(handler[h]) /\ ~Saving(handler[h])
        /\ ~Handling(delivered) /\ ~Saving(delivered)
    BY <1>2, <1>3 DEF Handling, Saving
  <2>2. HandlerFollows(handler[h], docs[1], recorded, i)
    BY <1>1 DEF Followed
  <2>3. docs' = docs /\ recorded' = recorded
    BY <1>2 DEF store
  <2>4. QED
    BY <1>3, <1>4, <2>1, <2>2, <2>3 DEF HandlerFollows
<1>6. QED
  BY <1>1, <1>2, <1>5, SyncMoves DEF Followed, store, SyncInv

\* The event a webhook is at follows those answered, and is still to be answered.
LEMMA EventAt ==
  ASSUME NEW h, Handlers = {h}, BillingInv, SyncInv, NEW i \in 0..Len(emitted), Followed(i),
         handler[h].pc \in WebhookPc \/ Saving(handler[h])
  PROVE  /\ handler[h].ev = i + 1 /\ handler[h].kind = "webhook"
         /\ HandlerFollows(handler[h], docs[1], recorded, i)
         /\ i + 1 \in 1..Len(emitted) /\ i \in 0..(Len(emitted) - 1) /\ Len(emitted) \in Nat
         /\ stored = {1} /\ emitted[i + 1] \in StripeEvent
<1>1. HandlerFollows(handler[h], docs[1], recorded, i)
  BY DEF Followed
<1>2. handler[h].ev = i + 1 /\ i + 1 \in 1..Len(emitted) /\ handler[h].kind = "webhook"
  BY <1>1 DEF HandlerFollows, Saving
<1>3. emitted \in Seq(StripeEvent) /\ Len(emitted) \in Nat
  BY DEF BillingInv, BillingTypeOK
<1>4. QED
  BY <1>1, <1>2, <1>3 DEF SyncInv

\* An event that is delivered in its order was not recorded before.
LEMMA SyncRecord ==
  ASSUME NEW h, Handlers = {h}, BillingInv, SyncInv, RecordEvent(h)
  PROVE  SyncInv'
<1> DEFINE x == handler[h]
           finding == [x EXCEPT !.pc = "find"]
<1>1. PICK i \in 0..Len(emitted) : Followed(i)
  BY DEF SyncInv
<1>2. /\ UNCHANGED <<store, stripe, emitted>> /\ x.pc = "record" /\ x \in HandlerRecord
      /\ ~Handling(x) /\ ~Saving(x)
  BY DEF RecordEvent, At, BillingInv, HandlersGood, GoodHandler, Handling, Saving
<1>3. /\ x.ev = i + 1 /\ x.kind = "webhook" /\ HandlerFollows(x, docs[1], recorded, i)
      /\ i + 1 \in 1..Len(emitted)
  BY <1>1, <1>2, EventAt DEF WebhookPc
<1>4. recorded \subseteq 1..i /\ Shows(docs[1], i)
  BY <1>2, <1>3, Zenon DEF HandlerFollows
<1>5. x.ev \notin recorded
  BY <1>3, <1>4
<1>6. recorded' = recorded \cup {i + 1} /\ HandlerStep(h, finding) /\ UNCHANGED wire
  BY <1>3, <1>5 DEF RecordEvent
<1>7. /\ finding.pc = "find" /\ finding.ev = i + 1 /\ finding.kind = "webhook"
      /\ Handling(finding) /\ ~Saving(finding)
  BY <1>2, <1>3 DEF HandlerRecord, Handling, Saving
<1> HIDE DEF finding
<1>8. recorded' \subseteq 1..(i + 1)
  BY <1>4, <1>6
<1>9. HandlerFollows(finding, docs'[1], recorded', i)
  BY <1>2, <1>3, <1>4, <1>7, <1>8 DEF HandlerFollows, store
<1>10. QED
  BY <1>1, <1>2, <1>6, <1>9, SyncMoves DEF Followed, store, SyncInv

\* What the story says of the next event and of a document that has followed it so far.
LEMMA EventFits ==
  ASSUME BillingInv, Story, NEW i \in 0..(Len(emitted) - 1), i + 1 \in 1..Len(emitted),
         NEW doc, Shows(doc, i), NEW m \in StripeEvent, m = emitted[i + 1]
  PROVE  /\ m.plan # None /\ (m.type = "checkout" => m.status = "active")
         /\ m.type = "deleted" => doc.stripe = m.sub
         /\ doc.stripe = m.sub => doc.plan = m.plan
<1>1. /\ m.plan = stripe[m.sub].plan /\ (m.type = "checkout" => m.status = "active")
  BY DEF Story, StoryNames
<1>2. m.sub \in Subs /\ m.sub # None
  BY PlansAssumption DEF StripeEvent
<1>3. m.plan # None
  BY <1>1, <1>2, PlansAssumption DEF BillingInv, BillingTypeOK, StripeRecord, Plans
<1>4. IF Ended(i) THEN ~Ended(i + 1) ELSE m.sub = emitted[i].sub
  BY DEF Story, StoryFollows
<1>5. CASE Ended(i)
  <2>1. m.type # "deleted"
    BY <1>4, <1>5 DEF Ended
  <2>2. doc.stripe = None
    BY <1>5 DEF Shows
  <2>3. QED
    BY <1>1, <1>2, <1>3, <2>1, <2>2
<1>6. CASE ~Ended(i)
  <2>1. i \in 1..Len(emitted)
    <3>1. Len(emitted) \in Nat
      BY DEF BillingInv, BillingTypeOK
    <3>2. QED
      BY <1>6, <3>1 DEF Ended
  <2>2. emitted[i].plan = stripe[emitted[i].sub].plan
    BY <2>1 DEF Story, StoryNames
  <2>3. doc.stripe = m.sub /\ doc.plan = m.plan
    BY <1>1, <1>4, <1>6, <2>2 DEF Shows
  <2>4. QED
    BY <1>1, <1>3, <2>3
<1>7. QED
  BY <1>5, <1>6

\* What a webhook makes of a document of its event's plan shows the event.
LEMMA ShowsAfter ==
  ASSUME NEW doc \in Document, NEW m \in StripeEvent, NEW i \in Nat, m = emitted[i + 1],
         m.type = "checkout" => m.status = "active", m.type = "deleted" \/ doc.plan = m.plan
  PROVE  Shows(AfterEvent(doc, m), i + 1)
<1>1. Ended(i + 1) <=> m.type = "deleted"
  BY DEF Ended
<1>2. CASE m.type = "deleted"
  BY <1>1, <1>2
     DEF AfterEvent, AfterDelete, FreeWindow, Subscription, Shows, ACTIVE_STATUSES
<1>3. CASE m.type = "checkout"
  BY <1>1, <1>3 DEF AfterEvent, AfterCheckout, Shows, Document
<1>4. CASE m.type = "updated"
  BY <1>1, <1>4 DEF AfterEvent, AfterUpdate, Shows, Document
<1>5. QED
  BY <1>2, <1>3, <1>4 DEF StripeEvent

\* A webhook finds the document its event is about, or goes on to adopt the tenant's: none is
\* answered without a save.
LEMMA SyncFind ==
  ASSUME NEW h, Handlers = {h}, BillingInv, BornInv, SyncInv, Find(h)
  PROVE  SyncInv'
<1> DEFINE x == handler[h]
           adopting == [x EXCEPT !.pc = "adopt"]
<1>1. PICK i \in 0..Len(emitted) : Followed(i)
  BY DEF SyncInv
<1>2. /\ UNCHANGED <<store, stripe, emitted, recorded>> /\ x.pc = "find" /\ x \in HandlerRecord
      /\ Handling(x) /\ ~Saving(x)
  BY DEF Find, At, BillingInv, HandlersGood, GoodHandler, Handling, Saving
<1>3. /\ x.ev = i + 1 /\ x.kind = "webhook" /\ HandlerFollows(x, docs[1], recorded, i)
      /\ i + 1 \in 1..Len(emitted) /\ i \in 0..(Len(emitted) - 1) /\ stored = {1}
      /\ emitted[i + 1] \in StripeEvent
  BY <1>1, <1>2, EventAt DEF WebhookPc
<1>4. recorded \subseteq 1..(i + 1) /\ Shows(docs[1], i)
  BY <1>2, <1>3, Zenon DEF HandlerFollows
<1>5. PICK m \in StripeEvent : m = emitted[i + 1]
  BY <1>3
<1>6. PICK doc : doc = docs[1]
  OBVIOUS
<1>7. doc \in Document
  BY <1>6, BillingBounds DEF BillingInv, BillingTypeOK, Docs
<1>8. /\ m.plan # None /\ (m.type = "checkout" => m.status = "active")
      /\ m.type = "deleted" => doc.stripe = m.sub
      /\ doc.stripe = m.sub => doc.plan = m.plan
  BY <1>3, <1>4, <1>5, <1>6, EventFits DEF SyncInv
<1>9. m = Received(h) /\ ByStripe(m.sub) = IF doc.stripe = m.sub THEN {1} ELSE {}
  BY <1>3, <1>5, <1>6 DEF Received, ByStripe
<1>10. ByStripe(m.sub) # {} => Latest(ByStripe(m.sub)) = 1
  BY OneDocument DEF ByStripe
<1> DEFINE saving == [x EXCEPT !.pc = "save", !.doc = 1, !.copy = AfterEvent(doc, m)]
<1>11. \/ HandlerStep(h, adopting) /\ UNCHANGED wire
       \/ HandlerStep(h, saving) /\ UNCHANGED wire /\ doc.stripe = m.sub
  <2> HIDE DEF saving, adopting
  <2>1. CASE ByStripe(m.sub) # {} /\ m.type # "checkout"
    BY <1>6, <1>9, <1>10, <2>1, Zenon DEF Find, saving
  <2>2. CASE ~(ByStripe(m.sub) # {} /\ m.type # "checkout")
    <3>1. m.type # "deleted" /\ Resolve(m) # None
      BY <1>8, <1>9, <2>2 DEF Resolve
    <3>2. QED
      BY <1>9, <2>2, <3>1, Zenon DEF Find, adopting
  <2>3. QED
    BY <2>1, <2>2
<1>12. /\ adopting.pc = "adopt" /\ adopting.ev = i + 1 /\ adopting.kind = "webhook"
       /\ saving.pc = "save" /\ saving.ev = i + 1 /\ saving.kind = "webhook"
       /\ saving.copy = AfterEvent(doc, m)
  BY <1>2, <1>3, HandlerFields
<1> HIDE DEF adopting, saving
<1>13. CASE HandlerStep(h, adopting) /\ UNCHANGED wire
  <2>1. Handling(adopting) /\ ~Saving(adopting)
    BY <1>12 DEF Handling, Saving
  <2>2. HandlerFollows(adopting, docs'[1], recorded', i)
    BY <1>2, <1>3, <1>4, <1>12, <2>1 DEF HandlerFollows, store
  <2>3. QED
    BY <1>1, <1>2, <1>13, <2>2, SyncMoves DEF Followed, store, SyncInv
<1>14. CASE HandlerStep(h, saving) /\ UNCHANGED wire /\ doc.stripe = m.sub
  <2>1. Shows(saving.copy, i + 1)
    BY <1>5, <1>7, <1>8, <1>12, <1>14, ShowsAfter
  <2>2. Handling(saving) /\ Saving(saving)
    BY <1>2, <1>12, <1>14 DEF Handling, Saving
  <2>3. HandlerFollows(saving, docs'[1], recorded', i)
    BY <1>2, <1>3, <1>4, <1>12, <2>1, <2>2 DEF HandlerFollows, WebhookPc, store
  <2>4. QED
    BY <1>1, <1>2, <1>14, <2>3, SyncMoves DEF Followed, store, SyncInv
<1>15. QED
  BY <1>11, <1>13, <1>14

\* The tenant's document is adopted with the plan of the event ...
LEMMA SyncAdopt ==
  ASSUME NEW h, Handlers = {h}, BillingInv, BornInv, SyncInv, Adopt(h)
  PROVE  SyncInv'
<1> DEFINE x == handler[h]
<1>1. PICK i \in 0..Len(emitted) : Followed(i)
  BY DEF SyncInv
<1>2. /\ UNCHANGED <<stripe, emitted, wire, recorded>> /\ x.pc = "adopt" /\ x \in HandlerRecord
      /\ Handling(x) /\ ~Saving(x)
  BY DEF Adopt, At, BillingInv, HandlersGood, GoodHandler, Handling, Saving
<1>3. /\ x.ev = i + 1 /\ x.kind = "webhook" /\ HandlerFollows(x, docs[1], recorded, i)
      /\ i + 1 \in 1..Len(emitted) /\ stored = {1}
  BY <1>1, <1>2, EventAt DEF WebhookPc
<1>4. recorded \subseteq 1..(i + 1) /\ Shows(docs[1], i)
  BY <1>2, <1>3, Zenon DEF HandlerFollows
<1>5. PICK copy : copy = [docs[1] EXCEPT !.plan = emitted[i + 1].plan]
  OBVIOUS
<1>6. \A D \in SUBSET stored : D # {} => Latest(D) = 1
  BY OneDocument
<1> DEFINE adopted == [x EXCEPT !.pc = "save_plan", !.doc = 1, !.copy = copy]
<1>7. HandlerStep(h, adopted) /\ UNCHANGED store
  <2> DEFINE m == Received(h)
             D == IF ByStripe(m.sub) # {} THEN ByStripe(m.sub) ELSE stored
  <2>1. D \in SUBSET stored /\ D # {}
    BY <1>3 DEF ByStripe
  <2>2. Latest(D) = 1
    BY <1>6, <2>1
  <2>3. Resolve(m) = emitted[i + 1].plan
    BY <1>3 DEF Resolve, Received
  <2>4. /\ HandlerStep(h, [x EXCEPT !.pc = "save_plan", !.doc = Latest(D),
                                     !.copy = [docs[Latest(D)] EXCEPT !.plan = Resolve(m)]])
        /\ UNCHANGED store
    <3>1. stored # {}
      BY <1>3
    <3>2. QED
      BY <3>1, Zenon DEF Adopt
  <2> HIDE DEF D, m
  <2>5. QED
    BY <1>5, <2>2, <2>3, <2>4
<1>8. /\ adopted.pc = "save_plan" /\ adopted.ev = i + 1 /\ adopted.kind = "webhook"
      /\ adopted.copy = copy
  BY <1>2, <1>3, HandlerFields
<1> HIDE DEF adopted
<1>9. Handling(adopted) /\ ~Saving(adopted)
  BY <1>8 DEF Handling, Saving
<1>10. HandlerFollows(adopted, docs'[1], recorded', i)
  BY <1>2, <1>3, <1>4, <1>5, <1>7, <1>8, <1>9 DEF HandlerFollows, WebhookPc, store
<1>11. QED
  BY <1>1, <1>2, <1>7, <1>10, SyncMoves DEF Followed, store, SyncInv

\* The one document clashes with no other.
LEMMA NoClash ==
  ASSUME stored = {1}, NEW d \in stored, NEW doc
  PROVE  ~Clash(d, doc)
BY DEF Clash

\* ... which is saved, and the rest of the event goes into the copy.
LEMMA SyncSavePlan ==
  ASSUME NEW h, Handlers = {h}, BillingInv, BornInv, SyncInv, SavePlan(h)
  PROVE  SyncInv'
<1> DEFINE x == handler[h]
<1>1. PICK i \in 0..Len(emitted) : Followed(i)
  BY DEF SyncInv
<1>2. /\ UNCHANGED <<stripe, emitted, wire, recorded>> /\ x.pc = "save_plan" /\ x \in HandlerRecord
      /\ Handling(x) /\ ~Saving(x) /\ x.doc \in stored
  BY DEF SavePlan, At, BillingInv, HandlersGood, GoodHandler, Handling, Saving, BornInv
<1>3. /\ x.ev = i + 1 /\ x.kind = "webhook" /\ HandlerFollows(x, docs[1], recorded, i)
      /\ i + 1 \in 1..Len(emitted) /\ i \in 0..(Len(emitted) - 1) /\ stored = {1}
      /\ emitted[i + 1] \in StripeEvent
  BY <1>1, <1>2, EventAt DEF WebhookPc
<1>4. recorded \subseteq 1..(i + 1) /\ Shows(docs[1], i)
  BY <1>2, <1>3, Zenon DEF HandlerFollows
<1>5. PICK m \in StripeEvent : m = emitted[i + 1]
  BY <1>3
<1>6. PICK copy \in Document : copy = x.copy
  BY <1>2 DEF HandlerRecord
<1>7. copy.plan = m.plan
  <2>1. x.copy = [docs[1] EXCEPT !.plan = emitted[i + 1].plan]
    BY <1>2, <1>3, Zenon DEF HandlerFollows
  <2>2. docs[1] \in Document
    BY BillingBounds DEF BillingInv, BillingTypeOK, Docs
  <2>3. QED
    BY <1>5, <1>6, <2>1, <2>2 DEF Document
<1>8. m.type = "checkout" => m.status = "active"
  BY <1>3, <1>5 DEF SyncInv, Story, StoryNames
<1>9. PICK after : after = AfterEvent(copy, m)
  OBVIOUS
<1>10. Shows(after, i + 1)
  <2>1. Shows(AfterEvent(copy, m), i + 1)
    BY <1>5, <1>7, <1>8, ShowsAfter
  <2>2. QED
    BY <1>9, <2>1
<1> DEFINE saving == [x EXCEPT !.pc = "save", !.copy = after]
<1>11. HandlerStep(h, saving) /\ stored' = stored
  <2>1. ~Clash(x.doc, Copy(h)) /\ Received(h) = m /\ Copy(h) = copy
    BY <1>2, <1>3, <1>5, <1>6, NoClash DEF Received, Copy
  <2>2. Write(x.doc, Copy(h)) /\ HandlerStep(h, [x EXCEPT !.pc = "save",
                                                   !.copy = AfterEvent(Copy(h), Received(h))])
    BY <2>1, Zenon DEF SavePlan
  <2>3. stored' = stored
    BY <1>2, <2>2 DEF Write
  <2>4. QED
    BY <1>9, <2>1, <2>2, <2>3
<1>12. /\ saving.pc = "save" /\ saving.ev = i + 1 /\ saving.kind = "webhook"
       /\ saving.copy = after
  BY <1>2, <1>3, HandlerFields
<1> HIDE DEF saving
<1>13. Handling(saving) /\ Saving(saving)
  BY <1>12 DEF Handling, Saving
<1>14. HandlerFollows(saving, docs'[1], recorded', i)
  BY <1>2, <1>3, <1>4, <1>10, <1>12, <1>13 DEF HandlerFollows, WebhookPc
<1>15. QED
  BY <1>1, <1>2, <1>3, <1>11, <1>14, SyncMoves DEF Followed

\* The last save of a webhook answers its event, and the document shows it; that of a check
\* leaves the terms.
LEMMA SyncSave ==
  ASSUME NEW h, Handlers = {h}, BillingInv, BornInv, SyncInv, Save(h)
  PROVE  SyncInv'
<1> DEFINE x == handler[h]
<1>1. PICK i \in 0..Len(emitted) : Followed(i)
  BY DEF SyncInv
<1>2. /\ UNCHANGED <<stripe, emitted, recorded>> /\ HandlerStep(h, IdleHandler) /\ x.pc = "save"
      /\ x.doc \in stored /\ HandlerFollows(x, docs[1], recorded, i) /\ Len(emitted) \in Nat
  BY <1>1 DEF Save, At, BornInv, Followed, BillingInv, BillingTypeOK
<1>3. stored = {1} /\ x.doc = 1
  BY <1>2, OneDocument
<1>4. ~Clash(x.doc, Copy(h))
  BY <1>2, <1>3, NoClash
<1>5. docs'[1] = x.copy /\ stored' = {1}
  <2>1. Write(x.doc, Copy(h))
    BY <1>4 DEF Save
  <2>2. docs \in [Docs -> Document] /\ 1 \in Docs
    BY BillingBounds DEF BillingInv, BillingTypeOK, Docs
  <2>3. QED
    BY <1>3, <2>1, <2>2 DEF Write, Copy
<1>6. /\ IdleHandler.pc = "idle" /\ ~Handling(IdleHandler) /\ ~Saving(IdleHandler)
  BY DEF IdleHandler, Handling, Saving
<1>7. CASE Saving(x)
  <2>1. /\ x.ev = i + 1 /\ recorded \subseteq 1..(i + 1) /\ Shows(x.copy, i + 1)
        /\ i + 1 \in 1..Len(emitted)
    BY <1>2, <1>7, Zenon DEF HandlerFollows, Handling
  <2>2. i + 1 \in 0..Len(emitted) /\ wire' = ((i + 1) + 1)..Len(emitted)
    <3>1. wire' = wire \ {i + 1} /\ wire = (i + 1)..Len(emitted)
      BY <1>1, <1>4, <1>7, <2>1 DEF Save, Answer, Saving, Followed
    <3>2. QED
      BY <1>2, <2>1, <3>1
  <2>3. HandlerFollows(IdleHandler, docs'[1], recorded', i + 1)
    BY <1>2, <1>5, <1>6, <2>1 DEF HandlerFollows, WebhookPc
  <2>4. QED
    BY <1>2, <1>5, <2>2, <2>3, SyncMoves
<1>8. CASE ~Saving(x)
  <2>1. wire' = (i + 1)..Len(emitted)
    BY <1>1, <1>2, <1>4, <1>8 DEF Save, Saving, Followed
  <2>2. recorded \subseteq 1..i /\ Shows(x.copy, i)
    BY <1>2, <1>8 DEF HandlerFollows, Handling
  <2>3. HandlerFollows(IdleHandler, docs'[1], recorded', i)
    BY <1>2, <1>5, <1>6, <2>2 DEF HandlerFollows, WebhookPc
  <2>4. QED
    BY <1>2, <1>5, <2>1, <2>3, SyncMoves
<1>9. QED
  BY <1>7, <1>8

\* What a document shows does not change when Stripe's story goes on ...
LEMMA ShowsStill ==
  ASSUME \A i \in 1..Len(emitted) : emitted'[i] = emitted[i],
         NEW doc, NEW i \in 0..Len(emitted)
  PROVE  (Ended(i)' <=> Ended(i)) /\ (Shows(doc, i)' <=> Shows(doc, i))
<1>1. i = 0 \/ emitted'[i] = emitted[i]
  OBVIOUS
<1>2. QED
  BY <1>1 DEF Ended, Shows

\* ... nor does where a handler is in it.
LEMMA FollowsStill ==
  ASSUME \A i \in 1..Len(emitted) : emitted'[i] = emitted[i], Len(emitted) \in Nat,
         Len(emitted') \in Nat, Len(emitted) <= Len(emitted'),
         NEW x, NEW doc, NEW R, NEW i \in 0..Len(emitted), HandlerFollows(x, doc, R, i)
  PROVE  HandlerFollows(x, doc, R, i)'
<1>1. x.pc \in WebhookPc \/ Saving(x) => /\ x.ev = i + 1 /\ i + 1 \in 1..Len(emitted)
                                         /\ i + 1 \in 1..Len(emitted')
  <2>1. i + 1 \in 1..Len(emitted) => i + 1 \in 1..Len(emitted')
    OBVIOUS
  <2>2. QED
    BY <2>1, Zenon DEF HandlerFollows
<1>2. Shows(doc, i)' <=> Shows(doc, i)
  BY ShowsStill
<1>3. x.pc = "save" => Shows(x.copy, IF Saving(x) THEN i + 1 ELSE i)'
  <2>1. CASE Saving(x)
    <3> SUFFICES ASSUME x.pc = "save" PROVE Shows(x.copy, i + 1)'
      BY <2>1
    <3>1. Shows(x.copy, i + 1)
      BY <2>1, Zenon DEF HandlerFollows
    <3>2. i + 1 \in 0..Len(emitted)
      BY <1>1, <2>1
    <3>3. QED
      BY <3>1, <3>2, ShowsStill
  <2>2. CASE ~Saving(x)
    <3> SUFFICES ASSUME x.pc = "save" PROVE Shows(x.copy, i)'
      BY <2>2
    <3>1. Shows(x.copy, i)
      BY <2>2, Zenon DEF HandlerFollows
    <3>2. QED
      BY <3>1, ShowsStill
  <2>3. QED
    BY <2>1, <2>2
<1>4. x.pc = "save_plan" => x.copy = [doc EXCEPT !.plan = emitted'[i + 1].plan]
  BY <1>1 DEF HandlerFollows, WebhookPc
<1>5. QED
  BY <1>1, <1>2, <1>3, <1>4, Zenon DEF HandlerFollows, Saving, Handling

\* Stripe tells of the subscription that lives, or of a new one while none does: the story
\* goes on and nobody has to be elsewhere in it.
LEMMA StoryGrows ==
  ASSUME NEW h, Handlers = {h}, BillingInv, BornInv, SyncInv, NEW s \in Subs,
         NEW x \in StripeRecord, stripe' = [stripe EXCEPT ![s] = x], x.status # "none",
         x.meta = x.plan, stripe[s].status # "none" => x.plan = stripe[s].plan,
         NEW ms \in Seq(StripeEvent), Len(ms) # 0, Emit(ms),
         \A k \in 1..Len(ms) : /\ ms[k].sub = s /\ ms[k].plan = x.plan /\ ms[k].status = x.status
                               /\ ms[k].type = "checkout" => x.status = "active",
         \A k \in 1..(Len(ms) - 1) : ms[k].type # "deleted",
         ms[Len(ms)].type = "deleted" <=> x.status = "canceled",
         (Live = {} /\ stored # {} /\ ms[1].type # "deleted") \/ Live = {s},
         UNCHANGED <<store, recorded, handler>>
  PROVE  SyncInv'
<1>0. PICK n \in Nat : n = Len(emitted)
  BY DEF BillingInv, BillingTypeOK
<1> DEFINE N == n + Len(ms)
<1>1. n \in Nat /\ Len(ms) \in Nat /\ N \in Nat /\ Len(emitted') = N
  BY <1>0 DEF BillingInv, BillingTypeOK, Emit
<1>2. /\ \A i \in 1..n : emitted'[i] = emitted[i]
      /\ \A k \in 1..Len(ms) : emitted'[n + k] = ms[k]
  BY <1>0 DEF BillingInv, BillingTypeOK, Emit
<1>3. /\ stripe'[s] = x
      /\ \A t \in Subs \ {s} : stripe'[t] = stripe[t]
  BY DEF BillingInv, BillingTypeOK
<1>4. \A i \in 1..n : emitted[i].sub \in Subs
  <2>1. emitted \in Seq(StripeEvent)
    BY DEF BillingInv, BillingTypeOK
  <2>2. \A i \in 1..n : emitted[i] \in StripeEvent
    BY <1>0, <2>1
  <2>3. QED
    BY <2>2 DEF StripeEvent
<1>5. \A i \in 0..n : Ended(i)' <=> Ended(i)
  BY <1>0, <1>2, ShowsStill
<1>6. Story
  BY DEF SyncInv
<1>7. StoryNames'
  <2>1. ASSUME NEW i \in 1..N, NEW m, m = emitted'[i]
        PROVE  /\ stripe'[m.sub].status # "none" /\ m.plan = stripe'[m.sub].plan
               /\ m.type = "checkout" => m.status = "active"
    <3>1. CASE i \in 1..n
      <4>1. m = emitted[i] /\ m.sub \in Subs
        BY <1>2, <1>4, <2>1, <3>1
      <4>2. /\ stripe[m.sub].status # "none" /\ m.plan = stripe[m.sub].plan
            /\ m.type = "checkout" => m.status = "active"
        BY <1>0, <1>6, <3>1, <4>1 DEF Story, StoryNames
      <4>3. QED
        BY <1>3, <4>1, <4>2
    <3>2. CASE i \notin 1..n
      <4>1. i - n \in 1..Len(ms) /\ i = n + (i - n)
        BY <1>1, <3>2
      <4>2. m = ms[i - n]
        BY <1>2, <2>1, <4>1
      <4>3. QED
        BY <1>3, <4>1, <4>2
    <3>3. QED
      BY <3>1, <3>2
  <2>2. QED
    BY <1>1, <2>1 DEF StoryNames
<1>8. StoryFollows'
  <2>1. ASSUME NEW i \in 0..(N - 1)
        PROVE  IF Ended(i)' THEN ~(Ended(i + 1)') ELSE emitted'[i + 1].sub = emitted'[i].sub
    <3>1. CASE i < n
      <4>1. i \in 0..(n - 1) /\ i \in 0..n /\ i + 1 \in 1..n /\ i + 1 \in 0..n
        BY <1>1, <3>1
      <4>2. IF Ended(i) THEN ~Ended(i + 1) ELSE emitted[i + 1].sub = emitted[i].sub
        BY <1>0, <1>6, <4>1 DEF Story, StoryFollows
      <4>3. /\ Ended(i)' <=> Ended(i)
            /\ Ended(i + 1)' <=> Ended(i + 1)
            /\ emitted'[i + 1] = emitted[i + 1]
            /\ ~Ended(i) => emitted'[i] = emitted[i]
        <5>1. ~Ended(i) => i \in 1..n
          BY <4>1, <1>1 DEF Ended
        <5>2. QED
          BY <1>2, <1>5, <4>1, <5>1
      <4>4. QED
        BY <4>2, <4>3
    <3>2. CASE i = n
      <4>1. emitted'[n + 1] = ms[1] /\ 1 \in 1..Len(ms) /\ i \in 0..n
        BY <1>1, <1>2, <3>2
      <4>2. CASE Ended(n)
        <5>1. Live = {}
          BY <1>0, <1>6, <4>2 DEF Story, StoryTold
        <5>2. ms[1].type # "deleted"
          BY <5>1
        <5>3. n + 1 # 0
          BY <1>1
        <5>4. ~(Ended(n + 1)')
          BY <4>1, <5>2, <5>3 DEF Ended
        <5>5. QED
          BY <1>5, <3>2, <4>1, <4>2, <5>4
      <4>3. CASE ~Ended(n)
        <5>1. Live = {emitted[n].sub}
          BY <1>0, <1>6, <4>3 DEF Story, StoryTold
        <5>2. emitted[n].sub = s
          BY <5>1
        <5>3. emitted'[n] = emitted[n]
          BY <1>1, <1>2, <4>3 DEF Ended
        <5>4. ms[1].sub = s
          BY <4>1
        <5>5. QED
          BY <1>5, <3>2, <4>1, <4>3, <5>2, <5>3, <5>4
      <4>4. QED
        BY <4>2, <4>3
    <3>3. CASE i > n
      <4>1. /\ i - n \in 1..(Len(ms) - 1) /\ i - n \in 1..Len(ms) /\ i = n + (i - n)
            /\ i - n + 1 \in 1..Len(ms) /\ i + 1 = n + (i - n + 1) /\ i # 0
        <5>1. /\ i \in Int /\ n \in Nat /\ Len(ms) \in Nat
              /\ i <= n + Len(ms) - 1 /\ i > n
          BY <1>1, <3>3
        <5> PICK L \in Nat : L = Len(ms)
          BY <5>1
        <5>2. QED
          BY <5>1
      <4>2. emitted'[i] = ms[i - n] /\ emitted'[i + 1] = ms[i - n + 1]
        BY <1>2, <4>1
      <4>3. ~(Ended(i)')
        BY <4>1, <4>2 DEF Ended
      <4>4. QED
        BY <4>1, <4>2, <4>3
    <3>4. QED
      BY <1>1, <3>1, <3>2, <3>3
  <2>2. QED
    BY <1>1, <2>1 DEF StoryFollows
<1>9. emitted'[N] = ms[Len(ms)] /\ Len(ms) \in 1..Len(ms) /\ N # 0
  BY <1>1, <1>2
<1>10. StoryTold'
  <2>1. Ended(N)' <=> x.status = "canceled"
    BY <1>9 DEF Ended
  <2>2. Live \subseteq {s}
    OBVIOUS
  <2>3. Live' = IF x.status = "canceled" THEN {} ELSE {s}
    <3>1. ASSUME NEW t \in Subs \ {s} PROVE stripe'[t].status \notin {"active", "unpaid"}
      BY <1>3, <2>2 DEF Live
    <3>2. x.status = "canceled" \/ x.status \in {"active", "unpaid"}
      BY DEF StripeRecord
    <3>3. QED
      BY <1>3, <3>1, <3>2 DEF Live
  <2>4. emitted'[N].sub = s /\ emitted'[N].status = x.status
    BY <1>9
  <2>5. QED
    BY <1>1, <1>3, <2>1, <2>3, <2>4 DEF StoryTold
<1>11. SoldMarked'
  BY <1>3, <1>6 DEF SoldMarked, Story
<1>12. stored' = {1}
  <2>1. stored # {}
    <3>1. CASE Live = {s}
      <4>1. n # 0
        BY <1>0, <1>6, <3>1 DEF Story, StoryTold, Ended
      <4>2. QED
        <5>1. Len(emitted) > 0 => stored = {1}
          BY DEF SyncInv
        <5>2. stored = {1}
          BY <1>0, <4>1, <5>1
        <5>3. QED
          BY <5>2
    <3>2. QED
      BY <3>1
  <2>2. QED
    BY <2>1, OneDocument DEF store
<1>13. PICK i \in 0..n : Followed(i)
  BY <1>0 DEF SyncInv
<1>14. Followed(i)'
  <2>1. wire' = (i + 1)..N
    <3>1. wire' = (i + 1)..n \cup n + 1 .. n + Len(ms)
      BY <1>0, <1>13 DEF Followed, Emit
    <3>2. QED
      BY <1>1, <3>1
  <2>2. ASSUME NEW g \in Handlers PROVE HandlerFollows(handler[g], docs[1], recorded, i)'
    <3>1. PICK y, doc, R : y = handler[g] /\ doc = docs[1] /\ R = recorded
      OBVIOUS
    <3>2. HandlerFollows(y, doc, R, i)
      BY <1>13, <3>1 DEF Followed
    <3>3. n <= N
      BY <1>1
    <3>4. HandlerFollows(y, doc, R, i)'
      BY <1>1, <1>2, <3>2, <3>3, <1>0, FollowsStill
    <3>5. handler'[g] = y /\ docs'[1] = doc /\ recorded' = R
      BY <3>1 DEF store
    <3>6. QED
      BY <3>4, <3>5
  <2>3. QED
    BY <1>1, <2>1, <2>2 DEF Followed
<1>15. i \in 0..N
  BY <1>1
<1>16. QED
  BY <1>1, <1>6, <1>7, <1>8, <1>10, <1>11, <1>12, <1>14, <1>15 DEF SyncInv, Story

\* A checkout, a renewal, a failed payment and a cancellation are such steps.
LEMMA SyncStripe ==
  ASSUME NEW h, Handlers = {h}, "buy_second" \notin Happens, "buy_unmarked" \notin Happens,
         BillingInv, BornInv, SyncInv, NEW s \in Subs,
         Renew(s) \/ Unpaid(s) \/ Cancel(s) \/ \E plan \in PaidPlans : Buy(s, plan)
  PROVE  SyncInv'
<1>1. stripe \in [Subs -> StripeRecord] /\ now \in Nat
  BY DEF BillingInv, BillingTypeOK
<1>2. UNCHANGED <<store, recorded, handler>>
  BY DEF Renew, Unpaid, Cancel, Buy
<1>3. stripe[s].status # "none" => stripe[s].meta = stripe[s].plan
  BY DEF SyncInv, Story, SoldMarked
<1>4. \A t : t \in Live => Live = {t}
  BY DEF SyncInv, Story, StoryTold
<1>5. ASSUME NEW plan \in PaidPlans, Buy(s, plan) PROVE SyncInv'
  <2> DEFINE y == [plan |-> plan, meta |-> plan, status |-> "active", start |-> now]
  <2>1. /\ Live = {} /\ stored # {} /\ stripe[s].status = "none"
        /\ stripe' = [stripe EXCEPT ![s] = y]
    BY <1>5 DEF Buy, Event
  <2>2. /\ y \in StripeRecord /\ y.status = "active" /\ y.meta = y.plan
    BY <1>1, PlansAssumption DEF StripeRecord, Plans
  <2>3. PICK x \in StripeRecord : x = y
    BY <2>2
  <2> HIDE DEF y
  <2>4. stripe'[s] = x
    BY <1>1, <2>1, <2>3
  <2>5. PICK u, c : u = Message(s, "updated") /\ c = Message(s, "checkout")
    OBVIOUS
  <2>6. \A m \in {u, c} : /\ m \in StripeEvent /\ m.sub = s /\ m.plan = x.plan
                          /\ m.status = x.status /\ m.type # "deleted"
    <3>1. u \in StripeEvent /\ c \in StripeEvent
      BY <2>2, <2>3, <2>4, <2>5, MessageType
    <3>2. QED
      BY <2>2, <2>3, <2>4, <2>5, <3>1 DEF Message
  <2>7. PICK ms \in {<<u, c>>, <<c, u>>} : Emit(ms)
    BY <1>5, <2>5 DEF Buy
  <2>8. /\ ms \in Seq(StripeEvent) /\ Len(ms) = 2 /\ \A k \in 1..2 : ms[k] \in {u, c}
    <3>1. ASSUME NEW a \in {u, c}, NEW b \in {u, c}, ms = <<a, b>>
          PROVE  /\ ms \in Seq(StripeEvent) /\ Len(ms) = 2
                 /\ ms[1] \in {u, c} /\ ms[2] \in {u, c}
      BY <2>6, <3>1
    <3>2. QED
      BY <3>1
  <2>9. \A k \in 1..Len(ms) : /\ ms[k].sub = s /\ ms[k].plan = x.plan /\ ms[k].status = x.status
                              /\ ms[k].type = "checkout" => x.status = "active"
    BY <2>2, <2>3, <2>6, <2>8
  <2>10. ms[1].type # "deleted" /\ ms[2].type # "deleted"
    BY <2>6, <2>8
  <2>11. /\ stripe' = [stripe EXCEPT ![s] = x] /\ x.status # "none" /\ x.meta = x.plan
         /\ stripe[s].status # "none" => x.plan = stripe[s].plan
    BY <2>1, <2>2, <2>3
  <2>12. /\ Len(ms) # 0 /\ \A k \in 1..(Len(ms) - 1) : ms[k].type # "deleted"
         /\ ms[Len(ms)].type = "deleted" <=> x.status = "canceled"
    BY <2>2, <2>3, <2>8, <2>10
  <2>13. (Live = {} /\ stored # {} /\ ms[1].type # "deleted") \/ Live = {s}
    BY <2>1, <2>10
  <2>14. QED
    BY <1>2, <2>7, <2>8, <2>9, <2>11, <2>12, <2>13, StoryGrows
<1>6. ASSUME NEW x \in StripeRecord, NEW type \in {"updated", "deleted"}, s \in Live,
             x.plan = stripe[s].plan, x.meta = stripe[s].meta, x.status # "none",
             type = "deleted" <=> x.status = "canceled",
             stripe' = [stripe EXCEPT ![s] = x], Emit(<<Message(s, type)>>)
      PROVE  SyncInv'
  <2>1. stripe'[s] = x /\ x.meta = x.plan /\ Live = {s}
    BY <1>1, <1>3, <1>4, <1>6 DEF Live
  <2>2. PICK m : m = Message(s, type)
    OBVIOUS
  <2>3. /\ m \in StripeEvent /\ m.sub = s /\ m.plan = x.plan /\ m.status = x.status
        /\ m.type = type
    <3>1. m \in StripeEvent
      BY <1>6, <2>1, <2>2, MessageType
    <3>2. QED
      BY <2>1, <2>2, <3>1 DEF Message
  <2>4. PICK ms : ms = <<m>>
    OBVIOUS
  <2>5. ms \in Seq(StripeEvent) /\ Len(ms) = 1 /\ ms[1] = m
    BY <2>3, <2>4
  <2>6. Emit(ms)
    BY <1>6, <2>2, <2>4
  <2>7. \A k \in 1..Len(ms) : /\ ms[k].sub = s /\ ms[k].plan = x.plan /\ ms[k].status = x.status
                              /\ ms[k].type = "checkout" => x.status = "active"
    BY <2>3, <2>5
  <2>8. /\ Len(ms) # 0 /\ \A k \in 1..(Len(ms) - 1) : ms[k].type # "deleted"
        /\ ms[Len(ms)].type = "deleted" <=> x.status = "canceled"
    BY <1>6, <2>3, <2>5
  <2>9. (Live = {} /\ stored # {} /\ ms[1].type # "deleted") \/ Live = {s}
    BY <2>1
  <2>10. QED
    BY <1>2, <1>6, <2>1, <2>5, <2>6, <2>7, <2>8, <2>9, StoryGrows
<1>7. CASE Renew(s)
  <2> DEFINE x == [stripe[s] EXCEPT !.start = @ + 1, !.status = "active"]
  <2>1. /\ x \in StripeRecord /\ x.plan = stripe[s].plan /\ x.meta = stripe[s].meta
        /\ x.status = "active"
    <3>1. stripe[s] \in StripeRecord /\ stripe[s].start + 1 \in Nat
      BY <1>1 DEF StripeRecord
    <3>2. QED
      BY <3>1 DEF StripeRecord
  <2>2. stripe' = [stripe EXCEPT ![s] = x]
    BY <1>1, <1>7 DEF Renew
  <2> HIDE DEF x
  <2>3. PICK y : y = x
    OBVIOUS
  <2>4. QED
    BY <1>6, <1>7, <2>1, <2>2, <2>3 DEF Renew
<1>8. CASE Unpaid(s)
  <2> DEFINE x == [stripe[s] EXCEPT !.status = "unpaid"]
  <2>1. /\ x \in StripeRecord /\ x.plan = stripe[s].plan /\ x.meta = stripe[s].meta
        /\ x.status = "unpaid" /\ s \in Live
    BY <1>1, <1>8 DEF Unpaid, StripeRecord, Live
  <2>2. stripe' = [stripe EXCEPT ![s] = x]
    BY <1>8 DEF Unpaid
  <2> HIDE DEF x
  <2>3. PICK y : y = x
    OBVIOUS
  <2>4. QED
    BY <1>6, <1>8, <2>1, <2>2, <2>3 DEF Unpaid
<1>9. CASE Cancel(s)
  <2> DEFINE x == [stripe[s] EXCEPT !.status = "canceled"]
  <2>1. /\ x \in StripeRecord /\ x.plan = stripe[s].plan /\ x.meta = stripe[s].meta
        /\ x.status = "canceled"
    BY <1>1, <1>9 DEF StripeRecord
  <2>2. stripe' = [stripe EXCEPT ![s] = x]
    BY <1>9 DEF Cancel
  <2> HIDE DEF x
  <2>3. PICK y : y = x
    OBVIOUS
  <2>4. QED
    BY <1>6, <1>9, <2>1, <2>2, <2>3 DEF Cancel
<1>10. QED
  BY <1>5, <1>7, <1>8, <1>9

\* The story begins with nothing told and the document as blank.
LEMMA SyncInit == Init => SyncInv
<1> SUFFICES ASSUME Init PROVE SyncInv
  OBVIOUS
<1>1. /\ Len(emitted) = 0 /\ wire = {} /\ recorded = {} /\ docs[1] = Blank
      /\ \A s \in Subs : stripe[s].status = "none"
      /\ \A h \in Handlers : handler[h] = IdleHandler
  BY BillingBounds DEF Init, Docs
<1>2. Story
  BY <1>1 DEF Story, StoryNames, StoryFollows, StoryTold, SoldMarked, Ended, Live
<1>3. HandlerFollows(IdleHandler, Blank, {}, 0)
  BY DEF HandlerFollows, IdleHandler, Blank, Subscription, Handling, Saving, WebhookPc, Shows,
         Ended, ACTIVE_STATUSES
<1>4. Followed(0)
  BY <1>1, <1>3 DEF Followed
<1>5. QED
  BY <1>1, <1>2, <1>4 DEF SyncInv

\* Every step keeps it but the deletion of the account, if nothing dies.
LEMMA SyncNext ==
  ASSUME NEW h, Handlers = {h}, InOrder, ~Erase,
         Happens \cap {"buy_second", "buy_unmarked", "crash"} = {},
         BillingInv, BornInv, SyncInv, [Next]_vars
  PROVE  SyncInv'
<1>1. "crash" \notin Happens /\ "buy_second" \notin Happens /\ "buy_unmarked" \notin Happens
  OBVIOUS
<1>2. ASSUME HandlerProgress(h) PROVE SyncInv'
  BY <1>2, SyncRead, SyncProvision, SyncIncrement, SyncRecord, SyncFind, SyncAdopt,
     SyncSavePlan, SyncSave
     DEF HandlerProgress
<1>3. ASSUME UNCHANGED <<docs, stored, stripe, emitted, wire, recorded, handler>>
      PROVE  SyncInv'
  BY <1>3
     DEF SyncInv, Story, StoryNames, StoryFollows, StoryTold, SoldMarked, Ended, Live, Followed,
         HandlerFollows, Shows
<1>4. CASE Tick \/ UNCHANGED vars
  BY <1>3, <1>4 DEF Tick, vars, store
<1>5. \A g \in Handlers : ~HandlerDies(g)
  BY <1>1 DEF HandlerDies, Event
<1>6. QED
  BY <1>1, <1>2, <1>4, <1>5, SyncRequest, SyncDeliver, SyncStripe DEF Next

\* When nothing is on its way, the document shows the last event, which tells what Stripe has.
LEMMA SyncShows ==
  ASSUME NEW h, Handlers = {h}, BillingInv, BornInv, SyncInv
  PROVE  InSync
<1> SUFFICES ASSUME Quiet, stored # {}
             PROVE  IF Live = {} THEN Shown.plan = Free /\ Shown.status \in ACTIVE_STATUSES
                    ELSE \E s \in Live :
                           /\ Shown.plan = stripe[s].plan
                           /\ Shown.stripe = s
                           /\ Shown.status \in ACTIVE_STATUSES <=> stripe[s].status = "active"
  BY DEF InSync
<1>1. Shown = docs[1]
  BY OneDocument DEF Shown
<1>2. PICK i \in 0..Len(emitted) : Followed(i)
  BY DEF SyncInv
<1>3. i = Len(emitted)
  <2>1. Len(emitted) \in Nat
    BY DEF BillingInv, BillingTypeOK
  <2>2. (i + 1)..Len(emitted) = {}
    BY <1>2 DEF Followed, Quiet
  <2>3. i < Len(emitted) => i + 1 \in (i + 1)..Len(emitted)
    BY <2>1
  <2>4. QED
    BY <2>1, <2>2, <2>3
<1>4. Shows(docs[1], i)
  <2>1. HandlerFollows(handler[h], docs[1], recorded, i) /\ ~Saving(handler[h])
    BY <1>2 DEF Followed, Quiet, At, Saving
  <2>2. QED
    BY <2>1, Zenon DEF HandlerFollows
<1>5. Story
  BY DEF SyncInv
<1>6. CASE Ended(i)
  BY <1>1, <1>3, <1>4, <1>5, <1>6 DEF Story, StoryTold, Shows
<1>7. CASE ~Ended(i)
  <2> DEFINE m == emitted[i]
  <2>1. i \in 1..Len(emitted)
    <3>1. Len(emitted) \in Nat
      BY DEF BillingInv, BillingTypeOK
    <3>2. QED
      BY <1>3, <1>7, <3>1 DEF Ended
  <2>2. Live = {m.sub} /\ stripe[m.sub].status = m.status
    BY <1>3, <1>5, <1>7 DEF Story, StoryTold
  <2>3. docs[1].plan = m.plan /\ docs[1].stripe = m.sub /\ docs[1].status = m.status
    BY <1>4, <1>7 DEF Shows
  <2>4. m.plan = stripe[m.sub].plan
    BY <1>5, <2>1 DEF Story, StoryNames
  <2>5. m.status \in {"active", "unpaid"}
    BY <2>2 DEF Live
  <2> HIDE DEF m
  <2>6. QED
    BY <1>1, <2>2, <2>3, <2>4, <2>5 DEF ACTIVE_STATUSES
<1>8. QED
  BY <1>6, <1>7

\* If the tenant's requests and webhooks are served one at a time, Stripe's events come in their
\* order, each names its plan and none is lost on the way, the tenant's document says what
\* Stripe says whenever nothing waits: for any purchases, renewals, failed payments and
\* cancellations in turn, until the account is deleted.
THEOREM InSyncAlways ==
  ASSUME NEW h, Handlers = {h}, InOrder,
         Happens \cap {"buy_second", "buy_unmarked", "crash"} = {}
  PROVE  Spec => []InSync
<1> DEFINE Inv == erased \/ (BornInv /\ SyncInv)
<1>1. IsFiniteSet(Handlers)
  <2>1. IsFiniteSet({h})
    BY FS_Singleton
  <2>2. QED
    BY <2>1
<1>2. Init => Inv
  BY SyncInit DEF Init, IdleHandler, BornInv
<1>3. BillingInv /\ Inv /\ [Next]_vars => Inv'
  <2> SUFFICES ASSUME BillingInv, Inv, [Next]_vars, ~erased' PROVE BornInv' /\ SyncInv'
    OBVIOUS
  <2>1. ~Erase /\ BornInv /\ SyncInv
    BY ErasedStays
  <2>2. QED
    BY <1>1, <2>1, BornNext, SyncNext
<1>4. BillingInv /\ Inv => InSync
  BY SyncShows DEF InSync
<1> HIDE DEF Inv
<1>5. QED
  BY <1>2, <1>3, <1>4, InitInv, NextInv, PTL DEF Spec
=============================================================================
