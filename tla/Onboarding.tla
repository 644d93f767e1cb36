----------------------------- MODULE Onboarding -----------------------------
(***************************************************************************)
(* The profile of one user while CVs are uploaded and parsed: the handlers *)
(* of api/v1/routes/onboarding.py that write the profile or a CV, and the  *)
(* task workers/tasks/cv_parsing.py.                                       *)
(*                                                                         *)
(* A field holds nothing (Blank), what a CV says, or what the user typed.  *)
(* autofilled_fields ("ours") records which values a parse put there.      *)
(* Every save writes the whole document its holder read, and a save of a   *)
(* deleted document inserts it again.                                      *)
(***************************************************************************)
EXTENDS Integers, FiniteSets

CONSTANTS
    Handlers,            \* API requests served at the same time
    Fields,              \* profile fields a parse may fill
    Baseline,            \* those the regular expressions find without the model
    CVs, Blank, Typed,
    Reads,               \* Reads[c][f]: what the model reads of field f in CV c
    MAX_RETRIES,
    Regimes,             \* kinds of event, one set per behaviour
    MaxDocs, MaxEvents

EventKinds == {"upload", "early", "build", "edit", "stale", "strategy", "overlap", "scan", "text_error", "ai_error",
               "parse_error", "hard_kill", "crash", "api_crash", "publish_error", "storage_error"}

ASSUME OnboardingBounds == MAX_RETRIES \in Nat /\ MaxDocs \in Nat \ {0} /\ MaxEvents \in Nat
ASSUME OnboardingKinds == Regimes \subseteq SUBSET EventKinds
\* Where a value is from can be told: what the user typed is no CV's value, and not nothing.
ASSUME OnboardingValues ==
    CVs # {} /\ Typed # Blank /\ \A c \in CVs, f \in Fields : Reads[c][f] # Typed

VARIABLES
    regime,
    profile,      \* [value, ours, strategy]
    form,         \* the field values the wizard last loaded
    typed,        \* fields whose value the user typed and nobody changed since, by the user's lights
    made,         \* uploaded ResumeDocuments inserted so far, 1 the oldest
    doc,          \* doc[d]: [cv, status]
    stored,       \* those whose row is in the database
    bytes,        \* those whose object is in the bucket
    handler,      \* handler[h]: a request being served
    parse,        \* parse[d]: the parse_resume_document message of d, or its run
    events

vars == <<regime, profile, form, typed, made, doc, stored, bytes, handler, parse, events>>
cvs == <<made, doc, stored, bytes>>
person == <<profile, form, typed>>

Docs == 1..MaxDocs
Values == {Blank, Typed} \cup {Reads[c][f] : c \in CVs, f \in Fields}
Strategies == {"same", "tailored"}
Empty == [value |-> [f \in Fields |-> Blank], ours |-> {}, strategy |-> "same"]
NoDoc == [cv |-> CHOOSE c \in CVs : TRUE, status |-> "none"]
Idle == [pc |-> "idle", copy |-> Empty, sent |-> Empty.value, edited |-> {}, cv |-> NoDoc.cv,
         doc |-> 1, olds |-> {}, kind |-> "update"]
NoParse == [pc |-> "none", tries |-> 0, ai |-> FALSE, copy |-> Empty, doc |-> NoDoc]

Init ==
    /\ regime \in Regimes
    /\ profile = Empty /\ form = Empty.value /\ typed = {}
    /\ made = 0 /\ doc = [d \in Docs |-> NoDoc] /\ stored = {} /\ bytes = {}
    /\ handler = [h \in Handlers |-> Idle]
    /\ parse = [d \in Docs |-> NoParse]
    /\ events = 0

-----------------------------------------------------------------------------
Event(kind) == kind \in regime /\ events < MaxEvents /\ events' = events + 1

HandlerAt(h, pc) == handler[h].pc = pc
Idlest(h) == HandlerAt(h, "idle") /\ h = CHOOSE g \in Handlers : HandlerAt(g, "idle")
HandlerStep(h, new) == handler' = [handler EXCEPT ![h] = new]
ParseAt(d, pc) == parse[d].pc = pc
ParseStep(d, new) == parse' = [parse EXCEPT ![d] = new]
Parsing == {d \in Docs : parse[d].pc \notin {"none", "over"}}

\* Somebody holds a copy of the profile that is still to be saved.
Saving == (\E h \in Handlers : HandlerAt(h, "save")) \/ \E d \in Docs : ParseAt(d, "save")
MayRead == "overlap" \in regime \/ ~Saving

Save(new) == profile' = new

-----------------------------------------------------------------------------
(* The wizard: load a page, send it back *)

\* A page is loaded when it is sent, unless the behaviour has stale ones.
get_state ==
    /\ "stale" \in regime /\ form # profile.value
    /\ form' = profile.value
    /\ UNCHANGED <<regime, profile, typed, cvs, handler, parse, events>>

\* Every field is sent, whatever the user changed.
ReadForUpdate(h, edited, answer) ==
    /\ Event("edit")
    /\ Idlest(h) /\ MayRead
    /\ LET page == IF "stale" \in regime THEN form ELSE profile.value
       IN  HandlerStep(h, [Idle EXCEPT !.pc = "save", !.copy = profile, !.edited = edited,
                               !.sent = [f \in Fields |-> IF f \in edited THEN answer ELSE page[f]]])
    /\ UNCHANGED <<regime, person, cvs, parse>>

\* Mutant: what was filled stays ours whatever is sent.
update_profileKeepingOurs(copy, sent) == [copy EXCEPT !.value = sent]

\* Sent as it was read: not an edit.
update_profile(copy, sent) ==
    [copy EXCEPT !.value = sent, !.ours = {f \in @ : sent[f] = copy.value[f]}]

SaveUpdate(h) ==
    /\ HandlerAt(h, "save")
    /\ LET new == update_profile(handler[h].copy, handler[h].sent)
       IN  /\ Save(IF handler[h].kind = "update" THEN new
                   ELSE [handler[h].copy EXCEPT !.strategy = "tailored"])
           /\ form' = IF "stale" \in regime /\ handler[h].kind = "update" THEN new.value ELSE form
           /\ typed' = (typed \cup {f \in handler[h].edited : new.value[f] = Typed})
                         \ {f \in handler[h].edited : new.value[f] = Blank}
    /\ HandlerStep(h, Idle)
    /\ UNCHANGED <<regime, cvs, parse, events>>

\* The same read and save, for one field nobody else fills.
set_resume_strategy(h) ==
    /\ Event("strategy")
    /\ Idlest(h) /\ MayRead
    /\ HandlerStep(h, [Idle EXCEPT !.pc = "save", !.copy = profile, !.kind = "strategy"])
    /\ UNCHANGED <<regime, person, cvs, parse>>

-----------------------------------------------------------------------------
(* Uploading and building a CV *)

MayUpload(h) ==
    /\ Idlest(h) /\ made + Cardinality({g \in Handlers : HandlerAt(g, "insert")}) < MaxDocs
    /\ "overlap" \in regime \/ \A g \in Handlers : HandlerAt(g, "idle")

\* The object goes first.  It is written down with its row: an object whose row was never
\* inserted has no number, and nothing of the program finds it again.
Upload(h, c, kind) ==
    /\ MayUpload(h)
    /\ HandlerStep(h, [Idle EXCEPT !.pc = "insert", !.cv = c, !.kind = kind])
    /\ UNCHANGED <<regime, person, cvs, parse>>

upload_resume(h, c) ==
    /\ Event("upload")
    /\ "early" \in regime \/ Parsing = {}
    /\ Upload(h, c, "upload")

\* has_minimum_content: there is something to build from.
build_resume(h, c) ==
    /\ Event("build")
    /\ \E f \in Fields : profile.value[f] # Blank
    /\ Upload(h, c, "build")

\* Then the row: a CV that was built has nothing to parse.
Insert(h) ==
    LET d == made + 1
        status == IF handler[h].kind = "build" THEN "done" ELSE "pending"
    IN  /\ HandlerAt(h, "insert") /\ made < MaxDocs
        /\ made' = d
        /\ doc' = [doc EXCEPT ![d] = [cv |-> handler[h].cv, status |-> status]]
        /\ stored' = stored \cup {d} /\ bytes' = bytes \cup {d}
        /\ HandlerStep(h, [Idle EXCEPT !.pc = "list", !.doc = d, !.kind = handler[h].kind])
        /\ UNCHANGED <<regime, person, parse, events>>

\* Mutant: the handler's own document is not spared.
SupersededAll(h) == stored

Superseded(h) == stored \ {handler[h].doc}

Then(h) == IF handler[h].kind = "build" THEN Idle ELSE [handler[h] EXCEPT !.pc = "publish", !.olds = {}]

ListOld(h) ==
    /\ HandlerAt(h, "list")
    /\ HandlerStep(h, IF Superseded(h) = {} THEN Then(h)
                      ELSE [handler[h] EXCEPT !.pc = "discard", !.olds = Superseded(h)])
    /\ UNCHANGED <<regime, person, cvs, parse, events>>

\* The object, then the row, of one old CV.
DiscardOld(h, d) ==
    /\ HandlerAt(h, "discard") /\ d \in handler[h].olds
    /\ IF d \in bytes THEN bytes' = bytes \ {d} /\ UNCHANGED <<stored, handler>>
       ELSE /\ stored' = stored \ {d} /\ UNCHANGED bytes
            /\ HandlerStep(h, IF handler[h].olds = {d} THEN Then(h)
                              ELSE [handler[h] EXCEPT !.olds = @ \ {d}])
    /\ UNCHANGED <<regime, person, made, doc, parse, events>>

\* delete_object raises: the handler answers 500 with its CV pending and unqueued.
StorageError(h) ==
    /\ Event("storage_error")
    /\ HandlerAt(h, "discard")
    /\ HandlerStep(h, Idle)
    /\ UNCHANGED <<regime, person, cvs, parse>>

delay(h) ==
    /\ HandlerAt(h, "publish")
    /\ ParseStep(handler[h].doc, [NoParse EXCEPT !.pc = "queued"])
    /\ HandlerStep(h, Idle)
    /\ UNCHANGED <<regime, person, cvs, events>>

\* Mutant: the failure is logged and nothing else.
DelayFailsQuietly(h) ==
    /\ Event("publish_error")
    /\ HandlerAt(h, "publish")
    /\ HandlerStep(h, Idle)
    /\ UNCHANGED <<regime, person, cvs, parse>>

\* The broker is down: the copy in memory is saved as failed.
DelayFails(h) ==
    /\ Event("publish_error")
    /\ HandlerAt(h, "publish")
    /\ doc' = [doc EXCEPT ![handler[h].doc].status = "failed"]
    /\ stored' = stored \cup {handler[h].doc}
    /\ HandlerStep(h, Idle)
    /\ UNCHANGED <<regime, person, made, bytes, parse>>

ApiCrash(h) ==
    /\ Event("api_crash")
    /\ ~HandlerAt(h, "idle")
    /\ HandlerStep(h, Idle)
    /\ UNCHANGED <<regime, person, cvs, parse>>

-----------------------------------------------------------------------------
(* The parse *)

SaveDoc(d, status) ==
    /\ doc' = [doc EXCEPT ![d].status = status]
    /\ stored' = stored \cup {d}

Over == [NoParse EXCEPT !.pc = "over"]

\* Mutant: the retries are not counted against the limit.
RaisedAlways(d) == [NoParse EXCEPT !.pc = "queued", !.tries = parse[d].tries + 1]

\* What an exception leads to.  Once the retries are used up self.retry(exc=exc) raises exc
\* and not MaxRetriesExceededError: the task is over and _mark_failed is not called.
Raised(d) ==
    IF parse[d].tries < MAX_RETRIES
      THEN [NoParse EXCEPT !.pc = "queued", !.tries = parse[d].tries + 1]
      ELSE Over

ReadDoc(d) ==
    /\ ParseAt(d, "queued")
    /\ ParseStep(d, IF d \in stored THEN [parse[d] EXCEPT !.pc = "text"] ELSE Over)
    /\ UNCHANGED <<regime, person, cvs, handler, events>>

\* The bytes are gone or unreadable: the row says failed, then the task is retried.
TextFails(d) ==
    /\ ParseAt(d, "text")
    /\ IF d \in bytes THEN Event("text_error") ELSE UNCHANGED events
    /\ SaveDoc(d, "failed")
    /\ ParseStep(d, Raised(d))
    /\ UNCHANGED <<regime, person, made, bytes, handler>>

\* A scanned page: no text, no retry.
NoText(d) ==
    /\ Event("scan")
    /\ ParseAt(d, "text") /\ d \in bytes
    /\ SaveDoc(d, "failed")
    /\ ParseStep(d, Over)
    /\ UNCHANGED <<regime, person, made, bytes, handler>>

\* The call of the model, which the baseline outlives.
parse_cv(d, ok) ==
    /\ ParseAt(d, "text") /\ d \in bytes
    /\ ParseStep(d, [parse[d] EXCEPT !.pc = "read", !.ai = ok])
    /\ IF ok THEN UNCHANGED events ELSE Event("ai_error")
    /\ UNCHANGED <<regime, person, cvs, handler>>

candidate(c, f, ai) == IF ai \/ f \in Baseline THEN Reads[c][f] ELSE Blank

\* Mutant: "the first CV wins forever".
apply_to_profileFirst(copy, c, ai) ==
    LET fill == {f \in Fields : copy.value[f] = Blank /\ candidate(c, f, ai) # Blank}
    IN  [copy EXCEPT !.value = [f \in Fields |-> IF f \in fill THEN candidate(c, f, ai) ELSE @[f]],
                     !.ours = @ \cup fill]

\* _apply_to_profile: fill what is blank or ours; what is ours and no longer in the CV
\* is cleared, unless only the baseline was read.
apply_to_profile(copy, c, ai) ==
    LET free == {f \in Fields : copy.value[f] = Blank \/ f \in copy.ours}
        fill == {f \in free : candidate(c, f, ai) # Blank}
        absent == {f \in free \ fill : f \in copy.ours /\ copy.value[f] # Blank}
        clear == IF ai THEN absent ELSE {}
    IN  [copy EXCEPT !.value = [f \in Fields |-> CASE f \in fill -> candidate(c, f, ai)
                                                   [] f \in clear -> Blank
                                                   [] OTHER -> @[f]],
                     !.ours = fill \cup (absent \ clear)]

ReadProfile(d) ==
    /\ ParseAt(d, "read") /\ MayRead
    /\ ParseStep(d, [parse[d] EXCEPT !.pc = "save",
                                     !.copy = apply_to_profile(profile, doc[d].cv, parse[d].ai)])
    /\ UNCHANGED <<regime, person, cvs, handler, events>>

SaveProfile(d) ==
    /\ ParseAt(d, "save")
    /\ Save(parse[d].copy)
    /\ ParseStep(d, [parse[d] EXCEPT !.pc = "done", !.copy = Empty])
    /\ UNCHANGED <<regime, form, typed, cvs, handler, events>>

MarkDone(d) ==
    /\ ParseAt(d, "done")
    /\ SaveDoc(d, "done")
    /\ ParseStep(d, Over)
    /\ UNCHANGED <<regime, person, made, bytes, handler, events>>

ParseError(d) ==
    /\ Event("parse_error")
    /\ parse[d].pc \in {"text", "read", "save", "done"}
    /\ ParseStep(d, Raised(d))
    /\ UNCHANGED <<regime, person, cvs, handler>>

\* task_time_limit: the child is killed, the message is acknowledged, nothing is written.
ParseKilled(d) ==
    /\ Event("hard_kill")
    /\ parse[d].pc \in {"text", "read", "save", "done"}
    /\ ParseStep(d, Over)
    /\ UNCHANGED <<regime, person, cvs, handler>>

\* acks_late and reject_on_worker_lost: the message comes back.
WorkerLost(d) ==
    /\ Event("crash")
    /\ d \in Parsing /\ ~ParseAt(d, "queued")
    /\ ParseStep(d, [NoParse EXCEPT !.pc = "queued", !.tries = parse[d].tries])
    /\ UNCHANGED <<regime, person, cvs, handler>>

-----------------------------------------------------------------------------
ParseNext(d) ==
    \/ ReadDoc(d) \/ (d \notin bytes /\ TextFails(d)) \/ parse_cv(d, TRUE)
    \/ ReadProfile(d) \/ SaveProfile(d) \/ MarkDone(d)

HandlerNext(h) ==
    \/ SaveUpdate(h) \/ Insert(h) \/ ListOld(h) \/ delay(h)
    \/ \E d \in Docs : DiscardOld(h, d)

Next ==
    \/ get_state
    \/ \E h \in Handlers :
         \/ HandlerNext(h) \/ StorageError(h) \/ DelayFails(h) \/ ApiCrash(h)
         \/ set_resume_strategy(h)
         \/ \E c \in CVs : upload_resume(h, c) \/ build_resume(h, c)
         \/ \E edited \in SUBSET Fields, answer \in {Typed, Blank} : ReadForUpdate(h, edited, answer)
    \/ \E d \in Docs :
         \/ ParseNext(d) \/ TextFails(d) \/ NoText(d) \/ parse_cv(d, FALSE)
         \/ ParseError(d) \/ ParseKilled(d) \/ WorkerLost(d)

\* Handlers run on; the workers take and finish every message.
Fairness ==
    /\ \A h \in Handlers : WF_vars(HandlerNext(h))
    /\ \A d \in Docs : SF_vars(ParseNext(d))

Spec == Init /\ [][Next]_vars /\ Fairness

-----------------------------------------------------------------------------
(* Properties *)

ProfileOK(p) == p.value \in [Fields -> Values] /\ p.ours \subseteq Fields /\ p.strategy \in Strategies

OnboardingTypeOK ==
    /\ regime \in Regimes /\ events \in 0..MaxEvents
    /\ ProfileOK(profile) /\ form \in [Fields -> Values] /\ typed \subseteq Fields
    /\ made \in 0..MaxDocs /\ stored \cup bytes \subseteq 1..made
    /\ \A d \in Docs : doc[d].status \in {"none", "pending", "done", "failed"}
    /\ \A h \in Handlers : ProfileOK(handler[h].copy)
    /\ \A d \in Docs : ProfileOK(parse[d].copy) /\ parse[d].tries \in 0..MAX_RETRIES

\* What is recorded as autofilled is never something the user typed, however whole
\* saves of the profile cross, and stays so through stale pages and replays.
OursIsNotTyped == \A f \in profile.ours : profile.value[f] # Typed

\* A field the user typed into keeps that answer through every later upload and parse and
\* every stale page, as long as no two saves of the profile cross.
TypedKept == "overlap" \notin regime => \A f \in typed : profile.value[f] = Typed

Provenance == OursIsNotTyped /\ TypedKept

\* An upload replaces the CV and never leaves none: once one was inserted the newest
\* is there, bytes included, as long as two uploads do not overlap.
NewestKept == "overlap" \notin regime /\ made > 0 => made \in stored \cap bytes

\* Replacing a CV leaves the profile describing the new one and not a union: once its
\* parse is done with the model's help, a field the user did not type holds what it says or
\* nothing.  A CV uploaded over a running parse, and a stale page, are left out: see the
\* README.
FollowsNewest ==
    /\ regime \cap {"overlap", "early", "stale", "ai_error", "build"} = {}
    /\ made > 0 /\ doc[made].status = "done" /\ \A h \in Handlers : HandlerAt(h, "idle")
    /\ Parsing = {}
    => \A f \in Fields \ typed : profile.value[f] \in {Blank, Reads[doc[made].cv][f]}

CurrentCv == NewestKept /\ FollowsNewest

\* The UI never waits for ever on a CV that says pending, through worker losses, retries,
\* failed publishes and CVs replaced half-way.  It may after an exhausted retry and after the
\* time limit, which write nothing, and after a request that ended before it published.
ParseResolves ==
    \A d \in Docs :
        (d \in stored /\ doc[d].status = "pending"
           /\ regime \cap {"api_crash", "storage_error", "parse_error", "hard_kill"} = {})
        ~> (d \notin stored \/ doc[d].status # "pending")
=============================================================================
