--------------------------- MODULE OnboardingProofs ---------------------------
(***************************************************************************)
(* What holds of a user's profile and CVs for any fields, CVs, requests    *)
(* and documents.                                                          *)
(***************************************************************************)
EXTENDS Onboarding, TLAPS

Profile == [value : [Fields -> Values], ours : SUBSET Fields, strategy : Strategies]
DocRecord == [cv : CVs, status : {"none", "pending", "done", "failed"}]
HandlerPc == {"idle", "save", "insert", "list", "discard", "publish"}
HandlerRecord ==
    [pc : HandlerPc, copy : Profile, sent : [Fields -> Values], edited : SUBSET Fields,
     cv : CVs, doc : Docs, olds : SUBSET Docs, kind : {"update", "strategy", "upload", "build"}]
ParsePc == {"none", "queued", "text", "read", "save", "done", "over"}
ParseRecord ==
    [pc : ParsePc, tries : 0..MAX_RETRIES, ai : BOOLEAN, copy : Profile, doc : {NoDoc}]

\* What is recorded as autofilled is not what the user typed: asked of the profile and of every
\* copy of it that a request or a parse is going to save.
Honest(p) == p \in Profile /\ \A f \in p.ours : p.value[f] # Typed

\* An upload or a build stores an object, inserts its CV, and works on it from then on.
CvPc == {"list", "discard", "publish"}
UploadPc == {"insert"} \cup CvPc
GoodHandler(x) ==
    x \in HandlerRecord /\ Honest(x.copy) /\ (x.pc \in CvPc => x.doc \in 1..made)
GoodParse(x) == x \in ParseRecord /\ Honest(x.copy)

PersonGood ==
    regime \in Regimes /\ events \in 0..MaxEvents
      /\ Honest(profile) /\ form \in [Fields -> Values] /\ typed \subseteq Fields
CvsGood == made \in 0..MaxDocs /\ stored \cup bytes \subseteq 1..made /\ doc \in [Docs -> DocRecord]
HandlersGood == DOMAIN handler = Handlers /\ \A h \in Handlers : GoodHandler(handler[h])
ParsesGood ==
    DOMAIN parse = Docs /\ (\A d \in Docs : GoodParse(parse[d])) /\ Parsing \subseteq 1..made
Shape == PersonGood /\ CvsGood /\ HandlersGood /\ ParsesGood

\* No two saves of the profile cross: what the user typed is in the profile, in the page that
\* was loaded last and in what is about to be saved.
HoldsTyped(value) == \A f \in typed : value[f] = Typed
OneSaver ==
    /\ \A g, h \in Handlers : HandlerAt(g, "save") /\ HandlerAt(h, "save") => g = h
    /\ \A d, e \in Docs : ParseAt(d, "save") /\ ParseAt(e, "save") => d = e
    /\ \A h \in Handlers, d \in Docs : ~(HandlerAt(h, "save") /\ ParseAt(d, "save"))
SendsTyped(x) ==
    IF x.kind = "update"
      THEN \A f \in Fields : /\ f \in x.edited => x.sent[f] \in {Typed, Blank}
                             /\ f \in typed \ x.edited => x.sent[f] = Typed
      ELSE x.edited = {} /\ HoldsTyped(x.copy.value)
TypedInv ==
    "overlap" \notin regime =>
      /\ HoldsTyped(profile.value) /\ ("stale" \in regime => HoldsTyped(form))
      /\ OneSaver
      /\ \A h \in Handlers : HandlerAt(h, "save") => SendsTyped(handler[h])
      /\ \A d \in Docs : ParseAt(d, "save") => HoldsTyped(parse[d].copy.value)

\* One upload at a time: its CV is the newest and it does not discard it.
WorksOnNewest(x) == (x.pc \in CvPc => x.doc = made) /\ (x.pc = "discard" => made \notin x.olds)
CvInv ==
    "overlap" \notin regime =>
      /\ made > 0 => made \in stored \cap bytes
      /\ \A h \in Handlers : WorksOnNewest(handler[h])

\* A CV uploaded when no parse runs, every page as it is when it is sent, and the model
\* answering.
InTurn == regime \cap {"overlap", "early", "stale", "ai_error", "build"} = {}

\* A request that stored an object and has yet to insert its row is the only one at work on CVs;
\* in turn, what it inserts is to be parsed, and no parse runs.
AloneInv ==
    /\ "overlap" \notin regime =>
         \A g, h \in Handlers : handler[g].pc \in UploadPc /\ handler[h].pc \in UploadPc => g = h
    /\ InTurn =>
         \A h \in Handlers : HandlerAt(h, "insert") => handler[h].kind = "upload" /\ Parsing = {}

\* In turn, what the user did not type is blank or ours, and says what the newest CV says
\* from the save of its parse on.
Known(p) == \A f \in Fields \ typed : p.value[f] = Blank \/ f \in p.ours
Says(p, d) == \A f \in Fields \ typed : p.value[f] \in {Blank, Reads[doc[d].cv][f]}
SendsKnown(x) ==
    x.copy = profile
      /\ (x.kind = "update" => \A f \in Fields \ x.edited : x.sent[f] = profile.value[f])
FollowInv ==
    InTurn =>
      /\ Parsing \subseteq {made}
      /\ Known(profile)
      /\ \A h \in Handlers : HandlerAt(h, "save") => SendsKnown(handler[h])
      /\ \A d \in Docs : ParseAt(d, "read") => parse[d].ai
      /\ \A d \in Docs : ParseAt(d, "save") => Known(parse[d].copy) /\ Says(parse[d].copy, d)
      /\ made > 0 /\ (doc[made].status = "done" \/ ParseAt(made, "done")) => Says(profile, made)

-----------------------------------------------------------------------------
(* Values *)

\* The empty profile, idle handlers and parses that are not running.
LEMMA EmptyGood ==
  /\ Honest(Empty) /\ NoDoc \in DocRecord /\ 1 \in Docs /\ Docs = 1..MaxDocs
  /\ GoodHandler(Idle) /\ GoodParse(NoParse) /\ GoodParse(Over)
<1>1. Honest(Empty)
  BY DEF Empty, Honest, Profile, Values, Strategies
<1>2. NoDoc \in DocRecord
  BY OnboardingValues DEF NoDoc, DocRecord
<1>3. 1 \in Docs /\ Docs = 1..MaxDocs
  BY OnboardingBounds DEF Docs
<1>4. GoodHandler(Idle)
  <2>1. Empty \in Profile /\ Empty.value \in [Fields -> Values]
    BY <1>1 DEF Honest, Profile
  <2>2. Idle \in HandlerRecord /\ Idle.copy = Empty /\ Idle.pc = "idle"
    BY <1>2, <1>3, <2>1 DEF Idle, HandlerRecord, HandlerPc, DocRecord
  <2>3. QED
    BY <1>1, <2>2 DEF GoodHandler, CvPc
<1>5. Empty \in Profile
  BY <1>1 DEF Honest
<1>6. GoodParse(NoParse) /\ GoodParse(Over)
  <2>1. NoParse \in ParseRecord /\ Over \in ParseRecord /\ NoParse.copy = Empty /\ Over.copy = Empty
    <3>1. 0 \in 0..MAX_RETRIES /\ FALSE \in BOOLEAN /\ NoDoc \in {NoDoc}
      BY OnboardingBounds
    <3>2. NoParse \in ParseRecord /\ NoParse.copy = Empty
      BY <1>5, <3>1 DEF NoParse, ParseRecord, ParsePc
    <3>3. Over \in ParseRecord /\ Over.copy = NoParse.copy
      BY <3>2 DEF Over, ParseRecord, ParsePc
    <3>4. QED
      BY <3>2, <3>3
  <2>2. QED
    BY <1>1, <2>1 DEF GoodParse
<1>7. QED
  BY <1>1, <1>2, <1>3, <1>4, <1>6

\* A page that is sent back makes an honest profile: a field that stays ours was not changed.
LEMMA UpdateHonest ==
  ASSUME NEW copy, Honest(copy), NEW sent \in [Fields -> Values]
  PROVE  LET new == update_profile(copy, sent)
         IN  /\ Honest(new) /\ new.value = sent
             /\ \A f \in Fields : f \in new.ours <=> f \in copy.ours /\ sent[f] = copy.value[f]
BY DEF update_profile, Honest, Profile

\* What a parse makes of the profile is honest; what the user typed stays, and with the model
\* every other field says what the CV says or nothing.
LEMMA ApplyHonest ==
  ASSUME NEW copy, Honest(copy), NEW c \in CVs, NEW ai \in BOOLEAN
  PROVE  LET new == apply_to_profile(copy, c, ai)
         IN  /\ Honest(new)
             /\ \A f \in Fields : copy.value[f] = Typed => new.value[f] = Typed
             /\ ai => \A f \in Fields :
                        copy.value[f] = Blank \/ f \in copy.ours =>
                          /\ new.value[f] \in {Blank, Reads[c][f]}
                          /\ new.value[f] = Blank \/ f \in new.ours
<1> DEFINE free == {f \in Fields : copy.value[f] = Blank \/ f \in copy.ours}
           fill == {f \in free : candidate(c, f, ai) # Blank}
           absent == {f \in free \ fill : f \in copy.ours /\ copy.value[f] # Blank}
           clear == IF ai THEN absent ELSE {}
           value == [f \in Fields |-> CASE f \in fill -> candidate(c, f, ai)
                                        [] f \in clear -> Blank
                                        [] OTHER -> copy.value[f]]
           new == apply_to_profile(copy, c, ai)
<1>1. copy \in Profile /\ copy.value \in [Fields -> Values] /\ copy.ours \subseteq Fields
  BY DEF Honest, Profile
<1>2. \A f \in Fields : /\ candidate(c, f, ai) \in {Blank, Reads[c][f]}
                        /\ candidate(c, f, ai) \in Values /\ candidate(c, f, ai) # Typed
                        /\ ai => candidate(c, f, ai) = Reads[c][f]
  BY OnboardingValues DEF candidate, Values
<1>3. /\ fill \subseteq free /\ clear \subseteq absent
      /\ absent \cap fill = {} /\ absent \subseteq free
      /\ free \subseteq Fields /\ (ai => clear = absent)
  OBVIOUS
<1>4. \A f \in Fields : /\ f \in fill => value[f] = candidate(c, f, ai)
                        /\ f \in clear => value[f] = Blank
                        /\ f \notin fill /\ f \notin clear => value[f] = copy.value[f]
  BY <1>3
<1>5. value \in [Fields -> Values]
  BY <1>1, <1>2 DEF Values
<1>6. /\ new = [copy EXCEPT !.value = value, !.ours = fill \cup (absent \ clear)]
  BY DEF apply_to_profile
<1>7. \A f \in free : f \notin fill => f \in absent \/ copy.value[f] = Blank
  OBVIOUS
<1>8. \A f \in absent : f \in copy.ours
  OBVIOUS
<1>9. \A f \in Fields : f \in free <=> copy.value[f] = Blank \/ f \in copy.ours
  OBVIOUS
<1> HIDE DEF free, fill, absent, clear, value
<1>10. new \in Profile /\ new.value = value /\ new.ours = fill \cup (absent \ clear)
  BY <1>1, <1>3, <1>5, <1>6 DEF Profile
<1>11. Honest(new)
  <2>1. \A f \in new.ours : value[f] # Typed
    BY <1>1, <1>2, <1>3, <1>4, <1>8, <1>10 DEF Honest
  <2>2. QED
    BY <1>10, <2>1 DEF Honest
<1>12. \A f \in Fields : copy.value[f] = Typed => value[f] = Typed
  <2>1. \A f \in Fields : copy.value[f] = Typed => f \notin free
    BY <1>9, OnboardingValues DEF Honest
  <2>2. QED
    BY <1>3, <1>4, <2>1
<1>13. ASSUME ai, NEW f \in free
       PROVE  /\ value[f] \in {Blank, Reads[c][f]}
              /\ value[f] = Blank \/ f \in fill
  BY <1>2, <1>3, <1>4, <1>7, <1>13
<1> HIDE DEF new
<1>14. QED
  BY <1>9, <1>10, <1>11, <1>12, <1>13 DEF new

-----------------------------------------------------------------------------
(* Shape *)

\* A handler that goes on to a good record leaves the others as they were.
GoodNext(new) ==
    new \in HandlerRecord /\ Honest(new.copy) /\ (new.pc \in CvPc => new.doc \in 1..made')
LEMMA HandlerGoes ==
  ASSUME HandlersGood, made \in Nat, made' \in Nat, made <= made',
         NEW h \in Handlers, NEW new, HandlerStep(h, new), GoodNext(new)
  PROVE  /\ HandlersGood' /\ handler'[h] = new
         /\ \A g \in Handlers \ {h} : handler'[g] = handler[g]
<1>1. /\ handler'[h] = new /\ \A g \in Handlers \ {h} : handler'[g] = handler[g]
      /\ DOMAIN handler' = Handlers
  BY DEF HandlersGood, HandlerStep
<1>2. \A x : GoodHandler(x) \/ GoodNext(x) => GoodHandler(x)'
  BY DEF GoodHandler, GoodNext
<1>3. \A g \in Handlers : GoodHandler(handler[g])'
  BY <1>1, <1>2 DEF HandlersGood
<1>4. QED
  BY <1>1, <1>3 DEF HandlersGood

\* A parse of an inserted CV goes on to a good record; the others are as they were.
LEMMA ParseGoes ==
  ASSUME ParsesGood, UNCHANGED made, NEW d \in Docs, NEW new, ParseStep(d, new), GoodParse(new),
         d \in 1..made
  PROVE  /\ ParsesGood' /\ parse'[d] = new /\ Parsing' \subseteq Parsing \cup {d}
         /\ \A e \in Docs \ {d} : parse'[e] = parse[e]
<1>1. /\ parse'[d] = new /\ \A e \in Docs \ {d} : parse'[e] = parse[e]
      /\ DOMAIN parse' = Docs
  BY DEF ParsesGood, ParseStep
<1>2. \A x : GoodParse(x) => GoodParse(x)'
  BY DEF GoodParse
<1>3. \A e \in Docs : GoodParse(parse[e])'
  BY <1>1, <1>2 DEF ParsesGood
<1>4. Parsing' \subseteq Parsing \cup {d}
  BY <1>1 DEF Parsing
<1>5. QED
  BY <1>1, <1>3, <1>4 DEF ParsesGood

\* What is said of the variables a step leaves alone.
LEMMA ShapeUnchanged ==
  ASSUME Shape
  PROVE  /\ UNCHANGED <<regime, person, events>> => PersonGood'
         /\ UNCHANGED cvs => CvsGood'
         /\ UNCHANGED <<handler, made>> => HandlersGood'
         /\ UNCHANGED <<parse, made>> => ParsesGood'
         /\ events \in 0..MaxEvents
         /\ made \in 0..MaxDocs /\ MaxDocs \in Nat
<1>1. PersonGood /\ CvsGood /\ HandlersGood /\ ParsesGood
  BY DEF Shape
<1>2. UNCHANGED <<regime, person, events>> => PersonGood'
  BY <1>1 DEF PersonGood, person, Honest
<1>3. UNCHANGED cvs => CvsGood'
  BY <1>1 DEF CvsGood, cvs
<1>4. UNCHANGED <<handler, made>> => HandlersGood'
  BY <1>1 DEF HandlersGood, GoodHandler
<1>5. UNCHANGED <<parse, made>> => ParsesGood'
  BY <1>1 DEF ParsesGood, GoodParse, Parsing
<1>6. QED
  BY <1>1, <1>2, <1>3, <1>4, <1>5, OnboardingBounds DEF PersonGood, CvsGood

\* An event is counted within its bound.
LEMMA EventCounted ==
  ASSUME Shape, NEW kind, Event(kind), UNCHANGED <<regime, person>>
  PROVE  PersonGood'
BY OnboardingBounds DEF Shape, PersonGood, Event, person, Honest

\* A status is written into a row, which is there afterwards.
LEMMA SavedDoc ==
  ASSUME Shape, NEW d \in Docs, d \in 1..made, UNCHANGED <<made, bytes>>,
         NEW status \in {"pending", "done", "failed"}, SaveDoc(d, status)
  PROVE  /\ CvsGood' /\ stored' = stored \cup {d}
         /\ \A e \in Docs : doc'[e].cv = doc[e].cv
         /\ doc'[d].status = status /\ \A e \in Docs \ {d} : doc'[e] = doc[e]
<1>1. doc \in [Docs -> DocRecord] /\ stored \cup bytes \subseteq 1..made
  BY DEF Shape, CvsGood
<1>2. doc' = [doc EXCEPT ![d].status = status] /\ stored' = stored \cup {d}
  BY DEF SaveDoc
<1>3. /\ doc' \in [Docs -> DocRecord] /\ doc'[d].status = status
      /\ \A e \in Docs : doc'[e].cv = doc[e].cv
      /\ \A e \in Docs \ {d} : doc'[e] = doc[e]
  BY <1>1, <1>2 DEF DocRecord
<1>4. QED
  BY <1>1, <1>2, <1>3 DEF Shape, CvsGood

\* A retry, or what ends the task, keeps no copy of the profile.
LEMMA RaisedGood ==
  ASSUME Shape, NEW d \in Docs
  PROVE  GoodParse(Raised(d)) /\ Raised(d).pc \in {"queued", "over"}
<1>1. parse[d].tries \in 0..MAX_RETRIES /\ MAX_RETRIES \in Nat
  BY OnboardingBounds DEF Shape, ParsesGood, GoodParse, ParseRecord
<1>2. /\ NoParse \in ParseRecord /\ NoParse.copy = Empty /\ Honest(Empty)
      /\ GoodParse(Over) /\ Over.pc = "over"
  BY EmptyGood DEF GoodParse, NoParse, Over
<1> DEFINE again == [NoParse EXCEPT !.pc = "queued", !.tries = parse[d].tries + 1]
<1>3. CASE parse[d].tries < MAX_RETRIES
  <2>1. parse[d].tries + 1 \in 0..MAX_RETRIES
    BY <1>1, <1>3
  <2>2. again \in ParseRecord /\ again.copy = Empty /\ again.pc = "queued"
    BY <1>2, <2>1 DEF ParseRecord, ParsePc
  <2>3. Raised(d) = again
    BY <1>3 DEF Raised
  <2> HIDE DEF again
  <2>4. QED
    BY <1>2, <2>2, <2>3 DEF GoodParse
<1>4. CASE ~(parse[d].tries < MAX_RETRIES)
  BY <1>2, <1>4 DEF Raised
<1>5. QED
  BY <1>3, <1>4

-----------------------------------------------------------------------------
(* Kinds of steps *)

\* Nobody takes a new copy of the profile to save, and the profile is as it was.
Calm ==
    /\ UNCHANGED <<regime, profile, typed>> /\ (form' = form \/ form' = profile.value)
    /\ \A g \in Handlers : handler'[g].pc = "save" => handler'[g] = handler[g]
    /\ \A d \in Docs : parse'[d].pc = "save" => parse'[d] = parse[d]

\* No CV is inserted or removed, and no handler begins to work on one, nor to upload one.
CvsKept ==
    /\ made' = made /\ stored \subseteq stored' /\ bytes \subseteq bytes'
    /\ \A g \in Handlers : handler'[g].pc \in CvPc => handler'[g] = handler[g]
Steady == CvsKept /\ \A g \in Handlers : handler'[g].pc = "insert" => handler'[g] = handler[g]

\* Only a published CV begins to be parsed, and only a parse that saved the profile says so.
Publishing == {handler[g].doc : g \in {k \in Handlers : HandlerAt(k, "publish")}}
Along ==
    /\ made' = made /\ Parsing' \subseteq Parsing \cup Publishing
    /\ \A d \in Docs :
         /\ doc'[d].cv = doc[d].cv
         /\ doc'[d].status = "done" => doc[d].status = "done" \/ parse[d].pc = "done"
         /\ parse'[d].pc = "done" => parse[d].pc = "done"
         /\ parse'[d].pc = "read" => parse'[d].ai \/ parse'[d] = parse[d] \/ "ai_error" \in regime

\* A parse that runs is of an inserted CV.
LEMMA RunsOnInserted ==
  ASSUME Shape, NEW d \in Docs, parse[d].pc \notin {"none", "over"}
  PROVE  d \in 1..made /\ d \in Parsing
BY DEF Shape, ParsesGood, Parsing

\* A step of a parse that neither takes nor saves a profile.
LEMMA ParseStepIs ==
  ASSUME Shape, NEW d \in Docs, NEW new, ParseStep(d, new), GoodParse(new), d \in 1..made,
         PersonGood', CvsGood', UNCHANGED <<regime, profile, form, typed, made, bytes, handler>>,
         d \in Parsing, new.pc \notin {"save", "done"},
         new.pc = "read" => new.ai \/ "ai_error" \in regime,
         stored \subseteq stored', \A e \in Docs : doc'[e].cv = doc[e].cv,
         \A e \in Docs : doc'[e].status = "done" => doc[e].status = "done" \/ parse[e].pc = "done"
  PROVE  Shape' /\ Calm /\ Steady /\ Along
<1>1. /\ ParsesGood' /\ parse'[d] = new /\ Parsing' \subseteq Parsing \cup {d}
      /\ \A e \in Docs \ {d} : parse'[e] = parse[e]
  BY ParseGoes DEF Shape
<1>2. Shape'
  BY <1>1, ShapeUnchanged DEF Shape
<1>3. Calm
  BY <1>1 DEF Calm
<1>4. Steady
  BY DEF Steady, CvsKept
<1>5. Along
  BY <1>1 DEF Along
<1>6. QED
  BY <1>2, <1>3, <1>4, <1>5

\* Reading the document, the text and the model; failing; being killed; being lost.
LEMMA ParseCalm ==
  ASSUME Shape, NEW d \in Docs,
         \/ ReadDoc(d) \/ TextFails(d) \/ NoText(d) \/ parse_cv(d, TRUE) \/ parse_cv(d, FALSE)
         \/ MarkDone(d) \/ ParseError(d) \/ ParseKilled(d) \/ WorkerLost(d)
  PROVE  Shape' /\ Calm /\ Steady /\ Along
<1> DEFINE x == parse[d]
<1>1. /\ d \in 1..made /\ d \in Parsing /\ GoodParse(x) /\ x \in ParseRecord
  <2>1. x.pc \notin {"none", "over"}
    BY DEF ReadDoc, TextFails, NoText, parse_cv, MarkDone, ParseError, ParseKilled, WorkerLost,
       ParseAt, Parsing
  <2>2. QED
    BY <2>1, RunsOnInserted DEF Shape, ParsesGood, GoodParse
<1>2. GoodParse(Over) /\ Over.pc = "over" /\ NoParse \in ParseRecord /\ Honest(NoParse.copy)
  BY EmptyGood DEF Over, NoParse, GoodParse
<1>3. UNCHANGED <<regime, profile, form, typed, made, bytes, handler>>
  BY DEF ReadDoc, TextFails, NoText, parse_cv, MarkDone, ParseError, ParseKilled, WorkerLost,
     person, cvs
<1>4. UNCHANGED person
  BY <1>3 DEF person
<1>5. UNCHANGED <<doc, stored>> => /\ CvsGood' /\ stored \subseteq stored'
                                   /\ \A e \in Docs : doc'[e].cv = doc[e].cv
                                   /\ \A e \in Docs :
                                        doc'[e].status = "done" => doc[e].status = "done"
  BY <1>3, ShapeUnchanged DEF cvs
<1>6. \A kind : Event(kind) => PersonGood'
  BY <1>3, <1>4, EventCounted
<1>7. UNCHANGED events => PersonGood'
  BY <1>3, <1>4, ShapeUnchanged
<1>8. \A status \in {"pending", "done", "failed"} :
        SaveDoc(d, status) => /\ CvsGood' /\ stored \subseteq stored'
                              /\ \A e \in Docs : doc'[e].cv = doc[e].cv
                              /\ doc'[d].status = status /\ \A e \in Docs \ {d} : doc'[e] = doc[e]
  BY <1>1, <1>3, SavedDoc
<1>9. CASE ReadDoc(d)
  <2> DEFINE text == [x EXCEPT !.pc = "text"]
  <2>1. GoodParse(text) /\ text.pc = "text"
    BY <1>1 DEF GoodParse, ParseRecord, ParsePc
  <2>2. PICK new \in {text, Over} : ParseStep(d, new)
    BY <1>9 DEF ReadDoc
  <2> HIDE DEF text
  <2>3. UNCHANGED <<doc, stored, events>>
    BY <1>9 DEF ReadDoc, cvs
  <2>4. QED
    BY <1>1, <1>2, <1>3, <1>5, <1>7, <2>1, <2>2, <2>3, ParseStepIs
<1>10. CASE TextFails(d)
  <2>1. ParseStep(d, Raised(d))
    BY <1>10 DEF TextFails
  <2>2. GoodParse(Raised(d)) /\ Raised(d).pc \in {"queued", "over"}
    BY RaisedGood
  <2>3. SaveDoc(d, "failed") /\ PersonGood'
    BY <1>6, <1>7, <1>10 DEF TextFails
  <2>4. QED
    BY <1>1, <1>3, <1>8, <2>1, <2>2, <2>3, ParseStepIs
<1>11. CASE NoText(d)
  <2>1. ParseStep(d, Over) /\ SaveDoc(d, "failed") /\ PersonGood'
    BY <1>6, <1>11 DEF NoText
  <2>2. QED
    BY <1>1, <1>2, <1>3, <1>8, <2>1, ParseStepIs
<1>12. ASSUME NEW ok \in BOOLEAN, parse_cv(d, ok) PROVE Shape' /\ Calm /\ Steady /\ Along
  <2> DEFINE read == [x EXCEPT !.pc = "read", !.ai = ok]
  <2>1. GoodParse(read) /\ read.pc = "read" /\ read.ai = ok
    BY <1>1 DEF GoodParse, ParseRecord, ParsePc
  <2>2. ParseStep(d, read) /\ UNCHANGED <<doc, stored>> /\ PersonGood'
    BY <1>6, <1>7, <1>12 DEF parse_cv, cvs
  <2>3. ok \/ "ai_error" \in regime
    BY <1>12 DEF parse_cv, Event
  <2> HIDE DEF read
  <2>4. QED
    BY <1>1, <1>3, <1>5, <2>1, <2>2, <2>3, ParseStepIs
<1>13. CASE MarkDone(d)
  <2>1. ParseStep(d, Over) /\ SaveDoc(d, "done") /\ PersonGood' /\ x.pc = "done"
    BY <1>7, <1>13 DEF MarkDone, ParseAt
  <2>2. QED
    BY <1>1, <1>2, <1>3, <1>8, <2>1, ParseStepIs
<1>14. CASE ParseError(d)
  <2>1. ParseStep(d, Raised(d))
    BY <1>14 DEF ParseError
  <2>2. GoodParse(Raised(d)) /\ Raised(d).pc \in {"queued", "over"}
    BY RaisedGood
  <2>3. UNCHANGED <<doc, stored>> /\ PersonGood'
    BY <1>6, <1>14 DEF ParseError, cvs
  <2>4. QED
    BY <1>1, <1>3, <1>5, <2>1, <2>2, <2>3, ParseStepIs
<1>15. CASE ParseKilled(d)
  <2>1. ParseStep(d, Over) /\ UNCHANGED <<doc, stored>> /\ PersonGood'
    BY <1>6, <1>15 DEF ParseKilled, cvs
  <2>2. QED
    BY <1>1, <1>2, <1>3, <1>5, <2>1, ParseStepIs
<1>16. CASE WorkerLost(d)
  <2> DEFINE again == [NoParse EXCEPT !.pc = "queued", !.tries = x.tries]
  <2>1. GoodParse(again) /\ again.pc = "queued"
    BY <1>1, <1>2 DEF GoodParse, ParseRecord, ParsePc
  <2>2. ParseStep(d, again) /\ UNCHANGED <<doc, stored>> /\ PersonGood'
    BY <1>6, <1>16 DEF WorkerLost, cvs
  <2> HIDE DEF again
  <2>3. QED
    BY <1>1, <1>3, <1>5, <2>1, <2>2, ParseStepIs
<1>17. QED
  BY <1>9, <1>10, <1>11, <1>12, <1>13, <1>14, <1>15, <1>16

\* A handler that ends, or is lost, is idle.
LEMMA HandlerEnds ==
  ASSUME Shape, NEW h \in Handlers, HandlerStep(h, Idle), UNCHANGED made
  PROVE  /\ HandlersGood' /\ handler'[h].pc = "idle"
         /\ \A g \in Handlers \ {h} : handler'[g] = handler[g]
<1>1. HandlersGood /\ made \in Nat
  BY OnboardingBounds DEF Shape, CvsGood
<1>2. GoodNext(Idle) /\ Idle.pc = "idle"
  BY EmptyGood DEF GoodHandler, GoodNext, Idle, CvPc
<1>3. QED
  BY <1>1, <1>2, HandlerGoes

\* The page is loaded, a CV is queued, or its upload ends without that.
LEMMA HandlerCalm ==
  ASSUME Shape,
         \/ get_state
         \/ \E h \in Handlers : delay(h) \/ StorageError(h) \/ DelayFails(h) \/ ApiCrash(h)
  PROVE  Shape' /\ Calm /\ Steady /\ Along
<1>1. CASE get_state
  <2>1. UNCHANGED <<regime, profile, typed, cvs, handler, parse, events>> /\ form' = profile.value
    BY <1>1 DEF get_state
  <2>2. UNCHANGED <<made, doc, stored, bytes>>
    BY <2>1 DEF cvs
  <2>3. PersonGood'
    BY <2>1 DEF Shape, PersonGood, Honest, Profile
  <2>4. Shape'
    BY <2>1, <2>2, <2>3, ShapeUnchanged DEF Shape
  <2>5. Calm /\ Steady
    BY <2>1, <2>2 DEF Calm, Steady, CvsKept
  <2>6. Along
    BY <2>1, <2>2 DEF Along, Parsing
  <2>7. QED
    BY <2>4, <2>5, <2>6
<1>2. ASSUME NEW h \in Handlers, delay(h) PROVE Shape' /\ Calm /\ Steady /\ Along
  <2> DEFINE d == handler[h].doc
             queued == [NoParse EXCEPT !.pc = "queued"]
  <2>1. /\ HandlerAt(h, "publish") /\ ParseStep(d, queued) /\ HandlerStep(h, Idle)
        /\ UNCHANGED <<regime, person, cvs, events>>
    BY <1>2 DEF delay
  <2>2. UNCHANGED <<made, doc, stored, bytes>> /\ UNCHANGED <<profile, form, typed>>
    BY <2>1 DEF cvs, person
  <2>3. d \in Docs /\ d \in 1..made /\ d \in Publishing
    BY <2>1 DEF Shape, HandlersGood, GoodHandler, HandlerAt, CvPc, HandlerRecord, Publishing
  <2>4. GoodParse(queued) /\ queued.pc = "queued"
    BY EmptyGood DEF GoodParse, NoParse, ParseRecord, ParsePc
  <2> HIDE DEF d, queued
  <2>5. /\ ParsesGood' /\ parse'[d] = queued /\ Parsing' \subseteq Parsing \cup {d}
        /\ \A e \in Docs \ {d} : parse'[e] = parse[e]
    BY <2>1, <2>2, <2>3, <2>4, ParseGoes DEF Shape
  <2>6. /\ HandlersGood' /\ handler'[h].pc = "idle"
        /\ \A g \in Handlers \ {h} : handler'[g] = handler[g]
    BY <2>1, <2>2, HandlerEnds
  <2>7. Shape'
    BY <2>1, <2>5, <2>6, ShapeUnchanged DEF Shape
  <2>8. Calm /\ Steady
    BY <2>1, <2>2, <2>4, <2>5, <2>6 DEF Calm, Steady, CvsKept, CvPc
  <2>9. Along
    BY <2>2, <2>3, <2>4, <2>5 DEF Along
  <2>10. QED
    BY <2>7, <2>8, <2>9
<1>3. ASSUME NEW h \in Handlers, StorageError(h) \/ DelayFails(h) \/ ApiCrash(h)
      PROVE  Shape' /\ Calm /\ Steady /\ Along
  <2>1. /\ HandlerStep(h, Idle) /\ UNCHANGED <<regime, person, made, bytes, parse>>
        /\ \E kind \in {"storage_error", "publish_error", "api_crash"} : Event(kind)
    BY <1>3 DEF StorageError, DelayFails, ApiCrash, cvs
  <2>2. UNCHANGED <<profile, form, typed>>
    BY <2>1 DEF person
  <2>3. /\ HandlersGood' /\ handler'[h].pc = "idle"
        /\ \A g \in Handlers \ {h} : handler'[g] = handler[g]
    BY <2>1, HandlerEnds
  <2>4. PersonGood'
    BY <2>1, EventCounted
  <2>5. /\ CvsGood' /\ stored \subseteq stored' /\ \A e \in Docs : doc'[e].cv = doc[e].cv
        /\ \A e \in Docs : doc'[e].status = "done" => doc[e].status = "done"
    <3>1. CASE DelayFails(h)
      <4>1. handler[h].doc \in Docs /\ handler[h].doc \in 1..made
        BY <3>1 DEF DelayFails, Shape, HandlersGood, GoodHandler, HandlerAt, CvPc, HandlerRecord
      <4>2. SaveDoc(handler[h].doc, "failed")
        BY <3>1 DEF DelayFails, SaveDoc
      <4>3. QED
        BY <2>1, <4>1, <4>2, SavedDoc
    <3>2. CASE StorageError(h) \/ ApiCrash(h)
      BY <3>2, ShapeUnchanged DEF StorageError, ApiCrash, cvs
    <3>3. QED
      BY <1>3, <3>1, <3>2
  <2>6. Shape'
    BY <2>1, <2>3, <2>4, <2>5, ShapeUnchanged DEF Shape
  <2>7. Calm /\ Steady
    BY <2>1, <2>2, <2>3, <2>5 DEF Calm, Steady, CvsKept, CvPc
  <2>8. Along
    BY <2>1, <2>5 DEF Along, Parsing
  <2>9. QED
    BY <2>6, <2>7, <2>8
<1>4. QED
  BY <1>1, <1>2, <1>3

\* Where a handler goes when it has nothing more to discard.
LEMMA ThenGood ==
  ASSUME Shape, UNCHANGED made, NEW h \in Handlers, handler[h].pc \in CvPc
  PROVE  /\ GoodNext(Then(h)) /\ Then(h).pc \in {"idle", "publish"}
         /\ Then(h).pc = "publish" => Then(h).doc = handler[h].doc
<1>1. GoodHandler(handler[h]) /\ handler[h] \in HandlerRecord
  BY DEF Shape, HandlersGood, GoodHandler
<1>2. GoodHandler(Idle) /\ Idle.pc = "idle"
  BY EmptyGood DEF Idle
<1> DEFINE publish == [handler[h] EXCEPT !.pc = "publish", !.olds = {}]
<1>3. /\ publish \in HandlerRecord /\ publish.copy = handler[h].copy /\ publish.pc = "publish"
      /\ publish.doc = handler[h].doc
  BY <1>1 DEF HandlerRecord, HandlerPc
<1>4. Then(h) \in {Idle, publish}
  BY DEF Then
<1> HIDE DEF publish
<1>5. QED
  BY <1>1, <1>2, <1>3, <1>4 DEF GoodHandler, GoodNext, CvPc

\* What a handler that replaces goes on with, and what it has removed.
Replaces(h, new) ==
    \/ new.pc = "idle"
    \/ new.pc = "publish" /\ new.doc = handler[h].doc
    \/ /\ new.pc = "discard" /\ new.doc = handler[h].doc
       /\ new.olds \subseteq IF HandlerAt(h, "list") THEN Superseded(h) ELSE handler[h].olds
Removes(h) ==
    /\ HandlerAt(h, "list") => UNCHANGED <<stored, bytes>>
    /\ HandlerAt(h, "discard") =>
         /\ stored \subseteq stored' \cup handler[h].olds
         /\ bytes \subseteq bytes' \cup handler[h].olds

\* Listing and discarding what the new CV replaces.
LEMMA Replacing ==
  ASSUME Shape, NEW h \in Handlers, ListOld(h) \/ \E d \in Docs : DiscardOld(h, d)
  PROVE  /\ Shape' /\ Calm /\ Along
         /\ \A g \in Handlers \ {h} : handler'[g] = handler[g]
         /\ Replaces(h, handler'[h]) /\ Removes(h)
         /\ handler[h].pc \in {"list", "discard"}
<1> DEFINE x == handler[h]
<1>1. /\ GoodHandler(x) /\ x \in HandlerRecord /\ x.pc \in {"list", "discard"}
      /\ stored \subseteq Docs /\ made \in Nat
  <2>1. stored \subseteq Docs /\ made \in Nat
    BY OnboardingBounds DEF Shape, CvsGood, Docs
  <2>2. QED
    BY <2>1 DEF ListOld, DiscardOld, HandlerAt, Shape, HandlersGood, GoodHandler
<1>2. UNCHANGED <<regime, person, made, doc, parse, events>> /\ UNCHANGED <<profile, form, typed>>
  BY DEF ListOld, DiscardOld, cvs, person
<1>3. /\ GoodNext(Then(h)) /\ Then(h).pc \in {"idle", "publish"}
      /\ Then(h).pc = "publish" => Then(h).doc = x.doc
  BY <1>1, <1>2, ThenGood DEF CvPc
<1>4. GoodNext(x) /\ Replaces(h, Then(h))
  BY <1>1, <1>2, <1>3 DEF GoodHandler, GoodNext, Replaces
<1>5. /\ \/ \E new : HandlerStep(h, new) /\ GoodNext(new) /\ Replaces(h, new)
         \/ UNCHANGED handler /\ HandlerAt(h, "discard")
      /\ Removes(h) /\ stored' \cup bytes' \subseteq stored \cup bytes
  <2>1. CASE ListOld(h)
    <3> DEFINE discard == [x EXCEPT !.pc = "discard", !.olds = Superseded(h)]
    <3>1. /\ discard \in HandlerRecord /\ discard.copy = x.copy /\ discard.pc = "discard"
          /\ discard.doc = x.doc /\ discard.olds = Superseded(h)
      BY <1>1 DEF HandlerRecord, HandlerPc, Superseded
    <3>2. HandlerStep(h, Then(h)) \/ HandlerStep(h, discard)
      BY <2>1 DEF ListOld
    <3>3. HandlerAt(h, "list") /\ UNCHANGED <<stored, bytes>>
      BY <2>1 DEF ListOld, cvs
    <3>4. Removes(h) /\ stored' \cup bytes' \subseteq stored \cup bytes
      BY <3>3 DEF Removes, HandlerAt
    <3> HIDE DEF discard
    <3>5. GoodNext(discard) /\ Replaces(h, discard)
      BY <1>1, <1>2, <3>1, <3>3 DEF GoodHandler, GoodNext, CvPc, Replaces
    <3> HIDE DEF x
    <3>6. QED
      BY <1>3, <1>4, <3>2, <3>4, <3>5
  <2>2. ASSUME NEW d \in Docs, DiscardOld(h, d)
        PROVE  /\ \/ \E new : HandlerStep(h, new) /\ GoodNext(new) /\ Replaces(h, new)
                  \/ UNCHANGED handler /\ HandlerAt(h, "discard")
               /\ Removes(h) /\ stored' \cup bytes' \subseteq stored \cup bytes
    <3> DEFINE fewer == [x EXCEPT !.olds = x.olds \ {d}]
    <3>1. HandlerAt(h, "discard") /\ d \in x.olds
      BY <2>2 DEF DiscardOld
    <3>2. /\ stored \subseteq stored' \cup {d} /\ bytes \subseteq bytes' \cup {d}
          /\ stored' \subseteq stored /\ bytes' \subseteq bytes
      BY <2>2 DEF DiscardOld
    <3>3. Removes(h) /\ stored' \cup bytes' \subseteq stored \cup bytes
      BY <3>1, <3>2 DEF Removes, HandlerAt
    <3>4. UNCHANGED handler \/ HandlerStep(h, Then(h)) \/ HandlerStep(h, fewer)
      BY <2>2 DEF DiscardOld
    <3>5. /\ fewer \in HandlerRecord /\ fewer.copy = x.copy /\ fewer.pc = x.pc
          /\ fewer.doc = x.doc /\ fewer.olds \subseteq x.olds
      BY <1>1 DEF HandlerRecord
    <3> HIDE DEF fewer
    <3>6. GoodNext(fewer) /\ Replaces(h, fewer)
      BY <1>1, <1>2, <3>1, <3>5 DEF GoodHandler, GoodNext, Replaces, HandlerAt
    <3> HIDE DEF x
    <3>7. QED
      BY <1>3, <1>4, <3>1, <3>3, <3>4, <3>6
  <2>3. QED
    BY <2>1, <2>2
<1>6. CvsGood'
  BY <1>2, <1>5 DEF Shape, CvsGood
<1>7. /\ HandlersGood' /\ Replaces(h, handler'[h])
      /\ \A g \in Handlers \ {h} : handler'[g] = handler[g]
  <2>1. CASE UNCHANGED handler /\ HandlerAt(h, "discard")
    <3>1. Replaces(h, x)
      BY <2>1 DEF Replaces, HandlerAt
    <3>2. QED
      BY <1>2, <2>1, <3>1, ShapeUnchanged DEF Shape
  <2>2. ASSUME NEW new, HandlerStep(h, new), GoodNext(new), Replaces(h, new)
        PROVE  /\ HandlersGood' /\ Replaces(h, handler'[h])
               /\ \A g \in Handlers \ {h} : handler'[g] = handler[g]
    BY <1>1, <1>2, <2>2, HandlerGoes DEF Shape
  <2>3. QED
    BY <1>5, <2>1, <2>2
<1>8. Shape'
  BY <1>2, <1>6, <1>7, ShapeUnchanged DEF Shape
<1>9. Calm
  BY <1>2, <1>7 DEF Calm, Replaces
<1>10. Along
  BY <1>2 DEF Along, Parsing
<1>11. QED
  BY <1>1, <1>5, <1>7, <1>8, <1>9, <1>10

\* An object is stored, whose row is to be inserted.
Uploads(h, kind) ==
    /\ handler'[h].pc = "insert" /\ handler'[h].kind = kind
    /\ \A g \in Handlers \ {h} : handler'[g] = handler[g]
    /\ UNCHANGED <<regime, parse>>
LEMMA Uploading ==
  ASSUME Shape, NEW h \in Handlers, NEW c \in CVs, NEW kind \in {"upload", "build"},
         Upload(h, c, kind), Event(kind)
  PROVE  Shape' /\ Calm /\ CvsKept /\ Along /\ Uploads(h, kind)
<1> DEFINE x == [Idle EXCEPT !.pc = "insert", !.cv = c, !.kind = kind]
<1>1. HandlerStep(h, x) /\ UNCHANGED <<regime, person, cvs, parse>>
  BY DEF Upload
<1>2. UNCHANGED <<profile, form, typed, made, doc, stored, bytes>>
  BY <1>1 DEF person, cvs
<1>3. x \in HandlerRecord /\ x.pc = "insert" /\ x.copy = Empty /\ x.kind = kind
  BY EmptyGood DEF GoodHandler, Idle, HandlerRecord, HandlerPc
<1> HIDE DEF x
<1>4. GoodNext(x)
  BY <1>3, EmptyGood DEF GoodNext, CvPc
<1>5. /\ HandlersGood' /\ handler'[h] = x /\ \A g \in Handlers \ {h} : handler'[g] = handler[g]
  BY <1>1, <1>2, <1>4, OnboardingBounds, HandlerGoes DEF Shape, CvsGood
<1>6. Shape'
  BY <1>1, <1>2, <1>5, EventCounted, ShapeUnchanged DEF Shape
<1>7. Calm /\ CvsKept
  BY <1>1, <1>2, <1>3, <1>5 DEF Calm, CvsKept, CvPc
<1>8. Along
  BY <1>1, <1>2 DEF Along, Parsing
<1>9. QED
  BY <1>1, <1>3, <1>5, <1>6, <1>7, <1>8 DEF Uploads

\* A CV is inserted: an upload that is to be parsed, or a build that is not.
Inserts(h, status) ==
    /\ made' = made + 1 /\ made' \in Docs /\ UNCHANGED parse
    /\ stored' = stored \cup {made'} /\ bytes' = bytes \cup {made'}
    /\ handler'[h].pc = "list" /\ handler'[h].doc = made'
    /\ \A g \in Handlers \ {h} : handler'[g] = handler[g]
    /\ doc'[made'].status = status /\ \A d \in Docs \ {made'} : doc'[d] = doc[d]
LEMMA Inserting ==
  ASSUME Shape, NEW h \in Handlers, Insert(h)
  PROVE  /\ Shape' /\ Calm /\ HandlerAt(h, "insert")
         /\ Inserts(h, IF handler[h].kind = "build" THEN "done" ELSE "pending")
<1> DEFINE c == handler[h].cv
           kind == handler[h].kind
           status == IF kind = "build" THEN "done" ELSE "pending"
<1> DEFINE list == [Idle EXCEPT !.pc = "list", !.doc = made + 1, !.kind = kind]
<1>1. /\ HandlerAt(h, "insert") /\ made < MaxDocs /\ UNCHANGED events
      /\ c \in CVs /\ kind \in {"update", "strategy", "upload", "build"}
      /\ status \in {"pending", "done"}
  BY DEF Insert, Shape, HandlersGood, GoodHandler, HandlerRecord
<1>2. /\ made' = made + 1 /\ HandlerStep(h, list) /\ UNCHANGED <<regime, person, parse>>
      /\ stored' = stored \cup {made + 1} /\ bytes' = bytes \cup {made + 1}
      /\ doc' = [doc EXCEPT ![made + 1] = [cv |-> c, status |-> status]]
  BY DEF Insert
<1> HIDE DEF c, kind, status
<1>3. UNCHANGED <<profile, form, typed>>
  BY <1>2 DEF person
<1>4. made \in Nat /\ made + 1 \in Docs /\ made + 1 \in 1..(made + 1) /\ made <= made + 1
  BY <1>1, OnboardingBounds DEF Shape, CvsGood, Docs
<1>5. GoodNext(list) /\ list.pc = "list" /\ list.doc = made + 1
  BY <1>1, <1>2, <1>4, EmptyGood DEF GoodHandler, GoodNext, Idle, HandlerRecord, HandlerPc
<1> HIDE DEF list
<1>6. /\ HandlersGood' /\ handler'[h] = list
      /\ \A g \in Handlers \ {h} : handler'[g] = handler[g]
  BY <1>2, <1>4, <1>5, HandlerGoes DEF Shape
<1>7. PersonGood'
  BY <1>1, <1>2, ShapeUnchanged
<1>8. /\ CvsGood' /\ doc'[made + 1].status = status
      /\ \A d \in Docs \ {made + 1} : doc'[d] = doc[d]
  <2>1. /\ doc \in [Docs -> DocRecord] /\ stored \cup bytes \subseteq 1..made /\ made \in 0..MaxDocs
        /\ MaxDocs \in Nat
    BY OnboardingBounds DEF Shape, CvsGood
  <2>2. [cv |-> c, status |-> status] \in DocRecord
    BY <1>1 DEF DocRecord
  <2>3. stored' \cup bytes' \subseteq 1..made' /\ made' \in 0..MaxDocs
    BY <1>2, <1>4, <2>1 DEF Docs
  <2>4. QED
    BY <1>2, <1>4, <2>1, <2>2, <2>3 DEF CvsGood
<1>9. ParsesGood'
  <2>1. ParsesGood /\ 1..made \subseteq 1..made'
    BY <1>2, <1>4 DEF Shape
  <2>2. QED
    BY <1>2, <2>1 DEF ParsesGood, GoodParse, Parsing
<1>10. Shape'
  BY <1>6, <1>7, <1>8, <1>9 DEF Shape
<1>11. Calm
  BY <1>2, <1>3, <1>5, <1>6 DEF Calm
<1>12. Inserts(h, status)
  BY <1>2, <1>4, <1>5, <1>6, <1>8 DEF Inserts
<1>13. QED
  BY <1>1, <1>10, <1>11, <1>12 DEF kind, status

\* A request takes a copy of the profile, to save it with what the page sends or with another
\* strategy.
Reading(h, x) ==
    /\ handler'[h] = x /\ \A g \in Handlers \ {h} : handler'[g] = handler[g]
    /\ x.pc = "save" /\ x.copy = profile /\ MayRead
    /\ UNCHANGED <<regime, profile, form, typed, made, doc, stored, bytes, parse>>
LEMMA Editing ==
  ASSUME Shape, NEW h \in Handlers, NEW edited \in SUBSET Fields, NEW answer \in {Typed, Blank},
         ReadForUpdate(h, edited, answer)
  PROVE  \E x :
           /\ Shape' /\ Reading(h, x) /\ x.kind = "update" /\ x.edited = edited
           /\ \A f \in Fields :
                x.sent[f] = IF f \in edited THEN answer
                            ELSE (IF "stale" \in regime THEN form ELSE profile.value)[f]
<1> DEFINE page == IF "stale" \in regime THEN form ELSE profile.value
           sent == [f \in Fields |-> IF f \in edited THEN answer ELSE page[f]]
           x == [Idle EXCEPT !.pc = "save", !.copy = profile, !.edited = edited, !.sent = sent]
<1>1. page \in [Fields -> Values] /\ profile \in Profile /\ Honest(profile)
  BY DEF Shape, PersonGood, Honest, Profile
<1>2. /\ sent \in [Fields -> Values]
      /\ \A f \in Fields : sent[f] = IF f \in edited THEN answer ELSE page[f]
  <2>1. answer \in {Typed, Blank} /\ {Typed, Blank} \subseteq Values
    BY DEF Values
  <2> HIDE DEF page
  <2>2. QED
    BY <1>1, <2>1
<1>3. /\ Event("edit") /\ MayRead /\ HandlerStep(h, x) /\ UNCHANGED <<regime, person, cvs, parse>>
  BY DEF ReadForUpdate
<1>4. UNCHANGED <<profile, form, typed, made, doc, stored, bytes>>
  BY <1>3 DEF person, cvs
<1> HIDE DEF sent, page
<1>5. /\ x \in HandlerRecord /\ x.pc = "save" /\ x.copy = profile /\ x.edited = edited
      /\ x.sent = sent /\ x.kind = "update"
  BY <1>1, <1>2, EmptyGood DEF GoodHandler, Idle, HandlerRecord, HandlerPc
<1> HIDE DEF x
<1>6. GoodNext(x)
  BY <1>1, <1>5 DEF GoodNext, CvPc
<1>7. /\ HandlersGood' /\ handler'[h] = x /\ \A g \in Handlers \ {h} : handler'[g] = handler[g]
  BY <1>3, <1>4, <1>6, OnboardingBounds, HandlerGoes DEF Shape, CvsGood
<1>8. Shape'
  BY <1>3, <1>4, <1>7, EventCounted, ShapeUnchanged DEF Shape
<1>9. Reading(h, x)
  BY <1>3, <1>4, <1>5, <1>7 DEF Reading
<1>10. QED
  BY <1>2, <1>5, <1>8, <1>9 DEF page

LEMMA Choosing ==
  ASSUME Shape, NEW h \in Handlers, set_resume_strategy(h)
  PROVE  LET x == [Idle EXCEPT !.pc = "save", !.copy = profile, !.kind = "strategy"]
         IN  Shape' /\ Reading(h, x) /\ x.kind = "strategy" /\ x.edited = {}
<1> DEFINE x == [Idle EXCEPT !.pc = "save", !.copy = profile, !.kind = "strategy"]
<1>1. profile \in Profile /\ Honest(profile)
  BY DEF Shape, PersonGood, Honest
<1>2. /\ Event("strategy") /\ MayRead /\ HandlerStep(h, x)
      /\ UNCHANGED <<regime, person, cvs, parse>>
  BY DEF set_resume_strategy
<1>3. UNCHANGED <<profile, form, typed, made, doc, stored, bytes>>
  BY <1>2 DEF person, cvs
<1>4. /\ x \in HandlerRecord /\ x.pc = "save" /\ x.copy = profile /\ x.edited = {}
      /\ x.kind = "strategy"
  BY <1>1, EmptyGood DEF GoodHandler, Idle, HandlerRecord, HandlerPc
<1> HIDE DEF x
<1>5. GoodNext(x)
  BY <1>1, <1>4 DEF GoodNext, CvPc
<1>6. /\ HandlersGood' /\ handler'[h] = x /\ \A g \in Handlers \ {h} : handler'[g] = handler[g]
  BY <1>2, <1>3, <1>5, OnboardingBounds, HandlerGoes DEF Shape, CvsGood
<1>7. Shape'
  BY <1>2, <1>3, <1>6, EventCounted, ShapeUnchanged DEF Shape
<1>8. Reading(h, x)
  BY <1>2, <1>3, <1>4, <1>6 DEF Reading
<1>9. QED
  BY <1>4, <1>7, <1>8 DEF x

\* A parse takes a copy of the profile and fills it.
Filling(d) ==
    /\ MayRead /\ ParseAt(d, "read")
    /\ parse'[d].pc = "save"
    /\ parse'[d].copy = apply_to_profile(profile, doc[d].cv, parse[d].ai)
    /\ \A e \in Docs \ {d} : parse'[e] = parse[e]
    /\ UNCHANGED <<regime, profile, form, typed, made, doc, stored, bytes, handler>>
LEMMA TakesProfile ==
  ASSUME Shape, NEW d \in Docs, ReadProfile(d)
  PROVE  /\ Shape' /\ Steady /\ Filling(d) /\ d \in Parsing /\ Parsing' \subseteq Parsing
         /\ doc[d].cv \in CVs /\ parse[d].ai \in BOOLEAN
<1> DEFINE x == parse[d]
           copy == apply_to_profile(profile, doc[d].cv, x.ai)
           save == [x EXCEPT !.pc = "save", !.copy = copy]
<1>1. /\ d \in 1..made /\ d \in Parsing /\ GoodParse(x) /\ x \in ParseRecord
      /\ x.ai \in BOOLEAN /\ doc[d].cv \in CVs /\ Honest(profile)
  <2>1. x.pc \notin {"none", "over"}
    BY DEF ReadProfile, ParseAt
  <2>2. QED
    BY <2>1, RunsOnInserted
       DEF Shape, ParsesGood, GoodParse, ParseRecord, CvsGood, DocRecord, PersonGood
<1>2. /\ ParseAt(d, "read") /\ MayRead /\ ParseStep(d, save)
      /\ UNCHANGED <<regime, person, cvs, handler, events>>
  BY DEF ReadProfile
<1>3. UNCHANGED <<profile, form, typed, made, doc, stored, bytes>>
  BY <1>2 DEF person, cvs
<1>4. Honest(copy)
  BY <1>1, ApplyHonest
<1> HIDE DEF copy
<1>5. save \in ParseRecord /\ save.copy = copy /\ save.pc = "save"
  BY <1>1, <1>4 DEF ParseRecord, ParsePc, Honest
<1> HIDE DEF save
<1>6. GoodParse(save)
  BY <1>4, <1>5 DEF GoodParse
<1>7. /\ ParsesGood' /\ parse'[d] = save /\ Parsing' \subseteq Parsing \cup {d}
      /\ \A e \in Docs \ {d} : parse'[e] = parse[e]
  BY <1>1, <1>2, <1>3, <1>6, ParseGoes DEF Shape
<1>8. Shape'
  BY <1>2, <1>3, <1>7, ShapeUnchanged DEF Shape
<1>9. Steady
  BY <1>2, <1>3 DEF Steady, CvsKept
<1>10. Filling(d)
  BY <1>2, <1>3, <1>5, <1>7 DEF Filling, copy
<1>11. QED
  BY <1>1, <1>7, <1>8, <1>9, <1>10

\* A parse saves its copy.
Filled(d) ==
    /\ ParseAt(d, "save") /\ profile' = parse[d].copy
    /\ parse'[d].pc = "done" /\ \A e \in Docs \ {d} : parse'[e] = parse[e]
    /\ UNCHANGED <<regime, form, typed, made, doc, stored, bytes, handler>>
LEMMA SavesProfile ==
  ASSUME Shape, NEW d \in Docs, SaveProfile(d)
  PROVE  Shape' /\ Steady /\ Filled(d) /\ d \in Parsing /\ Parsing' \subseteq Parsing
<1> DEFINE x == parse[d]
           done == [x EXCEPT !.pc = "done", !.copy = Empty]
<1>1. /\ d \in 1..made /\ d \in Parsing /\ GoodParse(x) /\ x \in ParseRecord /\ Honest(x.copy)
  <2>1. x.pc \notin {"none", "over"}
    BY DEF SaveProfile, ParseAt
  <2>2. QED
    BY <2>1, RunsOnInserted DEF Shape, ParsesGood, GoodParse
<1>2. /\ ParseAt(d, "save") /\ ParseStep(d, done) /\ profile' = x.copy
      /\ UNCHANGED <<regime, form, typed, cvs, handler, events>>
  BY DEF SaveProfile, Save
<1>3. UNCHANGED <<made, doc, stored, bytes>>
  BY <1>2 DEF cvs
<1>4. Honest(Empty) /\ Empty \in Profile
  BY EmptyGood DEF Honest
<1>5. done \in ParseRecord /\ done.copy = Empty /\ done.pc = "done"
  BY <1>1, <1>4 DEF ParseRecord, ParsePc
<1> HIDE DEF done
<1>6. GoodParse(done)
  BY <1>4, <1>5 DEF GoodParse
<1>7. /\ ParsesGood' /\ parse'[d] = done /\ Parsing' \subseteq Parsing \cup {d}
      /\ \A e \in Docs \ {d} : parse'[e] = parse[e]
  BY <1>1, <1>2, <1>3, <1>6, ParseGoes DEF Shape
<1>8. PersonGood'
  <2>1. \A p : Honest(p) => Honest(p)'
    BY DEF Honest
  <2>2. QED
    BY <1>1, <1>2, <2>1 DEF Shape, PersonGood
<1>9. Shape'
  BY <1>2, <1>3, <1>7, <1>8, ShapeUnchanged DEF Shape
<1>10. Steady
  BY <1>2, <1>3 DEF Steady, CvsKept
<1>11. Filled(d)
  BY <1>2, <1>3, <1>5, <1>7 DEF Filled
<1>12. QED
  BY <1>1, <1>7, <1>9, <1>10, <1>11

\* A request saves the page it was sent, or the profile with another strategy.
TypedAfter(h, value) ==
    (typed \cup {f \in handler[h].edited : value[f] = Typed})
      \ {f \in handler[h].edited : value[f] = Blank}
Edited(h) ==
    /\ HandlerAt(h, "save") /\ handler'[h].pc = "idle"
    /\ \A g \in Handlers \ {h} : handler'[g] = handler[g]
    /\ UNCHANGED <<regime, made, doc, stored, bytes, parse>>
    /\ LET x == handler[h]
       IN  IF x.kind = "update"
             THEN /\ profile'.value = x.sent /\ typed' = TypedAfter(h, x.sent)
                  /\ \A f \in Fields :
                       f \in profile'.ours <=> f \in x.copy.ours /\ x.sent[f] = x.copy.value[f]
                  /\ form' = IF "stale" \in regime THEN x.sent ELSE form
             ELSE /\ profile'.value = x.copy.value /\ profile'.ours = x.copy.ours
                  /\ form' = form
                  /\ x.edited = {} => typed' = typed
LEMMA Updates ==
  ASSUME Shape, NEW h \in Handlers, SaveUpdate(h)
  PROVE  Shape' /\ Steady /\ Edited(h)
<1> DEFINE x == handler[h]
           new == update_profile(x.copy, x.sent)
           strategy == [x.copy EXCEPT !.strategy = "tailored"]
<1>1. /\ x \in HandlerRecord /\ Honest(x.copy)
      /\ x.sent \in [Fields -> Values] /\ x.edited \subseteq Fields
  BY DEF Shape, HandlersGood, GoodHandler, HandlerRecord
<1>2. /\ HandlerAt(h, "save") /\ HandlerStep(h, Idle) /\ UNCHANGED <<regime, cvs, parse, events>>
      /\ profile' = IF x.kind = "update" THEN new ELSE strategy
      /\ form' = IF "stale" \in regime /\ x.kind = "update" THEN new.value ELSE form
      /\ typed' = TypedAfter(h, new.value)
  BY DEF SaveUpdate, Save, TypedAfter
<1>3. UNCHANGED <<made, doc, stored, bytes>>
  BY <1>2 DEF cvs
<1>4. /\ Honest(new) /\ new.value = x.sent
      /\ \A f \in Fields : f \in new.ours <=> f \in x.copy.ours /\ x.sent[f] = x.copy.value[f]
  BY <1>1, UpdateHonest
<1>5. Honest(strategy) /\ strategy.value = x.copy.value /\ strategy.ours = x.copy.ours
  BY <1>1 DEF Honest, Profile, Strategies
<1> HIDE DEF new, strategy
<1>6. /\ HandlersGood' /\ handler'[h].pc = "idle"
      /\ \A g \in Handlers \ {h} : handler'[g] = handler[g]
  BY <1>2, <1>3, HandlerEnds
<1>7. PersonGood'
  <2>1. Honest(profile)'
    BY <1>2, <1>4, <1>5 DEF Honest
  <2>2. form' \in [Fields -> Values] /\ typed' \subseteq Fields
    BY <1>1, <1>2, <1>4 DEF Shape, PersonGood, TypedAfter
  <2>3. QED
    BY <1>2, <2>1, <2>2 DEF Shape, PersonGood
<1>8. Shape'
  BY <1>2, <1>3, <1>6, <1>7, ShapeUnchanged DEF Shape
<1>9. Steady
  BY <1>3, <1>6 DEF Steady, CvsKept, CvPc
<1>10. Edited(h)
  <2>1. CASE x.kind = "update"
    BY <1>2, <1>3, <1>4, <1>6, <2>1 DEF Edited
  <2>2. CASE x.kind # "update"
    <3>1. x.edited = {} => typed' = typed
      BY <1>2 DEF TypedAfter
    <3>2. QED
      BY <1>2, <1>3, <1>5, <1>6, <2>2, <3>1 DEF Edited
  <2>3. QED
    BY <2>1, <2>2
<1>11. QED
  BY <1>8, <1>9, <1>10

-----------------------------------------------------------------------------
(* What the user typed *)

\* Nobody else holds a copy when one is read, or saved.
LEMMA OneSaves ==
  ASSUME TypedInv, "overlap" \notin regime
  PROVE  /\ MayRead => /\ \A g \in Handlers : ~HandlerAt(g, "save")
                       /\ \A d \in Docs : ~ParseAt(d, "save")
         /\ \A h \in Handlers : HandlerAt(h, "save") =>
              /\ \A g \in Handlers \ {h} : ~HandlerAt(g, "save")
              /\ \A d \in Docs : ~ParseAt(d, "save")
         /\ \A d \in Docs : ParseAt(d, "save") =>
              /\ \A g \in Handlers : ~HandlerAt(g, "save")
              /\ \A e \in Docs \ {d} : ~ParseAt(e, "save")
<1>1. OneSaver
  BY DEF TypedInv
<1>2. QED
  BY <1>1 DEF OneSaver, MayRead, Saving

LEMMA TypedWhenCalm ==
  ASSUME Shape, TypedInv, Calm
  PROVE  TypedInv'
<1> SUFFICES ASSUME "overlap" \notin regime' PROVE TypedInv'
  BY DEF TypedInv
<1>1. "overlap" \notin regime /\ UNCHANGED <<regime, profile, typed>>
  BY DEF Calm
<1>2. /\ \A g \in Handlers : handler'[g].pc = "save" => handler'[g] = handler[g]
      /\ \A d \in Docs : parse'[d].pc = "save" => parse'[d] = parse[d]
      /\ form' = form \/ form' = profile.value
  BY DEF Calm
<1>3. /\ HoldsTyped(profile.value) /\ ("stale" \in regime => HoldsTyped(form)) /\ OneSaver
      /\ \A h \in Handlers : HandlerAt(h, "save") => SendsTyped(handler[h])
      /\ \A d \in Docs : ParseAt(d, "save") => HoldsTyped(parse[d].copy.value)
  BY <1>1 DEF TypedInv
<1>4. /\ \A x : HoldsTyped(x) => HoldsTyped(x)'
      /\ \A x : SendsTyped(x) => SendsTyped(x)'
  BY <1>1 DEF HoldsTyped, SendsTyped
<1>5. HoldsTyped(profile.value)' /\ ("stale" \in regime => HoldsTyped(form))'
  BY <1>1, <1>2, <1>3, <1>4
<1>6. OneSaver'
  BY <1>2, <1>3 DEF OneSaver, HandlerAt, ParseAt
<1>7. \A h \in Handlers : HandlerAt(h, "save")' => SendsTyped(handler[h])'
  BY <1>2, <1>3, <1>4 DEF HandlerAt
<1>8. \A d \in Docs : ParseAt(d, "save")' => HoldsTyped(parse[d].copy.value)'
  BY <1>2, <1>3, <1>4 DEF ParseAt
<1>9. QED
  BY <1>5, <1>6, <1>7, <1>8 DEF TypedInv

LEMMA TypedWhenRead ==
  ASSUME Shape, TypedInv, NEW h \in Handlers, NEW x, Reading(h, x),
         "overlap" \notin regime => SendsTyped(x)
  PROVE  TypedInv'
<1> SUFFICES ASSUME "overlap" \notin regime' PROVE TypedInv'
  BY DEF TypedInv
<1>1. /\ "overlap" \notin regime /\ UNCHANGED <<regime, profile, form, typed, parse>>
      /\ handler'[h] = x /\ \A g \in Handlers \ {h} : handler'[g] = handler[g]
      /\ MayRead
  BY DEF Reading
<1>2. /\ \A g \in Handlers : ~HandlerAt(g, "save")
      /\ \A d \in Docs : ~ParseAt(d, "save")
  BY <1>1, OneSaves
<1>3. \A g \in Handlers : HandlerAt(g, "save")' => g = h
  BY <1>1, <1>2 DEF HandlerAt
<1>4. \A d \in Docs : ~ParseAt(d, "save")'
  BY <1>1, <1>2 DEF ParseAt
<1>5. OneSaver'
  BY <1>3, <1>4 DEF OneSaver
<1>6. /\ HoldsTyped(profile.value)' /\ ("stale" \in regime => HoldsTyped(form))'
      /\ SendsTyped(x)'
  BY <1>1 DEF TypedInv, HoldsTyped, SendsTyped
<1>7. QED
  BY <1>1, <1>3, <1>4, <1>5, <1>6 DEF TypedInv

LEMMA TypedWhenFilled ==
  ASSUME Shape, TypedInv, NEW d \in Docs, Filling(d), doc[d].cv \in CVs, parse[d].ai \in BOOLEAN
  PROVE  TypedInv'
<1> SUFFICES ASSUME "overlap" \notin regime' PROVE TypedInv'
  BY DEF TypedInv
<1>1. /\ "overlap" \notin regime /\ UNCHANGED <<regime, profile, form, typed, handler>>
      /\ \A e \in Docs \ {d} : parse'[e] = parse[e]
      /\ parse'[d].copy = apply_to_profile(profile, doc[d].cv, parse[d].ai) /\ MayRead
  BY DEF Filling
<1>2. /\ \A g \in Handlers : ~HandlerAt(g, "save")
      /\ \A e \in Docs : ~ParseAt(e, "save")
  BY <1>1, OneSaves
<1>3. \A g \in Handlers : ~HandlerAt(g, "save")'
  BY <1>1, <1>2 DEF HandlerAt
<1>4. \A e \in Docs : ParseAt(e, "save")' => e = d
  BY <1>1, <1>2 DEF ParseAt
<1>5. OneSaver'
  BY <1>3, <1>4 DEF OneSaver
<1>6. /\ HoldsTyped(profile.value) /\ ("stale" \in regime => HoldsTyped(form))
      /\ typed \subseteq Fields /\ Honest(profile)
  BY <1>1 DEF TypedInv, Shape, PersonGood
<1>7. HoldsTyped(profile.value)' /\ ("stale" \in regime => HoldsTyped(form))'
  BY <1>1, <1>6 DEF HoldsTyped
<1>8. HoldsTyped(parse[d].copy.value)'
  <2>1. \A f \in Fields : profile.value[f] = Typed => parse'[d].copy.value[f] = Typed
    BY <1>1, <1>6, ApplyHonest
  <2>2. QED
    BY <1>1, <1>6, <2>1 DEF HoldsTyped
<1>9. QED
  BY <1>3, <1>4, <1>5, <1>7, <1>8 DEF TypedInv

LEMMA TypedWhenSaved ==
  ASSUME Shape, TypedInv, NEW d \in Docs, Filled(d)
  PROVE  TypedInv'
<1> SUFFICES ASSUME "overlap" \notin regime' PROVE TypedInv'
  BY DEF TypedInv
<1>1. /\ "overlap" \notin regime /\ UNCHANGED <<regime, form, typed, handler>>
      /\ \A e \in Docs \ {d} : parse'[e] = parse[e]
      /\ parse'[d].pc = "done" /\ profile' = parse[d].copy /\ ParseAt(d, "save")
  BY DEF Filled
<1>2. /\ \A g \in Handlers : ~HandlerAt(g, "save")
      /\ \A e \in Docs \ {d} : ~ParseAt(e, "save")
  BY <1>1, OneSaves
<1>3. /\ \A g \in Handlers : ~HandlerAt(g, "save")'
      /\ \A e \in Docs : ~ParseAt(e, "save")'
  BY <1>1, <1>2 DEF HandlerAt, ParseAt
<1>4. OneSaver'
  BY <1>3 DEF OneSaver
<1>5. HoldsTyped(parse[d].copy.value) /\ ("stale" \in regime => HoldsTyped(form))
  BY <1>1 DEF TypedInv
<1>6. HoldsTyped(profile.value)' /\ ("stale" \in regime => HoldsTyped(form))'
  BY <1>1, <1>5 DEF HoldsTyped
<1>7. QED
  BY <1>3, <1>4, <1>6 DEF TypedInv

\* An answer that is typed is there from its save on; one that is emptied is no longer typed.
LEMMA TypedWhenEdited ==
  ASSUME Shape, TypedInv, NEW h \in Handlers, Edited(h)
  PROVE  TypedInv'
<1> SUFFICES ASSUME "overlap" \notin regime' PROVE TypedInv'
  BY DEF TypedInv
<1> DEFINE x == handler[h]
<1>1. /\ "overlap" \notin regime /\ UNCHANGED <<regime, parse>>
      /\ \A g \in Handlers \ {h} : handler'[g] = handler[g]
      /\ handler'[h].pc = "idle" /\ HandlerAt(h, "save")
  BY DEF Edited
<1>2. /\ \A g \in Handlers \ {h} : ~HandlerAt(g, "save")
      /\ \A d \in Docs : ~ParseAt(d, "save")
  BY <1>1, OneSaves
<1>3. /\ \A g \in Handlers : ~HandlerAt(g, "save")'
      /\ \A d \in Docs : ~ParseAt(d, "save")'
  BY <1>1, <1>2 DEF HandlerAt, ParseAt
<1>4. OneSaver'
  BY <1>3 DEF OneSaver
<1>5. SendsTyped(x) /\ ("stale" \in regime => HoldsTyped(form)) /\ typed \subseteq Fields
  BY <1>1 DEF TypedInv, Shape, PersonGood
<1>6. HoldsTyped(profile.value)' /\ ("stale" \in regime => HoldsTyped(form))'
  <2>1. CASE x.kind = "update"
    <3>1. /\ profile'.value = x.sent /\ typed' = TypedAfter(h, x.sent)
          /\ form' = IF "stale" \in regime THEN x.sent ELSE form
      BY <2>1 DEF Edited
    <3>2. \A f \in Fields : /\ f \in x.edited => x.sent[f] \in {Typed, Blank}
                            /\ f \in typed \ x.edited => x.sent[f] = Typed
      BY <1>5, <2>1 DEF SendsTyped
    <3>3. x.edited \subseteq Fields
      BY DEF Shape, HandlersGood, GoodHandler, HandlerRecord
    <3>4. \A f \in typed' : x.sent[f] = Typed
      BY <1>5, <3>1, <3>2, <3>3 DEF TypedAfter
    <3>5. QED
      BY <1>1, <3>1, <3>4 DEF HoldsTyped
  <2>2. CASE x.kind # "update"
    <3>1. x.edited = {} /\ HoldsTyped(x.copy.value)
      BY <1>5, <2>2 DEF SendsTyped
    <3>2. profile'.value = x.copy.value /\ form' = form /\ typed' = typed
      BY <2>2, <3>1 DEF Edited
    <3>3. QED
      BY <1>1, <1>5, <3>1, <3>2 DEF HoldsTyped
  <2>3. QED
    BY <2>1, <2>2
<1>7. QED
  BY <1>3, <1>4, <1>6 DEF TypedInv

-----------------------------------------------------------------------------
(* The newest CV *)

\* No upload begins, and a parse begins only of what is published.
LEMMA AloneWhenNoneBegins ==
  ASSUME AloneInv, UNCHANGED regime, Parsing' \subseteq Parsing \cup Publishing,
         \A g \in Handlers : handler'[g].pc \in UploadPc => handler[g].pc \in UploadPc,
         \A g \in Handlers : handler'[g].pc = "insert" => handler'[g] = handler[g]
  PROVE  AloneInv'
<1>1. ASSUME "overlap" \notin regime'
      PROVE  \A g, h \in Handlers :
               handler'[g].pc \in UploadPc /\ handler'[h].pc \in UploadPc => g = h
  BY <1>1 DEF AloneInv
<1>2. ASSUME InTurn', NEW h \in Handlers, handler'[h].pc = "insert"
      PROVE  handler'[h].kind = "upload" /\ Parsing' = {}
  <2>1. InTurn /\ "overlap" \notin regime /\ handler'[h] = handler[h] /\ HandlerAt(h, "insert")
    BY <1>2 DEF InTurn, HandlerAt
  <2>2. handler[h].kind = "upload" /\ Parsing = {}
    BY <2>1 DEF AloneInv
  <2>3. \A g \in Handlers : ~HandlerAt(g, "publish")
    BY <2>1 DEF AloneInv, UploadPc, CvPc, HandlerAt
  <2>4. Publishing = {}
    BY <2>3 DEF Publishing
  <2>5. QED
    BY <2>1, <2>2, <2>4
<1>3. QED
  BY <1>1, <1>2 DEF AloneInv, HandlerAt, UploadPc, CvPc

LEMMA AloneWhenSteady ==
  ASSUME AloneInv, Steady, UNCHANGED regime, Parsing' \subseteq Parsing \cup Publishing
  PROVE  AloneInv'
<1>1. \A g \in Handlers :
        handler'[g].pc \in UploadPc => handler'[g] = handler[g] /\ handler[g].pc \in UploadPc
  BY DEF Steady, CvsKept, UploadPc
<1>2. \A g \in Handlers : handler'[g].pc = "insert" => handler'[g] = handler[g]
  BY DEF Steady
<1>3. QED
  BY <1>1, <1>2, AloneWhenNoneBegins

LEMMA AloneWhenUploaded ==
  ASSUME NEW h \in Handlers, NEW kind, Uploads(h, kind),
         "overlap" \notin regime => \A g \in Handlers : HandlerAt(g, "idle"),
         InTurn => kind = "upload" /\ Parsing = {}
  PROVE  AloneInv'
<1>1. ASSUME "overlap" \notin regime'
      PROVE  \A g \in Handlers : handler'[g].pc \in UploadPc => g = h
  BY <1>1 DEF Uploads, HandlerAt, UploadPc, CvPc
<1>2. ASSUME InTurn', NEW g \in Handlers, handler'[g].pc = "insert"
      PROVE  handler'[g].kind = "upload" /\ Parsing' = {}
  <2>1. InTurn /\ "overlap" \notin regime' /\ UNCHANGED parse
    BY <1>2 DEF Uploads, InTurn
  <2>2. g = h /\ Parsing' = Parsing
    BY <1>1, <1>2, <2>1 DEF UploadPc, Parsing
  <2>3. QED
    BY <2>1, <2>2 DEF Uploads
<1>3. QED
  BY <1>1, <1>2 DEF AloneInv, HandlerAt, UploadPc, CvPc


LEMMA NewestWhenSteady ==
  ASSUME CvInv, CvsKept, UNCHANGED regime
  PROVE  CvInv'
<1> SUFFICES ASSUME "overlap" \notin regime' PROVE CvInv'
  BY DEF CvInv
<1>1. /\ made > 0 => made \in stored \cap bytes
      /\ \A h \in Handlers : WorksOnNewest(handler[h])
  BY DEF CvInv
<1>2. (made > 0 => made \in stored \cap bytes)'
  BY <1>1 DEF CvsKept
<1>3. \A h \in Handlers : WorksOnNewest(handler[h])'
  BY <1>1 DEF CvsKept, WorksOnNewest, CvPc
<1>4. QED
  BY <1>2, <1>3 DEF CvInv

\* The handler discards what is older than its own CV, and no other one is at work.
LEMMA NewestWhenReplacing ==
  ASSUME Shape, CvInv, NEW h \in Handlers, UNCHANGED <<regime, made>>,
         \A g \in Handlers \ {h} : handler'[g] = handler[g],
         Replaces(h, handler'[h]), Removes(h), handler[h].pc \in {"list", "discard"}
  PROVE  CvInv'
<1> SUFFICES ASSUME "overlap" \notin regime' PROVE CvInv'
  BY DEF CvInv
<1> DEFINE x == handler[h]
<1>1. /\ made > 0 => made \in stored \cap bytes
      /\ \A g \in Handlers : WorksOnNewest(handler[g])
  BY DEF CvInv
<1>2. x.doc = made /\ (x.pc = "discard" => made \notin x.olds)
  BY <1>1 DEF WorksOnNewest, CvPc
<1>3. (made > 0 => made \in stored \cap bytes)'
  BY <1>1, <1>2 DEF Removes, HandlerAt
<1>4. WorksOnNewest(handler[h])'
  <2>1. made \notin Superseded(h)
    BY <1>2 DEF Superseded
  <2>2. QED
    BY <1>2, <2>1 DEF Replaces, WorksOnNewest, HandlerAt, CvPc
<1>5. \A g \in Handlers \ {h} : WorksOnNewest(handler[g])'
  BY <1>1 DEF WorksOnNewest
<1>6. QED
  BY <1>3, <1>4, <1>5 DEF CvInv

LEMMA NewestWhenInserted ==
  ASSUME CvInv, NEW h \in Handlers, NEW status, Inserts(h, status), UNCHANGED regime,
         "overlap" \notin regime => \A g \in Handlers \ {h} : handler[g].pc \notin CvPc
  PROVE  CvInv'
<1> SUFFICES ASSUME "overlap" \notin regime' PROVE CvInv'
  BY DEF CvInv
<1>1. made' \in stored' \cap bytes'
  BY DEF Inserts
<1>2. WorksOnNewest(handler[h])'
  BY DEF Inserts, WorksOnNewest
<1>3. \A g \in Handlers \ {h} : handler'[g].pc \notin CvPc
  BY DEF Inserts
<1>4. \A g \in Handlers \ {h} : WorksOnNewest(handler[g])'
  BY <1>3 DEF WorksOnNewest, CvPc
<1>5. QED
  BY <1>1, <1>2, <1>4 DEF CvInv

-----------------------------------------------------------------------------
(* What the newest CV says *)

\* What FollowInv says of the running parses, of the copies and of the profile.
LEMMA FollowParts ==
  ASSUME FollowInv, InTurn
  PROVE  /\ Parsing \subseteq {made} /\ Known(profile)
         /\ \A h \in Handlers : HandlerAt(h, "save") => SendsKnown(handler[h])
         /\ \A d \in Docs : ParseAt(d, "read") => parse[d].ai
         /\ \A d \in Docs : ParseAt(d, "save") => Known(parse[d].copy) /\ Says(parse[d].copy, d)
         /\ made > 0 /\ (doc[made].status = "done" \/ ParseAt(made, "done")) => Says(profile, made)
         /\ "overlap" \notin regime /\ "early" \notin regime /\ "stale" \notin regime
         /\ "ai_error" \notin regime /\ "build" \notin regime
BY DEF FollowInv, InTurn

LEMMA FollowWhenCalm ==
  ASSUME Shape, CvInv, FollowInv, Calm, Along
  PROVE  FollowInv'
<1> SUFFICES ASSUME InTurn' PROVE FollowInv'
  BY DEF FollowInv
<1>1. InTurn /\ UNCHANGED <<regime, profile, typed, made>>
  BY DEF Calm, Along, InTurn
<1>2. /\ Parsing \subseteq {made} /\ Known(profile)
      /\ \A h \in Handlers : HandlerAt(h, "save") => SendsKnown(handler[h])
      /\ \A d \in Docs : ParseAt(d, "read") => parse[d].ai
      /\ \A d \in Docs : ParseAt(d, "save") => Known(parse[d].copy) /\ Says(parse[d].copy, d)
      /\ made > 0 /\ (doc[made].status = "done" \/ ParseAt(made, "done")) => Says(profile, made)
      /\ "overlap" \notin regime /\ "ai_error" \notin regime
  BY <1>1, FollowParts
<1>3. made > 0 => made \in Docs
  BY OnboardingBounds DEF Shape, CvsGood, Docs
<1>4. /\ \A d \in Docs :
           /\ doc'[d].cv = doc[d].cv
           /\ doc'[d].status = "done" => doc[d].status = "done" \/ parse[d].pc = "done"
           /\ parse'[d].pc = "done" => parse[d].pc = "done"
           /\ parse'[d].pc = "read" => parse'[d].ai \/ parse'[d] = parse[d]
           /\ parse'[d].pc = "save" => parse'[d] = parse[d]
      /\ \A g \in Handlers : handler'[g].pc = "save" => handler'[g] = handler[g]
      /\ Parsing' \subseteq Parsing \cup Publishing
  BY <1>2 DEF Calm, Along
<1>5. Parsing' \subseteq {made'}
  <2>1. \A h \in Handlers : HandlerAt(h, "publish") => handler[h].doc = made
    BY <1>2 DEF CvInv, WorksOnNewest, HandlerAt, CvPc
  <2>2. QED
    BY <1>1, <1>2, <1>4, <2>1 DEF Publishing
<1>6. /\ \A p : Known(p) => Known(p)'
      /\ \A x : SendsKnown(x) => SendsKnown(x)'
      /\ \A d \in Docs : \A p : Says(p, d) => Says(p, d)'
  BY <1>1, <1>4 DEF Known, SendsKnown, Says
<1>7. Known(profile)'
  BY <1>1, <1>2, <1>6
<1>8. \A h \in Handlers : HandlerAt(h, "save")' => SendsKnown(handler[h])'
  BY <1>2, <1>4, <1>6 DEF HandlerAt
<1>9. \A d \in Docs : ParseAt(d, "read")' => parse[d].ai'
  BY <1>2, <1>4 DEF ParseAt
<1>10. \A d \in Docs : ParseAt(d, "save")' => Known(parse[d].copy)' /\ Says(parse[d].copy, d)'
  BY <1>2, <1>4, <1>6 DEF ParseAt
<1>11. ASSUME made' > 0, doc'[made'].status = "done" \/ parse'[made'].pc = "done"
       PROVE  Says(profile, made)'
  BY <1>1, <1>2, <1>3, <1>4, <1>6, <1>11 DEF ParseAt
<1>12. QED
  BY <1>5, <1>7, <1>8, <1>9, <1>10, <1>11 DEF FollowInv, ParseAt

\* Nothing runs when a CV is uploaded, and it says nothing until it is parsed.
LEMMA FollowWhenInserted ==
  ASSUME Shape, FollowInv, Calm, NEW h \in Handlers, NEW status, Inserts(h, status),
         InTurn => status = "pending" /\ Parsing = {}
  PROVE  FollowInv'
<1> SUFFICES ASSUME InTurn' PROVE FollowInv'
  BY DEF FollowInv
<1>1. InTurn /\ UNCHANGED <<regime, profile, typed, parse>> /\ made' \in Docs
  BY DEF Calm, Inserts, InTurn
<1>2. /\ Known(profile) /\ status = "pending" /\ Parsing = {}
      /\ \A g \in Handlers : HandlerAt(g, "save") => SendsKnown(handler[g])
  BY <1>1, FollowParts
<1>3. \A d \in Docs : parse'[d].pc \in {"none", "over"}
  BY <1>1, <1>2 DEF Parsing
<1>4. Parsing' = {}
  BY <1>3 DEF Parsing
<1>5. Known(profile)'
  BY <1>1, <1>2 DEF Known
<1>6. \A g \in Handlers : HandlerAt(g, "save")' => SendsKnown(handler[g])'
  BY <1>1, <1>2 DEF Calm, HandlerAt, SendsKnown
<1>7. doc'[made'].status # "done" /\ parse'[made'].pc # "done"
  BY <1>1, <1>2, <1>3 DEF Inserts
<1>8. QED
  BY <1>3, <1>4, <1>5, <1>6, <1>7 DEF FollowInv, ParseAt

LEMMA FollowWhenRead ==
  ASSUME FollowInv, NEW h \in Handlers, NEW x, Reading(h, x), InTurn => SendsKnown(x)
  PROVE  FollowInv'
<1> SUFFICES ASSUME InTurn' PROVE FollowInv'
  BY DEF FollowInv
<1>1. InTurn /\ UNCHANGED <<regime, profile, typed, made, doc, parse>> /\ handler'[h] = x
      /\ \A g \in Handlers \ {h} : handler'[g] = handler[g]
  BY DEF Reading, InTurn
<1>2. /\ Parsing \subseteq {made} /\ Known(profile) /\ SendsKnown(x)
      /\ \A g \in Handlers : HandlerAt(g, "save") => SendsKnown(handler[g])
      /\ \A d \in Docs : ParseAt(d, "read") => parse[d].ai
      /\ \A d \in Docs : ParseAt(d, "save") => Known(parse[d].copy) /\ Says(parse[d].copy, d)
      /\ made > 0 /\ (doc[made].status = "done" \/ ParseAt(made, "done")) => Says(profile, made)
  BY <1>1, FollowParts
<1>3. Known(profile)' /\ Parsing' \subseteq {made'}
  BY <1>1, <1>2 DEF Known, Parsing
<1>4. \A g \in Handlers : HandlerAt(g, "save")' => SendsKnown(handler[g])'
  BY <1>1, <1>2 DEF HandlerAt, SendsKnown
<1>5. \A d \in Docs :
        /\ ParseAt(d, "read")' => parse'[d].ai
        /\ ParseAt(d, "save")' => Known(parse[d].copy)' /\ Says(parse[d].copy, d)'
  BY <1>1, <1>2 DEF ParseAt, Known, Says
<1>6. made' > 0 /\ (doc'[made'].status = "done" \/ ParseAt(made, "done")') => Says(profile, made)'
  BY <1>1, <1>2 DEF ParseAt, Says
<1>7. QED
  BY <1>3, <1>4, <1>5, <1>6 DEF FollowInv

\* With the model, what is filled is what the CV says, and the rest is cleared.
LEMMA FollowWhenFilled ==
  ASSUME Shape, TypedInv, FollowInv, NEW d \in Docs, Filling(d), Parsing' \subseteq Parsing,
         doc[d].cv \in CVs, parse[d].ai \in BOOLEAN
  PROVE  FollowInv'
<1> SUFFICES ASSUME InTurn' PROVE FollowInv'
  BY DEF FollowInv
<1>1. /\ InTurn /\ UNCHANGED <<regime, profile, typed, made, doc, handler>> /\ MayRead
      /\ ParseAt(d, "read") /\ parse'[d].pc = "save"
      /\ parse'[d].copy = apply_to_profile(profile, doc[d].cv, parse[d].ai)
      /\ \A e \in Docs \ {d} : parse'[e] = parse[e]
  BY DEF Filling, InTurn
<1>2. /\ Parsing \subseteq {made} /\ Known(profile) /\ "overlap" \notin regime
      /\ \A g \in Handlers : HandlerAt(g, "save") => SendsKnown(handler[g])
      /\ \A e \in Docs : ParseAt(e, "read") => parse[e].ai
      /\ \A e \in Docs : ParseAt(e, "save") => Known(parse[e].copy) /\ Says(parse[e].copy, e)
      /\ made > 0 /\ (doc[made].status = "done" \/ ParseAt(made, "done")) => Says(profile, made)
  BY <1>1, FollowParts
<1>3. Known(profile)' /\ Parsing' \subseteq {made'}
  BY <1>1, <1>2 DEF Known
<1>4. \A g \in Handlers : HandlerAt(g, "save")' => SendsKnown(handler[g])'
  BY <1>1, <1>2 DEF HandlerAt, SendsKnown
<1>5. Known(parse[d].copy)' /\ Says(parse[d].copy, d)'
  <2>1. Honest(profile) /\ parse[d].ai
    BY <1>1, <1>2 DEF Shape, PersonGood
  <2>2. \A f \in Fields :
          profile.value[f] = Blank \/ f \in profile.ours =>
            /\ parse'[d].copy.value[f] \in {Blank, Reads[doc[d].cv][f]}
            /\ parse'[d].copy.value[f] = Blank \/ f \in parse'[d].copy.ours
    <3> DEFINE c == doc[d].cv
               ai == parse[d].ai
               new == apply_to_profile(profile, c, ai)
    <3>1. c \in CVs /\ ai \in BOOLEAN
      OBVIOUS
    <3> HIDE DEF c, ai
    <3>2. ai => \A f \in Fields :
                  profile.value[f] = Blank \/ f \in profile.ours =>
                    /\ new.value[f] \in {Blank, Reads[c][f]}
                    /\ new.value[f] = Blank \/ f \in new.ours
      BY <2>1, <3>1, ApplyHonest
    <3>3. QED
      BY <1>1, <2>1, <3>2 DEF c, ai
  <2>3. \A f \in Fields \ typed : profile.value[f] = Blank \/ f \in profile.ours
    BY <1>2 DEF Known
  <2>4. QED
    BY <1>1, <2>2, <2>3 DEF Known, Says
<1>6. \A e \in Docs \ {d} :
        /\ ParseAt(e, "read")' => parse'[e].ai
        /\ ParseAt(e, "save")' => Known(parse[e].copy)' /\ Says(parse[e].copy, e)'
  BY <1>1, <1>2 DEF ParseAt, Known, Says
<1>7. ~ParseAt(d, "read")'
  BY <1>1 DEF ParseAt
<1>8. ASSUME made' > 0, doc'[made'].status = "done" \/ parse'[made'].pc = "done"
      PROVE  Says(profile, made)'
  <2>1. made \in Docs
    BY <1>1, <1>8, OnboardingBounds DEF Shape, CvsGood, Docs
  <2>2. parse'[made].pc = "done" => parse[made].pc = "done"
    BY <1>1, <2>1
  <2>3. Says(profile, made)
    BY <1>1, <1>2, <1>8, <2>2 DEF ParseAt
  <2>4. QED
    BY <1>1, <2>3 DEF Says
<1>9. QED
  BY <1>3, <1>4, <1>5, <1>6, <1>7, <1>8 DEF FollowInv, ParseAt

LEMMA FollowWhenSaved ==
  ASSUME Shape, TypedInv, FollowInv, NEW d \in Docs, Filled(d), d \in Parsing,
         Parsing' \subseteq Parsing
  PROVE  FollowInv'
<1> SUFFICES ASSUME InTurn' PROVE FollowInv'
  BY DEF FollowInv
<1>1. /\ InTurn /\ UNCHANGED <<regime, typed, made, doc, handler>>
      /\ ParseAt(d, "save") /\ parse'[d].pc = "done" /\ profile' = parse[d].copy
      /\ \A e \in Docs \ {d} : parse'[e] = parse[e]
  BY DEF Filled, InTurn
<1>2. /\ Parsing \subseteq {made} /\ "overlap" \notin regime
      /\ \A e \in Docs : ParseAt(e, "read") => parse[e].ai
      /\ Known(parse[d].copy) /\ Says(parse[d].copy, d)
  BY <1>1, FollowParts
<1>3. /\ \A g \in Handlers : ~HandlerAt(g, "save")
      /\ \A e \in Docs \ {d} : ~ParseAt(e, "save")
  BY <1>1, <1>2, OneSaves
<1>4. /\ \A g \in Handlers : ~HandlerAt(g, "save")'
      /\ \A e \in Docs : ~ParseAt(e, "save")'
      /\ \A e \in Docs : ParseAt(e, "read")' => parse'[e].ai
  BY <1>1, <1>2, <1>3 DEF HandlerAt, ParseAt
<1>5. Known(profile)' /\ Parsing' \subseteq {made'} /\ d = made
  BY <1>1, <1>2 DEF Known
<1>6. Says(profile, made)'
  BY <1>1, <1>2, <1>5 DEF Says
<1>7. QED
  BY <1>4, <1>5, <1>6 DEF FollowInv

\* What the user empties is blank; what is sent back as it was read stays what it was.
LEMMA FollowWhenEdited ==
  ASSUME Shape, TypedInv, FollowInv, NEW h \in Handlers, Edited(h)
  PROVE  FollowInv'
<1> SUFFICES ASSUME InTurn' PROVE FollowInv'
  BY DEF FollowInv
<1> DEFINE x == handler[h]
<1>1. /\ InTurn /\ UNCHANGED <<regime, made, doc, parse>>
      /\ HandlerAt(h, "save") /\ handler'[h].pc = "idle"
      /\ \A g \in Handlers \ {h} : handler'[g] = handler[g]
  BY DEF Edited, InTurn
<1>2. /\ Parsing \subseteq {made} /\ Known(profile) /\ "overlap" \notin regime
      /\ \A d \in Docs : ParseAt(d, "read") => parse[d].ai
      /\ SendsKnown(x)
      /\ made > 0 /\ (doc[made].status = "done" \/ ParseAt(made, "done")) => Says(profile, made)
  BY <1>1, FollowParts
<1>3. /\ \A g \in Handlers \ {h} : ~HandlerAt(g, "save")
      /\ \A d \in Docs : ~ParseAt(d, "save")
  BY <1>1, <1>2, OneSaves
<1>4. /\ \A g \in Handlers : ~HandlerAt(g, "save")'
      /\ \A d \in Docs : ~ParseAt(d, "save")'
      /\ \A d \in Docs : ParseAt(d, "read")' => parse'[d].ai
      /\ Parsing' \subseteq {made'}
  BY <1>1, <1>2, <1>3 DEF HandlerAt, ParseAt, Parsing
<1>5. SendsTyped(x) /\ x.copy = profile
  BY <1>1, <1>2 DEF TypedInv, SendsKnown
<1>6. ASSUME NEW f \in Fields \ typed'
      PROVE  \/ profile'.value[f] = Blank
             \/ /\ f \notin typed /\ profile'.value[f] = profile.value[f]
                /\ f \in profile.ours => f \in profile'.ours
  <2>1. CASE x.kind = "update"
    <3>1. /\ profile'.value = x.sent /\ typed' = TypedAfter(h, x.sent)
          /\ f \in profile'.ours <=> f \in x.copy.ours /\ x.sent[f] = x.copy.value[f]
      BY <2>1 DEF Edited
    <3>2. f \in x.edited => x.sent[f] \in {Typed, Blank}
      BY <1>5, <2>1 DEF SendsTyped
    <3>3. f \notin x.edited => x.sent[f] = profile.value[f]
      BY <1>2, <2>1 DEF SendsKnown
    <3>4. CASE f \in x.edited
      <4>1. x.sent[f] # Typed
        BY <1>6, <3>1, <3>4, OnboardingValues DEF TypedAfter
      <4>2. QED
        BY <3>1, <3>2, <3>4, <4>1
    <3>5. CASE f \notin x.edited
      <4>1. f \notin typed
        BY <1>6, <3>1, <3>5 DEF TypedAfter
      <4>2. QED
        BY <1>5, <3>1, <3>3, <3>5, <4>1
    <3>6. QED
      BY <3>4, <3>5
  <2>2. CASE x.kind # "update"
    <3>1. x.edited = {}
      BY <1>5, <2>2 DEF SendsTyped
    <3>2. profile'.value = profile.value /\ profile'.ours = profile.ours /\ typed' = typed
      BY <1>5, <2>2, <3>1 DEF Edited
    <3>3. QED
      BY <1>6, <3>2
  <2>3. QED
    BY <2>1, <2>2
<1>7. Known(profile)'
  BY <1>2, <1>6 DEF Known
<1>8. ASSUME made' > 0, doc'[made'].status = "done" \/ parse'[made'].pc = "done"
      PROVE  Says(profile, made)'
  <2>1. Says(profile, made)
    BY <1>1, <1>2, <1>8 DEF ParseAt
  <2>2. QED
    BY <1>1, <1>6, <2>1 DEF Says
<1>9. QED
  BY <1>4, <1>7, <1>8 DEF FollowInv, ParseAt

-----------------------------------------------------------------------------
(* The invariant is inductive *)

OnboardingInv == Shape /\ TypedInv /\ AloneInv /\ CvInv /\ FollowInv

LEMMA InitGood ==
  ASSUME Init
  PROVE  OnboardingInv
<1>1. /\ Honest(Empty) /\ NoDoc \in DocRecord /\ GoodHandler(Idle) /\ GoodParse(NoParse)
      /\ Empty.value \in [Fields -> Values] /\ Idle.pc = "idle" /\ NoParse.pc = "none"
      /\ \A f \in Fields : Empty.value[f] = Blank
  <2>1. /\ Honest(Empty) /\ NoDoc \in DocRecord /\ GoodHandler(Idle) /\ GoodParse(NoParse)
        /\ Idle.pc = "idle" /\ NoParse.pc = "none"
    BY EmptyGood DEF Idle, NoParse
  <2>2. \A f \in Fields : Empty.value[f] = Blank
    BY DEF Empty
  <2>3. QED
    BY <2>1, <2>2 DEF Honest, Profile
<1>2. PersonGood /\ CvsGood
  BY <1>1, OnboardingBounds DEF Init, PersonGood, CvsGood
<1>3. /\ \A h \in Handlers : handler[h] = Idle
      /\ \A d \in Docs : parse[d] = NoParse
      /\ Parsing = {}
  BY <1>1 DEF Init, Parsing
<1>4. HandlersGood /\ ParsesGood
  BY <1>1, <1>3 DEF Init, HandlersGood, ParsesGood
<1>5. /\ \A h \in Handlers : handler[h].pc = "idle"
      /\ \A d \in Docs : parse[d].pc = "none"
  BY <1>1, <1>3
<1>6. TypedInv
  BY <1>5 DEF Init, TypedInv, HoldsTyped, OneSaver, HandlerAt, ParseAt
<1>7. CvInv
  BY <1>5 DEF Init, CvInv, WorksOnNewest, CvPc
<1>8. FollowInv
  <2>1. Known(profile)
    BY <1>1 DEF Init, Known
  <2>2. QED
    BY <1>3, <1>5, <2>1 DEF Init, FollowInv, HandlerAt, ParseAt
<1>9. AloneInv
  BY <1>5 DEF AloneInv, HandlerAt, UploadPc, CvPc
<1>10. QED
  BY <1>2, <1>4, <1>6, <1>7, <1>8, <1>9 DEF OnboardingInv, Shape

\* What a request is going to save was read with the profile it will overwrite.
LEMMA EditingSends ==
  ASSUME Shape, TypedInv, NEW h \in Handlers, NEW edited \in SUBSET Fields,
         NEW answer \in {Typed, Blank},
         NEW x, x.copy = profile, x.kind = "update", x.edited = edited,
         \A f \in Fields : x.sent[f] = IF f \in edited THEN answer
                                       ELSE (IF "stale" \in regime THEN form ELSE profile.value)[f]
  PROVE  /\ "overlap" \notin regime => SendsTyped(x)
         /\ InTurn => SendsKnown(x)
<1>1. typed \subseteq Fields
  BY DEF Shape, PersonGood
<1>2. ASSUME "overlap" \notin regime PROVE SendsTyped(x)
  <2>1. HoldsTyped(profile.value) /\ ("stale" \in regime => HoldsTyped(form))
    BY <1>2 DEF TypedInv
  <2>2. \A f \in Fields : f \in x.edited => x.sent[f] \in {Typed, Blank}
    OBVIOUS
  <2>3. \A f \in Fields : f \in typed \ x.edited => x.sent[f] = Typed
    BY <2>1 DEF HoldsTyped
  <2>4. QED
    BY <2>2, <2>3 DEF SendsTyped
<1>3. ASSUME InTurn PROVE SendsKnown(x)
  BY <1>3 DEF InTurn, SendsKnown
<1>4. QED
  BY <1>2, <1>3

LEMMA NextKeeps ==
  ASSUME OnboardingInv, [Next]_vars
  PROVE  OnboardingInv'
<1>1. Shape /\ TypedInv /\ AloneInv /\ CvInv /\ FollowInv
  BY DEF OnboardingInv
<1>2. ASSUME Shape', Calm, Steady, Along PROVE OnboardingInv'
  <2>1. UNCHANGED regime /\ Parsing' \subseteq Parsing \cup Publishing /\ CvsKept
    BY <1>2 DEF Calm, Steady, Along
  <2>2. AloneInv' /\ CvInv'
    BY <1>1, <1>2, <2>1, AloneWhenSteady, NewestWhenSteady
  <2>3. QED
    BY <1>1, <1>2, <2>2, TypedWhenCalm, FollowWhenCalm DEF OnboardingInv
<1>3. ASSUME NEW h \in Handlers, ListOld(h) \/ \E d \in Docs : DiscardOld(h, d)
      PROVE  OnboardingInv'
  <2>1. /\ Shape' /\ Calm /\ Along
        /\ \A g \in Handlers \ {h} : handler'[g] = handler[g]
        /\ Replaces(h, handler'[h]) /\ Removes(h)
        /\ handler[h].pc \in {"list", "discard"}
    BY <1>1, <1>3, Replacing
  <2>2. UNCHANGED <<regime, made>>
    BY <2>1 DEF Calm, Along
  <2>3. CvInv'
    BY <1>1, <2>1, <2>2, NewestWhenReplacing
  <2>4. handler[h].pc \in UploadPc /\ handler'[h].pc # "insert"
    BY <2>1 DEF Replaces, UploadPc, CvPc
  <2>5. AloneInv'
    BY <1>1, <2>1, <2>2, <2>4, AloneWhenNoneBegins DEF Along
  <2>6. QED
    BY <1>1, <2>1, <2>3, <2>5, TypedWhenCalm, FollowWhenCalm DEF OnboardingInv
<1>4. ASSUME NEW h \in Handlers, NEW c \in CVs, upload_resume(h, c) \/ build_resume(h, c)
       PROVE  OnboardingInv'
  <2>1. PICK kind \in {"upload", "build"} :
          Upload(h, c, kind) /\ Event(kind) /\ ("early" \in regime \/ Parsing = {} \/ kind = "build")
    BY <1>4 DEF upload_resume, build_resume
  <2>2. Shape' /\ Calm /\ CvsKept /\ Along /\ Uploads(h, kind)
    BY <1>1, <2>1, Uploading
  <2>3. "overlap" \notin regime => \A g \in Handlers : HandlerAt(g, "idle")
    BY <2>1 DEF Upload, MayUpload
  <2>4. InTurn => kind = "upload" /\ Parsing = {}
    BY <2>1 DEF InTurn, Event
  <2>5. AloneInv'
    BY <2>2, <2>3, <2>4, AloneWhenUploaded
  <2>6. CvInv'
    BY <1>1, <2>2, NewestWhenSteady DEF Calm
  <2>7. QED
    BY <1>1, <2>2, <2>5, <2>6, TypedWhenCalm, FollowWhenCalm DEF OnboardingInv
<1>5. ASSUME NEW h \in Handlers, Insert(h) PROVE OnboardingInv'
  <2> DEFINE status == IF handler[h].kind = "build" THEN "done" ELSE "pending"
  <2>1. Shape' /\ Calm /\ Inserts(h, status) /\ HandlerAt(h, "insert")
    BY <1>1, <1>5, Inserting
  <2>2. "overlap" \notin regime => \A g \in Handlers \ {h} : handler[g].pc \notin CvPc
    BY <1>1, <2>1 DEF AloneInv, HandlerAt, UploadPc
  <2>3. InTurn => status = "pending" /\ Parsing = {}
    BY <1>1, <2>1 DEF AloneInv
  <2> HIDE DEF status
  <2>4. CvInv'
    BY <1>1, <2>1, <2>2, NewestWhenInserted DEF Calm
  <2>5. FollowInv'
    BY <1>1, <2>1, <2>3, FollowWhenInserted
  <2>6. AloneInv'
    <3>1. UNCHANGED regime /\ Parsing' \subseteq Parsing \cup Publishing
      BY <2>1 DEF Calm, Inserts, Parsing
    <3>2. handler[h].pc \in UploadPc /\ handler'[h].pc # "insert"
      BY <2>1 DEF Inserts, HandlerAt, UploadPc
    <3>3. \A g \in Handlers \ {h} : handler'[g] = handler[g]
      BY <2>1 DEF Inserts
    <3>4. QED
      BY <1>1, <3>1, <3>2, <3>3, AloneWhenNoneBegins
  <2>7. QED
    BY <1>1, <2>1, <2>4, <2>5, <2>6, TypedWhenCalm DEF OnboardingInv
<1>6. ASSUME NEW h \in Handlers, NEW x, Shape', Reading(h, x),
             "overlap" \notin regime => SendsTyped(x), InTurn => SendsKnown(x)
      PROVE  OnboardingInv'
  <2>1. Steady /\ UNCHANGED regime
    BY <1>6 DEF Reading, Steady, CvsKept, CvPc
  <2>2. Parsing' \subseteq Parsing \cup Publishing
    BY <1>6 DEF Reading, Parsing
  <2>3. AloneInv' /\ CvInv'
    BY <1>1, <2>1, <2>2, AloneWhenSteady, NewestWhenSteady DEF Steady
  <2>4. QED
    BY <1>1, <1>6, <2>3, TypedWhenRead, FollowWhenRead DEF OnboardingInv
<1>7. ASSUME NEW h \in Handlers, NEW edited \in SUBSET Fields, NEW answer \in {Typed, Blank},
             ReadForUpdate(h, edited, answer)
      PROVE  OnboardingInv'
  <2>1. PICK x : /\ Shape' /\ Reading(h, x) /\ x.kind = "update" /\ x.edited = edited
                 /\ \A f \in Fields :
                      x.sent[f] = IF f \in edited THEN answer
                                  ELSE (IF "stale" \in regime THEN form ELSE profile.value)[f]
    BY <1>1, <1>7, Editing
  <2>2. x.copy = profile
    BY <2>1 DEF Reading
  <2>3. /\ "overlap" \notin regime => SendsTyped(x)
        /\ InTurn => SendsKnown(x)
    BY <1>1, <2>1, <2>2, EditingSends
  <2>4. QED
    BY <1>6, <2>1, <2>3
<1>8. ASSUME NEW h \in Handlers, set_resume_strategy(h) PROVE OnboardingInv'
  <2> DEFINE x == [Idle EXCEPT !.pc = "save", !.copy = profile, !.kind = "strategy"]
  <2>1. Shape' /\ Reading(h, x) /\ x.kind = "strategy" /\ x.edited = {}
    BY <1>1, <1>8, Choosing
  <2> HIDE DEF x
  <2>2. x.copy = profile
    BY <2>1 DEF Reading
  <2>3. /\ "overlap" \notin regime => SendsTyped(x)
        /\ InTurn => SendsKnown(x)
    BY <1>1, <2>1, <2>2 DEF TypedInv, SendsTyped, SendsKnown
  <2>4. QED
    BY <1>6, <2>1, <2>3
<1>9. ASSUME NEW d \in Docs, ReadProfile(d) PROVE OnboardingInv'
  <2>1. /\ Shape' /\ Steady /\ Filling(d) /\ Parsing' \subseteq Parsing
        /\ doc[d].cv \in CVs /\ parse[d].ai \in BOOLEAN
    BY <1>1, <1>9, TakesProfile
  <2>2. UNCHANGED regime
    BY <2>1 DEF Filling
  <2>3. AloneInv' /\ CvInv'
    BY <1>1, <2>1, <2>2, AloneWhenSteady, NewestWhenSteady DEF Steady
  <2>4. QED
    BY <1>1, <2>1, <2>3, TypedWhenFilled, FollowWhenFilled DEF OnboardingInv
<1>10. ASSUME NEW d \in Docs, SaveProfile(d) PROVE OnboardingInv'
  <2>1. Shape' /\ Steady /\ Filled(d) /\ d \in Parsing /\ Parsing' \subseteq Parsing
    BY <1>1, <1>10, SavesProfile
  <2>2. UNCHANGED regime
    BY <2>1 DEF Filled
  <2>3. AloneInv' /\ CvInv'
    BY <1>1, <2>1, <2>2, AloneWhenSteady, NewestWhenSteady DEF Steady
  <2>4. QED
    BY <1>1, <2>1, <2>3, TypedWhenSaved, FollowWhenSaved DEF OnboardingInv
<1>11. ASSUME NEW h \in Handlers, SaveUpdate(h) PROVE OnboardingInv'
  <2>1. Shape' /\ Steady /\ Edited(h)
    BY <1>1, <1>11, Updates
  <2>2. UNCHANGED regime /\ Parsing' \subseteq Parsing \cup Publishing
    BY <2>1 DEF Edited, Parsing
  <2>3. AloneInv' /\ CvInv'
    BY <1>1, <2>1, <2>2, AloneWhenSteady, NewestWhenSteady DEF Steady
  <2>4. QED
    BY <1>1, <2>1, <2>3, TypedWhenEdited, FollowWhenEdited DEF OnboardingInv
<1>12. CASE \/ get_state
            \/ \E h \in Handlers : delay(h) \/ StorageError(h) \/ DelayFails(h) \/ ApiCrash(h)
  BY <1>1, <1>2, <1>12, HandlerCalm
<1>13. ASSUME NEW d \in Docs,
              \/ ReadDoc(d) \/ TextFails(d) \/ NoText(d) \/ parse_cv(d, TRUE) \/ parse_cv(d, FALSE)
              \/ MarkDone(d) \/ ParseError(d) \/ ParseKilled(d) \/ WorkerLost(d)
       PROVE  OnboardingInv'
  BY <1>1, <1>2, <1>13, ParseCalm
<1>14. CASE UNCHANGED vars
  <2>1. /\ UNCHANGED <<regime, person, cvs, handler, parse, events>>
        /\ UNCHANGED <<profile, form, typed, made, doc, stored, bytes>>
    BY <1>14 DEF vars, person, cvs
  <2>2. Shape'
    BY <1>1, <2>1, ShapeUnchanged DEF Shape
  <2>3. Calm /\ Steady
    BY <2>1 DEF Calm, Steady, CvsKept
  <2>4. Along
    BY <2>1 DEF Along, Parsing
  <2>5. QED
    BY <1>2, <2>2, <2>3, <2>4
<1>15. CASE Next
  <2>1. CASE get_state
    BY <1>12, <2>1
  <2>2. ASSUME NEW h \in Handlers, HandlerNext(h) PROVE OnboardingInv'
    BY <1>3, <1>5, <1>11, <1>12, <2>2 DEF HandlerNext
  <2>3. ASSUME NEW h \in Handlers,
               \/ StorageError(h) \/ DelayFails(h) \/ ApiCrash(h) \/ set_resume_strategy(h)
               \/ \E c \in CVs : upload_resume(h, c) \/ build_resume(h, c)
               \/ \E edited \in SUBSET Fields, answer \in {Typed, Blank} :
                    ReadForUpdate(h, edited, answer)
        PROVE  OnboardingInv'
    BY <1>7, <1>8, <1>12, <1>4, <2>3
  <2>4. ASSUME NEW d \in Docs, ParseNext(d) PROVE OnboardingInv'
    BY <1>9, <1>10, <1>13, <2>4 DEF ParseNext
  <2>5. ASSUME NEW d \in Docs,
               \/ TextFails(d) \/ NoText(d) \/ parse_cv(d, FALSE) \/ ParseError(d)
               \/ ParseKilled(d) \/ WorkerLost(d)
        PROVE  OnboardingInv'
    BY <1>13, <2>5
  <2>6. QED
    BY <1>15, <2>1, <2>2, <2>3, <2>4, <2>5 DEF Next
<1>16. QED
  BY <1>14, <1>15

LEMMA AlwaysGood == Spec => []OnboardingInv
<1>1. Init => OnboardingInv
  BY InitGood
<1>2. OnboardingInv /\ [Next]_vars => OnboardingInv'
  BY NextKeeps
<1>3. QED
  BY <1>1, <1>2, PTL DEF Spec

-----------------------------------------------------------------------------
(* What follows *)

\* Profiles, CVs, requests and parses are what they should be, and every count within its
\* bound: whatever crosses, is lost, retried or replaced.
THEOREM OnboardingTypes == Spec => []OnboardingTypeOK
<1>1. OnboardingInv => OnboardingTypeOK
  <2> SUFFICES ASSUME OnboardingInv PROVE OnboardingTypeOK
    OBVIOUS
  <2>1. PersonGood /\ CvsGood /\ HandlersGood /\ ParsesGood
    BY DEF OnboardingInv, Shape
  <2>2. \A p : Honest(p) => ProfileOK(p)
    BY DEF Honest, ProfileOK, Profile
  <2>3. \A d \in Docs : doc[d].status \in {"none", "pending", "done", "failed"}
    BY <2>1 DEF CvsGood, DocRecord
  <2>4. \A h \in Handlers : ProfileOK(handler[h].copy)
    BY <2>1, <2>2 DEF HandlersGood, GoodHandler
  <2>5. \A d \in Docs : ProfileOK(parse[d].copy) /\ parse[d].tries \in 0..MAX_RETRIES
    BY <2>1, <2>2 DEF ParsesGood, GoodParse, ParseRecord
  <2>6. QED
    BY <2>1, <2>2, <2>3, <2>4, <2>5 DEF OnboardingTypeOK, PersonGood, CvsGood
<1>2. QED
  BY <1>1, AlwaysGood, PTL

\* Nothing recorded as autofilled was typed by the user, however saves of the whole profile
\* cross; and when none cross, what the user typed outlives every later CV, parse and stale
\* page.
THEOREM ProvenanceAlways == Spec => []Provenance
<1>1. OnboardingInv => Provenance
  BY DEF OnboardingInv, Shape, PersonGood, Honest, TypedInv, HoldsTyped, Provenance,
     OursIsNotTyped, TypedKept
<1>2. QED
  BY <1>1, AlwaysGood, PTL

\* Uploads one at a time never leave the user without the newest CV, and once it is parsed the
\* profile says what that CV says and not what an older one did.
THEOREM CurrentCvAlways == Spec => []CurrentCv
<1>1. OnboardingInv => CurrentCv
  <2> SUFFICES ASSUME OnboardingInv PROVE CurrentCv
    OBVIOUS
  <2>1. CvInv /\ FollowInv
    BY DEF OnboardingInv
  <2>2. NewestKept
    BY <2>1 DEF CvInv, NewestKept
  <2>3. FollowsNewest
    <3> SUFFICES ASSUME InTurn, made > 0, doc[made].status = "done"
                 PROVE  \A f \in Fields \ typed :
                          profile.value[f] \in {Blank, Reads[doc[made].cv][f]}
      BY DEF FollowsNewest, InTurn
    <3>1. QED
      BY <2>1 DEF FollowInv, Says
  <2>4. QED
    BY <2>2, <2>3 DEF CurrentCv
<1>2. QED
  BY <1>1, AlwaysGood, PTL

=============================================================================
