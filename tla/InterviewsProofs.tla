--------------------------- MODULE InterviewsProofs ---------------------------
(***************************************************************************)
(* What holds of the interview sessions for any number of handlers,        *)
(* sessions, questions and visits.                                         *)
(***************************************************************************)
EXTENDS Interviews, BillingProofs

\* An answer is one of those that were given so far.
GivenAnswer == [q : Questions, at : 0..visits]
Scores == {NoScore} \cup {[answers |-> A, count |-> Cardinality(A)] : A \in SUBSET GivenAnswer}
SessionRecord == [status : Statuses, answers : SUBSET GivenAnswer, score : Scores]

\* One answer to a question, and a completed session has the score of its answers; this is
\* asked of every copy a request holds, not only of the session in the database.
Whole(x) ==
    /\ x \in SessionRecord
    /\ \A a, b \in x.answers : a.q = b.q => a = b
    /\ x.status = "completed" =>
         x.score = [answers |-> x.answers, count |-> Cardinality(x.answers)]

About == {"answer", "complete", "delete"}
VisitPc == {"none", "gate", "insert", "meter", "metering"} \cup About
GoodVisit(v) ==
    /\ v \in [pc : VisitPc, allowed : BOOLEAN, s : Ids, q : Nat, copy : SessionRecord]
    /\ Whole(v.copy)
    /\ v.pc = "answer" => v.q \in Questions
    /\ v.pc \in About => v.s \in 1..made
    /\ v.pc \in {"answer", "complete"} => v.copy.status # "completed"

SessionsGood == session \in [Ids -> SessionRecord] /\ \A s \in Ids : Whole(session[s])
VisitsGood == DOMAIN visit = Handlers /\ \A h \in Handlers : GoodVisit(visit[h])

\* One request at a time about a session: what it will save was read from the session as it is.
OneAtATime ==
    regime = "alone" =>
      \A h \in Handlers : visit[h].pc \in About =>
        /\ \A g \in Handlers \ {h} : visit[g].pc \in About => visit[g].s # visit[h].s
        /\ visit[h].pc # "delete" => /\ visit[h].copy = session[visit[h].s]
                                     /\ session[visit[h].s].status # "completed"

SessionsInv ==
    /\ regime \in Regimes /\ made \in 0..MaxSessions /\ there \subseteq 1..made
    /\ visits \in 0..MaxVisits
    /\ SessionsGood /\ VisitsGood /\ OneAtATime

-----------------------------------------------------------------------------
(* Sessions *)

\* A new session and a handler without a request are good.
LEMMA NewGood == Whole(New) /\ New \in SessionRecord /\ GoodVisit(NoVisit)
<1>1. New \in SessionRecord /\ Whole(New)
  BY DEF New, NoScore, SessionRecord, Scores, Statuses, Whole
<1>2. 1 \in Ids
  BY InterviewBounds DEF Ids
<1>3. QED
  BY <1>1, <1>2 DEF GoodVisit, NoVisit, VisitPc, About

\* Answering or completing a good copy makes a good one, and neither loses an answer but for a
\* later one of the same question.
LEMMA SavedGood ==
  ASSUME visits \in Nat, NEW x, Whole(x), x.status # "completed"
  PROVE  /\ Whole(Completed(x)) /\ Completed(x).answers = x.answers
         /\ \A q \in Questions :
              /\ Whole(Answered(x, q, visits))
              /\ \A a \in x.answers :
                   \E b \in Answered(x, q, visits).answers : b.q = a.q /\ b.at >= a.at
<1>1. x \in SessionRecord /\ x.answers \in SUBSET GivenAnswer /\ x.status \in Statuses
  BY DEF Whole, SessionRecord
<1>2. ASSUME NEW q \in Questions
      PROVE  /\ Whole(Answered(x, q, visits))
             /\ \A a \in x.answers :
                  \E b \in Answered(x, q, visits).answers : b.q = a.q /\ b.at >= a.at
  <2> DEFINE last == [q |-> q, at |-> visits]
             kept == {a \in x.answers : a.q # q} \cup {last}
             saved == Answered(x, q, visits)
  <2>1. last \in GivenAnswer /\ last.q = q /\ last.at = visits
    BY DEF GivenAnswer
  <2>2. kept \in SUBSET GivenAnswer /\ \A a, b \in kept : a.q = b.q => a = b
    BY <1>1, <2>1 DEF Whole
  <2>3. saved \in SessionRecord /\ saved.answers = kept /\ saved.status # "completed"
    BY <1>1, <2>2 DEF Answered, SessionRecord, Statuses
  <2>4. ASSUME NEW a \in x.answers PROVE \E b \in kept : b.q = a.q /\ b.at >= a.at
    <3>1. a \in GivenAnswer /\ a.at \in 0..visits
      BY <1>1 DEF GivenAnswer
    <3>2. CASE a.q = q
      <4>1. last \in kept /\ last.q = a.q /\ last.at >= a.at
        BY <2>1, <3>1, <3>2
      <4>2. QED
        BY <4>1
    <3>3. CASE a.q # q
      <4>1. a \in kept /\ a.at >= a.at
        BY <3>1, <3>3
      <4>2. QED
        BY <4>1
    <3>4. QED
      BY <3>2, <3>3
  <2> HIDE DEF kept, saved
  <2>5. QED
    BY <2>2, <2>3, <2>4 DEF Whole, saved
<1>3. Whole(Completed(x)) /\ Completed(x).answers = x.answers
  <2> DEFINE score == [answers |-> x.answers, count |-> Cardinality(x.answers)]
             saved == Completed(x)
  <2>1. score \in Scores
    BY <1>1 DEF Scores
  <2>2. /\ saved \in SessionRecord /\ saved.answers = x.answers /\ saved.status = "completed"
        /\ saved.score = score
    BY <1>1, <2>1 DEF Completed, SessionRecord, Statuses
  <2> HIDE DEF saved
  <2>3. Whole(saved)
    BY <2>2 DEF Whole
  <2>4. QED
    BY <2>2, <2>3 DEF saved
<1>4. QED
  BY <1>2, <1>3

\* What is good stays good while only the number of visits and of sessions grows.
LEMMA GoodStays ==
  ASSUME visits \in Nat, visits' \in Nat, visits <= visits',
         made \in Nat, made' \in Nat, made <= made'
  PROVE  /\ SessionRecord \subseteq SessionRecord'
         /\ \A x : Whole(x) => Whole(x)'
         /\ \A v : GoodVisit(v) => GoodVisit(v)'
<1>1. GivenAnswer \subseteq GivenAnswer'
  BY DEF GivenAnswer
<1>2. SUBSET GivenAnswer \subseteq SUBSET GivenAnswer' /\ Scores \subseteq Scores'
  BY <1>1 DEF Scores
<1>3. SessionRecord \subseteq SessionRecord'
  BY <1>2 DEF SessionRecord
<1>4. \A x : Whole(x) => Whole(x)'
  BY <1>3 DEF Whole
<1>5. ASSUME NEW v, GoodVisit(v) PROVE GoodVisit(v)'
  <2>1. v \in [pc : VisitPc, allowed : BOOLEAN, s : Ids, q : Nat, copy : SessionRecord']
    BY <1>3, <1>5 DEF GoodVisit
  <2>2. Whole(v.copy)'
    BY <1>4, <1>5 DEF GoodVisit
  <2>3. v.pc \in About => v.s \in 1..made'
    BY <1>5 DEF GoodVisit
  <2>4. QED
    BY <1>5, <2>1, <2>2, <2>3 DEF GoodVisit
<1>6. QED
  BY <1>3, <1>4, <1>5

\* A handler that goes on to a good visit leaves the others as they were.
LEMMA VisitMoves ==
  ASSUME VisitsGood, NEW h \in Handlers, NEW v, VisitStep(h, v)
  PROVE  /\ DOMAIN visit' = Handlers /\ visit'[h] = v
         /\ \A g \in Handlers \ {h} : visit'[g] = visit[g]
BY DEF VisitsGood, VisitStep

\* A step of a request that is about no session.
LEMMA OtherKeeps ==
  ASSUME SessionsInv, NEW h \in Handlers, NEW v, VisitStep(h, v), GoodVisit(v), v.pc \notin About,
         UNCHANGED <<regime, made, session, there, visits>>
  PROVE  SessionsInv'
<1>1. /\ DOMAIN visit' = Handlers /\ visit'[h] = v
      /\ \A g \in Handlers \ {h} : visit'[g] = visit[g]
  BY VisitMoves DEF SessionsInv
<1>2. /\ SessionRecord' = SessionRecord
      /\ \A x : Whole(x) => Whole(x)'
      /\ \A x : GoodVisit(x) => GoodVisit(x)'
  BY DEF SessionsInv, SessionRecord, Whole, GoodVisit, Scores, GivenAnswer
<1>3. SessionsGood'
  BY <1>2 DEF SessionsInv, SessionsGood
<1>4. VisitsGood'
  <2>1. \A g \in Handlers : GoodVisit(visit'[g])
    BY <1>1 DEF SessionsInv, VisitsGood
  <2>2. QED
    BY <1>1, <1>2, <2>1 DEF VisitsGood
<1>5. OneAtATime'
  <2>1. \A g \in Handlers : visit'[g].pc \in About => visit'[g] = visit[g]
    BY <1>1
  <2>2. QED
    BY <2>1 DEF SessionsInv, OneAtATime
<1>6. QED
  BY <1>3, <1>4, <1>5 DEF SessionsInv

\* A session is made with the next id, which no request is about yet.
LEMMA InsertKeeps ==
  ASSUME SessionsInv, NEW h \in Handlers, InsertSession(h)
  PROVE  SessionsInv'
<1> DEFINE v == [visit[h] EXCEPT !.pc = "meter"]
<1>1. /\ made \in Nat /\ made' = made + 1 /\ made' \in 0..MaxSessions /\ made' \in Ids
      /\ visits \in Nat /\ visits' = visits /\ regime' = regime
  BY InterviewBounds DEF SessionsInv, InsertSession, Ids
<1>2. /\ \A x : Whole(x) => Whole(x)'
      /\ \A x : GoodVisit(x) => GoodVisit(x)'
      /\ SessionRecord' = SessionRecord
  BY <1>1, GoodStays DEF SessionRecord, Scores, GivenAnswer
<1>3. GoodVisit(v) /\ v.pc = "meter"
  BY DEF SessionsInv, VisitsGood, GoodVisit, VisitPc, About
<1>4. /\ DOMAIN visit' = Handlers /\ visit'[h] = v
      /\ \A g \in Handlers \ {h} : visit'[g] = visit[g]
  BY VisitMoves DEF SessionsInv, InsertSession
<1> HIDE DEF v
<1>5. there' \subseteq 1..made'
  BY <1>1 DEF SessionsInv, InsertSession
<1>6. /\ session' \in [Ids -> SessionRecord] /\ session'[made'] = New
      /\ \A s \in Ids \ {made'} : session'[s] = session[s]
  BY <1>1, NewGood, InterviewBounds DEF SessionsInv, SessionsGood, InsertSession
<1>7. SessionsGood'
  <2>1. \A s \in Ids : Whole(session'[s])
    BY <1>6, NewGood, InterviewBounds DEF SessionsInv, SessionsGood
  <2>2. QED
    BY <1>2, <1>6, <2>1 DEF SessionsGood
<1>8. VisitsGood'
  <2>1. \A g \in Handlers : GoodVisit(visit'[g])
    BY <1>3, <1>4 DEF SessionsInv, VisitsGood
  <2>2. QED
    BY <1>2, <1>4, <2>1 DEF VisitsGood
<1>9. OneAtATime'
  <2>1. \A g \in Handlers : visit'[g].pc \in About =>
          visit'[g] = visit[g] /\ visit[g].s # made' /\ visit[g].s \in Ids
    BY <1>1, <1>3, <1>4 DEF SessionsInv, VisitsGood, GoodVisit, About
  <2>2. SUFFICES ASSUME regime = "alone", NEW g \in Handlers, visit'[g].pc \in About
        PROVE  /\ \A k \in Handlers \ {g} : visit'[k].pc \in About => visit'[k].s # visit'[g].s
               /\ visit'[g].pc # "delete" => /\ visit'[g].copy = session'[visit'[g].s]
                                             /\ session'[visit'[g].s].status # "completed"
    BY <1>1 DEF OneAtATime
  <2>3. visit'[g] = visit[g] /\ session'[visit[g].s] = session[visit[g].s]
    BY <1>6, <2>1, <2>2
  <2>4. QED
    BY <2>1, <2>2, <2>3 DEF SessionsInv, OneAtATime
<1>10. QED
  BY <1>1, <1>5, <1>7, <1>8, <1>9 DEF SessionsInv

\* A request about a session reads it; while requests come one at a time, no other is about it.
LEMMA VisitKeeps ==
  ASSUME SessionsInv, NEW h \in Handlers, NEW s \in Ids,
         \/ complete_interview(h, s) \/ delete_interview(h, s)
         \/ \E q \in Questions : submit_answer(h, s, q)
  PROVE  SessionsInv'
<1>1. PICK pc \in About, q \in Questions \cup {0} :
        /\ Visit(h, s, pc, q)
        /\ pc = "answer" => q \in Questions
        /\ pc # "delete" => session[s].status # "completed"
  BY DEF complete_interview, delete_interview, submit_answer, About
<1> DEFINE v == [NoVisit EXCEPT !.pc = pc, !.s = s, !.q = q, !.copy = session[s]]
<1>2. /\ visits \in Nat /\ visits' \in 0..MaxVisits /\ visits <= visits' /\ made \in Nat
      /\ UNCHANGED <<regime, made, session, there>> /\ s \in 1..made
  BY <1>1, InterviewBounds DEF SessionsInv, Visit, sessions
<1>3. /\ \A x : Whole(x) => Whole(x)'
      /\ \A x : GoodVisit(x) => GoodVisit(x)'
      /\ SessionRecord \subseteq SessionRecord'
  BY <1>2, GoodStays
<1>4. v.pc = pc /\ v.s = s /\ v.copy = session[s]
  BY DEF NoVisit
<1>5. GoodVisit(v)
  <2>1. session[s] \in SessionRecord /\ Whole(session[s]) /\ q \in Nat
    BY InterviewBounds DEF SessionsInv, SessionsGood
  <2>2. QED
    BY <1>1, <1>2, <2>1 DEF GoodVisit, NoVisit, VisitPc, About
<1>6. /\ DOMAIN visit' = Handlers /\ visit'[h] = v
      /\ \A g \in Handlers \ {h} : visit'[g] = visit[g]
  BY <1>1, VisitMoves DEF SessionsInv, Visit
<1> HIDE DEF v
<1>7. SessionsGood'
  BY <1>2, <1>3 DEF SessionsInv, SessionsGood
<1>8. VisitsGood'
  <2>1. \A g \in Handlers : GoodVisit(visit'[g])
    BY <1>5, <1>6 DEF SessionsInv, VisitsGood
  <2>2. QED
    BY <1>3, <1>6, <2>1 DEF VisitsGood
<1>9. OneAtATime'
  <2>1. SUFFICES ASSUME regime = "alone", NEW g \in Handlers, visit'[g].pc \in About
        PROVE  /\ \A k \in Handlers \ {g} : visit'[k].pc \in About => visit'[k].s # visit'[g].s
               /\ visit'[g].pc # "delete" => /\ visit'[g].copy = session[visit'[g].s]
                                             /\ session[visit'[g].s].status # "completed"
    BY <1>2 DEF OneAtATime
  <2>2. \A k \in Handlers : visit[k].pc \in About => visit[k].s # s
    BY <1>1, <2>1 DEF Visit, Alone, About
  <2>3. CASE g = h
    BY <1>1, <1>4, <1>6, <2>2, <2>3
  <2>4. CASE g # h
    <3>1. visit'[g] = visit[g] /\ visit[g].s # s
      BY <1>6, <2>1, <2>2, <2>4
    <3>2. QED
      BY <1>4, <1>6, <2>1, <3>1 DEF SessionsInv, OneAtATime
  <2>5. QED
    BY <2>3, <2>4
<1>10. QED
  BY <1>2, <1>7, <1>8, <1>9 DEF SessionsInv

\* What comes back from the model is saved over the session; a deletion removes it.
LEMMA SaveSessionKeeps ==
  ASSUME SessionsInv, NEW h \in Handlers, SaveSession(h) \/ DeleteSession(h)
  PROVE  SessionsInv'
<1> DEFINE s == visit[h].s
           x == visit[h].copy
           saved == IF VisitAt(h, "answer") THEN Answered(x, visit[h].q, visits) ELSE Completed(x)
<1>1. /\ GoodVisit(visit[h]) /\ s \in Ids /\ visits \in Nat /\ made \in Nat
      /\ visit[h].pc \in About /\ s \in 1..made
  BY InterviewBounds
     DEF SessionsInv, VisitsGood, GoodVisit, SaveSession, DeleteSession, VisitAt, About
<1>2. /\ \A y : Whole(y) => Whole(y)'
      /\ \A y : GoodVisit(y) => GoodVisit(y)'
      /\ SessionRecord' = SessionRecord
      /\ UNCHANGED <<regime, made, visits>>
  BY DEF SaveSession, DeleteSession, Whole, GoodVisit, SessionRecord, Scores, GivenAnswer
<1>3. /\ DOMAIN visit' = Handlers /\ visit'[h] = NoVisit
      /\ \A g \in Handlers \ {h} : visit'[g] = visit[g]
  BY VisitMoves DEF SessionsInv, SaveSession, DeleteSession
<1>4. NoVisit.pc = "none" /\ GoodVisit(NoVisit)
  BY NewGood, InterviewBounds DEF NoVisit
<1>5. /\ there' \subseteq 1..made'
      /\ session' = session \/ SaveSession(h)
  BY <1>1, <1>2 DEF SessionsInv, SaveSession, DeleteSession
<1>6. SaveSession(h) => Whole(saved) /\ saved \in SessionRecord
  <2>1. SUFFICES ASSUME SaveSession(h) PROVE Whole(saved)
    BY DEF Whole
  <2>2. Whole(x) /\ x.status # "completed" /\ (VisitAt(h, "answer") => visit[h].q \in Questions)
    BY <1>1, <2>1 DEF GoodVisit, SaveSession, VisitAt
  <2>3. QED
    BY <1>1, <2>2, SavedGood
<1>7. SaveSession(h) => session' = [session EXCEPT ![s] = saved]
  BY DEF SaveSession
<1> HIDE DEF saved
<1>8. session' \in [Ids -> SessionRecord] /\ \A t \in Ids : Whole(session'[t])
  BY <1>1, <1>5, <1>6, <1>7 DEF SessionsInv, SessionsGood
<1>9. SessionsGood'
  BY <1>2, <1>8 DEF SessionsGood
<1>10. VisitsGood'
  <2>1. \A g \in Handlers : GoodVisit(visit'[g])
    BY <1>3, <1>4 DEF SessionsInv, VisitsGood
  <2>2. QED
    BY <1>2, <1>3, <2>1 DEF VisitsGood
<1>11. OneAtATime'
  <2>1. SUFFICES ASSUME regime = "alone", NEW g \in Handlers, visit'[g].pc \in About
        PROVE  /\ \A k \in Handlers \ {g} : visit'[k].pc \in About => visit'[k].s # visit'[g].s
               /\ visit'[g].pc # "delete" => /\ visit'[g].copy = session'[visit'[g].s]
                                             /\ session'[visit'[g].s].status # "completed"
    BY <1>2 DEF OneAtATime
  <2>2. g # h /\ visit'[g] = visit[g] /\ visit[g].pc \in About
    BY <1>3, <1>4, <2>1 DEF About
  <2>3. /\ \A k \in Handlers \ {g} : visit[k].pc \in About => visit[k].s # visit[g].s
        /\ visit[g].pc # "delete" => /\ visit[g].copy = session[visit[g].s]
                                     /\ session[visit[g].s].status # "completed"
    BY <2>1, <2>2 DEF SessionsInv, OneAtATime
  <2>4. visit[g].s # s /\ visit[g].s \in Ids
    BY <1>1, <2>2, <2>3 DEF SessionsInv, VisitsGood, GoodVisit
  <2>5. session'[visit[g].s] = session[visit[g].s]
    BY <1>1, <1>5, <1>7, <2>4 DEF SessionsInv, SessionsGood
  <2>6. \A k \in Handlers : visit'[k].pc \in About => visit'[k] = visit[k]
    BY <1>3, <1>4 DEF About
  <2>7. QED
    BY <2>2, <2>3, <2>5, <2>6
<1>12. QED
  BY <1>2, <1>5, <1>9, <1>10, <1>11 DEF SessionsInv

-----------------------------------------------------------------------------
(* Counting requests *)

\* Between the insert and the metering of a session its request is pending; the requests that
\* passed the gate are those and the ones still on their way to the insert.
Pending == {h \in Handlers : \/ visit[h].pc = "meter"
                             \/ visit[h].pc = "metering" /\ ~At(h, "idle")}
Passed == Pending \cup {h \in Handlers : \/ visit[h].pc = "insert"
                                         \/ visit[h].pc = "gate" /\ visit[h].allowed}

\* Only this tenant's requests of the period run: no window elapses and nothing is deleted.
Plain ==
    /\ now = 0 /\ stored = 1..born
    /\ \A d \in Docs : docs[d].status = "trialing" /\ docs[d].end \in {NoTime, 1}

\* Where the handler of a request is, and which request that may be.
ServedPc == {"idle", "lookup", "ensure", "provision", "update"}
Serves(x, v) ==
    /\ x.pc \in ServedPc /\ x.kind \in Requests /\ ~x.reset /\ x.began = 0
    /\ x.pc = "update" => x.kind = "use" /\ x.doc \in stored
    /\ x.pc # "idle" =>
         /\ v.pc \in {"none", "gate", "metering"}
         /\ v.pc = "none" => x.field # "interviews_used"
         /\ v.pc = "gate" => x.kind = "check" /\ ~v.allowed
         /\ v.pc = "metering" => x.kind = "use" /\ x.field = "interviews_used"
Served == \A h \in Handlers : Serves(handler[h], visit[h])

\* The one document of the tenant counts the uses of the period.
Uses == /\ born = 0 => fresh = Unused
        /\ born <= 1 => docs[1].used = fresh

\* The sessions made are metered, pending or lost; what is metered and what passed the gate
\* exceeds the limit by no more than the handlers beside the one that was last let in.
Counted ==
    /\ lost \in Nat /\ lost + Cardinality(Pending) <= made
    /\ born <= 1 =>
         /\ made = lost + fresh["interviews_used"] + Cardinality(Pending)
         /\ fresh["interviews_used"] + Cardinality(Passed) <= Limit + Oversold

MeterInv == BillingInv /\ SessionsInv /\ Plain /\ Served /\ Uses /\ Counted

One(b) == IF b THEN 1 ELSE 0

\* A step of one handler changes a set of handlers by that handler at most.
LEMMA OneMoves ==
  ASSUME NEW S, IsFiniteSet(S), NEW T, NEW h, S \ {h} = T \ {h}
  PROVE  /\ IsFiniteSet(T) /\ Cardinality(S) \in Nat /\ Cardinality(T) \in Nat
         /\ Cardinality(T) = Cardinality(S) + One(h \in T) - One(h \in S)
<1>1. IsFiniteSet(S \ {h}) /\ Cardinality(S \ {h}) = Cardinality(S) - One(h \in S)
      /\ Cardinality(S) \in Nat
  BY FS_RemoveElement, FS_CardinalityType DEF One
<1>2. T \in SUBSET ((S \ {h}) \cup {h}) /\ IsFiniteSet((S \ {h}) \cup {h})
  BY <1>1, FS_AddElement
<1>3. IsFiniteSet(T)
  BY <1>2, FS_Subset
<1>4. Cardinality(T \ {h}) = Cardinality(T) - One(h \in T) /\ Cardinality(T) \in Nat
  BY <1>3, FS_RemoveElement, FS_CardinalityType DEF One
<1>5. Cardinality(T \ {h}) = Cardinality(S \ {h})
  OBVIOUS
<1>6. One(h \in S) \in {0, 1} /\ One(h \in T) \in {0, 1}
  BY DEF One
<1>7. QED
  BY <1>1, <1>3, <1>4, <1>5, <1>6

\* The counts are kept by a step of one request that keeps the sum of its own share.
LEMMA CountedKeeps ==
  ASSUME IsFiniteSet(Handlers), Handlers # {}, MeterInv, NEW h \in Handlers,
         \A g \in Handlers \ {h} : handler'[g] = handler[g] /\ visit'[g] = visit[g],
         lost' \in Nat, made' \in Nat, born' \in Nat, born <= born',
         fresh'["interviews_used"] \in Nat,
         lost' + One(h \in Pending') - made' <= lost + One(h \in Pending) - made,
         born' <= 1 =>
           /\ made' - made = lost' - lost + (fresh'["interviews_used"] - fresh["interviews_used"])
                               + (One(h \in Pending') - One(h \in Pending))
           /\ \/ fresh'["interviews_used"] + One(h \in Passed')
                   <= fresh["interviews_used"] + One(h \in Passed)
              \/ fresh'["interviews_used"] < Limit
  PROVE  Counted'
<1>1. /\ Pending \ {h} = Pending' \ {h} /\ Passed \ {h} = Passed' \ {h}
      /\ Pending \subseteq Handlers /\ Passed \subseteq Handlers
      /\ Pending' \subseteq Handlers /\ Passed' \subseteq Handlers
  BY DEF Pending, Passed, At
<1>2. /\ IsFiniteSet(Pending) /\ IsFiniteSet(Passed)
      /\ Cardinality(Handlers) \in Nat /\ Cardinality(Passed') <= Cardinality(Handlers)
  BY <1>1, FS_Subset, FS_CardinalityType
<1>3. /\ Cardinality(Pending) \in Nat /\ Cardinality(Pending') \in Nat
      /\ Cardinality(Pending') = Cardinality(Pending) + One(h \in Pending') - One(h \in Pending)
  BY <1>1, <1>2, OneMoves
<1>4. /\ Cardinality(Passed) \in Nat /\ Cardinality(Passed') \in Nat
      /\ Cardinality(Passed') = Cardinality(Passed) + One(h \in Passed') - One(h \in Passed)
  BY <1>1, <1>2, OneMoves
<1>5. /\ One(h \in Passed) \in {0, 1} /\ One(h \in Passed') \in {0, 1}
      /\ One(h \in Pending) \in {0, 1} /\ One(h \in Pending') \in {0, 1}
  BY DEF One
<1>6. /\ lost \in Nat /\ made \in Nat /\ born \in Nat /\ Limit \in Nat
      /\ fresh["interviews_used"] \in Nat
  BY InterviewBounds DEF MeterInv, Counted, SessionsInv, BillingInv, BillingTypeOK, Fields
<1>7. lost' + Cardinality(Pending') <= made'
  BY <1>3, <1>5, <1>6 DEF MeterInv, Counted
<1>8. ASSUME born' <= 1
      PROVE  /\ made' = lost' + fresh'["interviews_used"] + Cardinality(Pending')
             /\ fresh'["interviews_used"] + Cardinality(Passed') <= Limit + Oversold
  <2>1. /\ made = lost + fresh["interviews_used"] + Cardinality(Pending)
        /\ fresh["interviews_used"] + Cardinality(Passed) <= Limit + Oversold
    BY <1>6, <1>8 DEF MeterInv, Counted
  <2>2. made' = lost' + fresh'["interviews_used"] + Cardinality(Pending')
    BY <1>3, <1>5, <1>6, <1>8, <2>1
  <2>3. fresh'["interviews_used"] + Cardinality(Passed') <= Limit + Oversold
    BY <1>2, <1>4, <1>5, <1>6, <1>8, <2>1 DEF Oversold
  <2>4. QED
    BY <2>2, <2>3
<1>9. QED
  BY <1>7, <1>8 DEF Counted, Oversold

-----------------------------------------------------------------------------
(* The tenant's requests *)

\* The newest of the documents found is the first while there is no second.
LEMMA FirstIsLatest ==
  ASSUME BillingInv, Plain, NEW D \in SUBSET stored, D # {}
  PROVE  /\ Latest(D) \in stored /\ Latest(D) \in Docs /\ (born <= 1 => Latest(D) = 1)
         /\ ~Expired(docs[Latest(D)]) /\ RolledForward(docs[Latest(D)]) = docs[Latest(D)]
         /\ docs[Latest(D)].status \in ACTIVE_STATUSES
<1>1. Latest(D) \in stored /\ Latest(D) \in Docs
  BY FoundIsStored DEF BillingInv
<1>2. born <= 1 => Latest(D) = 1
  BY <1>1 DEF Plain, BillingInv, BillingTypeOK
<1>3. ~Expired(docs[Latest(D)])
  BY <1>1 DEF Plain, Expired, NoTime
<1>4. QED
  BY <1>1, <1>2, <1>3 DEF RolledForward, Plain, ACTIVE_STATUSES

\* A request is done without an increment only if it was no use; it goes on as what it was.
Continues(h) ==
    LET x == handler[h]
        y == handler'[h]
    IN  /\ y.pc \in ServedPc /\ y.kind \in Requests /\ ~y.reset /\ y.began = 0
        /\ y.pc = "update" => y.kind = "use" /\ y.doc \in stored'
        /\ IF y.pc = "idle" THEN x.kind # "use" ELSE y.kind = x.kind /\ y.field = x.field

Looks(h) == UNCHANGED <<docs, born, stored, fresh>> /\ Continues(h)
Provisions(h) == Insert(FreeWindow) /\ UNCHANGED fresh /\ Continues(h)
Counts(h) ==
    LET d == handler[h].doc
        f == handler[h].field
        doc == docs[d]
    IN  /\ handler[h].kind = "use" /\ d \in stored /\ d \in Docs /\ f \in Fields
        /\ docs' = [docs EXCEPT ![d] = [doc EXCEPT !.used[f] = doc.used[f] + 1]]
        /\ fresh' = [fresh EXCEPT ![f] = fresh[f] + 1]
        /\ UNCHANGED <<born, stored>>
        /\ handler'[h] = IdleHandler

\* Every step of a request's handler is one of the three.
LEMMA ProgressIs ==
  ASSUME BillingInv, Plain, NEW h \in Handlers, NEW v, Serves(handler[h], v), HandlerProgress(h)
  PROVE  /\ \A g \in Handlers \ {h} : handler'[g] = handler[g]
         /\ now' = now /\ handler[h].pc # "idle"
         /\ Looks(h) \/ Provisions(h) \/ Counts(h)
<1> DEFINE x == handler[h]
<1>1. /\ x \in HandlerRecord /\ x.kind \in Requests /\ x.pc \in ServedPc /\ ~x.reset /\ x.began = 0
      /\ handler \in [Handlers -> HandlerRecord]
      /\ x.pc = "update" => x.kind = "use" /\ x.doc \in stored
  BY DEF Serves, BillingInv, BillingTypeOK
<1>2. /\ IdleHandler.pc = "idle" /\ IdleHandler.kind \in Requests /\ ~IdleHandler.reset
      /\ IdleHandler.began = 0
  BY DEF IdleHandler, Requests
<1>3. Lookup(h) \/ Ensure(h) \/ Provision(h) \/ Increment(h)
  BY <1>1 DEF HandlerProgress, ServedPc, At, RecordEvent, Find, Adopt, SavePlan, Save
<1>4. /\ now' = now /\ x.pc # "idle"
      /\ \A g \in Handlers \ {h} : handler'[g] = handler[g]
  BY <1>1, <1>3 DEF Lookup, Ensure, Provision, Increment, HandlerStep, At
<1>5. \A y : HandlerStep(h, y) => handler'[h] = y
  BY <1>1 DEF HandlerStep
<1>6. ASSUME NEW pc \in {"ensure", "provision"}, UNCHANGED <<docs, born, stored, fresh>>,
             handler'[h] = [x EXCEPT !.pc = pc]
      PROVE  Looks(h)
  <2>1. LET y == handler'[h]
        IN  y.pc = pc /\ y.kind = x.kind /\ y.field = x.field /\ ~y.reset /\ y.began = 0
    BY <1>1, <1>6 DEF HandlerRecord
  <2>2. QED
    BY <1>1, <1>6, <2>1 DEF Looks, Continues, ServedPc
<1>7. ASSUME NEW D \in SUBSET stored, D # {}, UNCHANGED <<docs, born, stored, fresh>>,
             handler'[h] = Found(h, Latest(D))
      PROVE  Looks(h)
  <2> DEFINE held == [x EXCEPT !.doc = Latest(D), !.copy = RolledForward(docs[Latest(D)]),
                               !.reset = Expired(docs[Latest(D)])]
             using == [held EXCEPT !.pc = "update"]
  <2>1. Latest(D) \in stored /\ ~Expired(docs[Latest(D)])
    BY <1>7, FirstIsLatest
  <2>2. /\ using.pc = "update" /\ using.kind = x.kind /\ using.field = x.field /\ ~using.reset
        /\ using.began = 0 /\ using.doc \in stored
    BY <1>1, <2>1 DEF HandlerRecord
  <2>3. IF x.kind = "use" THEN handler'[h] = using ELSE handler'[h] = IdleHandler
    BY <1>1, <1>7, <2>1 DEF Found, Requests
  <2> HIDE DEF using
  <2>4. CASE x.kind = "use"
    BY <1>1, <1>7, <2>2, <2>3, <2>4 DEF Looks, Continues, ServedPc
  <2>5. CASE x.kind # "use"
    BY <1>2, <1>7, <2>3, <2>5 DEF Looks, Continues, ServedPc
  <2>6. QED
    BY <2>4, <2>5
<1>8. CASE Lookup(h)
  <2>1. UNCHANGED <<docs, born, stored, fresh>>
    BY <1>8 DEF Lookup, store
  <2>2. CASE Active = {}
    <3>1. handler'[h] = [x EXCEPT !.pc = "ensure"]
      BY <1>5, <1>8, <2>2 DEF Lookup
    <3>2. QED
      BY <1>4, <1>6, <2>1, <3>1
  <2>3. CASE Active # {}
    <3>1. Active \in SUBSET stored
      BY DEF Active
    <3>2. QED
      BY <1>4, <1>5, <1>7, <1>8, <2>1, <2>3, <3>1 DEF Lookup
  <2>4. QED
    BY <1>4, <2>2, <2>3
<1>9. CASE Ensure(h)
  <2>1. UNCHANGED <<docs, born, stored, fresh>>
    BY <1>9 DEF Ensure, store
  <2>2. CASE stored = {}
    BY <1>4, <1>5, <1>6, <1>9, <2>1, <2>2 DEF Ensure
  <2>3. CASE stored # {}
    <3>1. docs[Latest(stored)].status \in ACTIVE_STATUSES
      BY <2>3, FirstIsLatest
    <3>2. handler'[h] = Found(h, Latest(stored))
      BY <1>5, <1>9, <2>3, <3>1 DEF Ensure
    <3>3. QED
      BY <1>4, <1>7, <2>1, <2>3, <3>2
  <2>4. QED
    BY <1>4, <2>2, <2>3
<1>10. CASE Provision(h)
  <2> DEFINE using == [x EXCEPT !.pc = "update", !.doc = born + 1, !.copy = FreeWindow]
  <2>1. /\ using.pc = "update" /\ using.kind = x.kind /\ using.field = x.field /\ ~using.reset
        /\ using.began = 0 /\ using.doc = born + 1
    BY <1>1 DEF HandlerRecord
  <2>2. Insert(FreeWindow) /\ UNCHANGED fresh /\ born + 1 \in stored'
    BY <1>10 DEF Provision, Insert
  <2>3. IF x.kind = "use" THEN handler'[h] = using ELSE handler'[h] = IdleHandler
    BY <1>5, <1>10 DEF Provision
  <2> HIDE DEF using
  <2>4. CASE x.kind = "use"
    BY <1>1, <1>4, <2>1, <2>2, <2>3, <2>4 DEF Provisions, Continues, ServedPc
  <2>5. CASE x.kind # "use"
    BY <1>2, <1>4, <2>2, <2>3, <2>5 DEF Provisions, Continues, ServedPc
  <2>6. QED
    BY <2>4, <2>5
<1>11. CASE Increment(h)
  <2>1. x.pc = "update" /\ x.doc \in Docs /\ x.field \in Fields
    BY <1>1, <1>11 DEF Increment, At, HandlerRecord
  <2>2. docs' = [docs EXCEPT ![x.doc] = [docs[x.doc] EXCEPT
                                            !.used[x.field] = docs[x.doc].used[x.field] + 1]]
    BY <1>1, <1>11, <2>1 DEF Increment
  <2>3. fresh' = [fresh EXCEPT ![x.field] = fresh[x.field] + 1]
    BY <1>1, <1>11 DEF Increment, Plain
  <2>4. UNCHANGED <<born, stored>> /\ handler'[h] = IdleHandler
    BY <1>5, <1>11 DEF Increment
  <2>5. QED
    BY <1>1, <1>4, <2>1, <2>2, <2>3, <2>4 DEF Counts
<1>12. QED
  BY <1>3, <1>4, <1>8, <1>9, <1>10, <1>11

\* What such a step does to the documents and the uses.
LEMMA ProgressKeeps ==
  ASSUME BillingInv, Plain, Uses, NEW h \in Handlers, now' = now,
         Looks(h) \/ Provisions(h) \/ Counts(h)
  PROVE  /\ Plain' /\ Uses' /\ born' \in Nat /\ born <= born' /\ stored \subseteq stored'
         /\ Counts(h) \/ UNCHANGED fresh
         /\ Counts(h) => /\ fresh'["interviews_used"] = fresh["interviews_used"]
                                + One(handler[h].field = "interviews_used")
                         /\ UNCHANGED <<born, stored>>
<1>1. /\ docs \in [Docs -> Document] /\ born \in Nat /\ fresh \in [Fields -> Nat] /\ 1 \in Docs
      /\ Docs = 1..MaxDocs
  BY BillingBounds DEF BillingInv, BillingTypeOK, Docs
<1>2. CASE Looks(h)
  BY <1>1, <1>2 DEF Looks, Plain, Uses, Counts
<1>3. CASE Provisions(h)
  <2>1. FreeWindow.status = "trialing" /\ FreeWindow.end = 1 /\ FreeWindow.used = Unused
    BY DEF FreeWindow, Subscription, Plain
  <2>2. born + 1 \in Docs /\ docs' = [docs EXCEPT ![born + 1] = FreeWindow] /\ born' = born + 1
        /\ stored' = stored \cup {born + 1} /\ UNCHANGED fresh
    BY <1>1, <1>3, BillingBounds DEF Provisions, Insert
  <2>3. Plain'
    BY <1>1, <2>1, <2>2 DEF Plain
  <2>4. Uses'
    BY <1>1, <2>1, <2>2 DEF Uses
  <2>5. ~Counts(h)
    BY <1>1, <2>2 DEF Counts
  <2>6. QED
    BY <1>1, <2>2, <2>3, <2>4, <2>5
<1>4. CASE Counts(h)
  <2> DEFINE d == handler[h].doc
             f == handler[h].field
             used == [docs[d].used EXCEPT ![f] = docs[d].used[f] + 1]
             doc == [docs[d] EXCEPT !.used[f] = docs[d].used[f] + 1]
  <2>1. /\ d \in stored /\ d \in Docs /\ f \in Fields /\ docs' = [docs EXCEPT ![d] = doc]
        /\ fresh' = [fresh EXCEPT ![f] = fresh[f] + 1] /\ UNCHANGED <<born, stored>>
    BY <1>4 DEF Counts
  <2>2. docs[d] \in Document
    BY <1>1, <2>1
  <2>3. doc.used = used /\ doc.status = docs[d].status /\ doc.end = docs[d].end
    BY <2>2 DEF Document
  <2> HIDE DEF doc
  <2>4. Plain'
    BY <1>1, <2>1, <2>3 DEF Plain
  <2>5. Uses'
    <3>1. born # 0
      BY <1>1, <2>1 DEF Plain
    <3>2. born <= 1 => d = 1
      BY <1>1, <2>1 DEF Plain
    <3>3. QED
      BY <1>1, <2>1, <2>3, <3>1, <3>2 DEF Uses
  <2>6. fresh'["interviews_used"] = fresh["interviews_used"] + One(f = "interviews_used")
    BY <1>1, <2>1 DEF One, Fields
  <2>7. QED
    BY <1>1, <1>4, <2>1, <2>4, <2>5, <2>6
<1>5. QED
  BY <1>2, <1>3, <1>4

\* The gate lets a request through where the handler is done with it, below the limit.
LEMMA EntitledTells ==
  ASSUME MeterInv, NEW h \in Handlers, VisitAt(h, "gate"), HandlerProgress(h),
         Looks(h) \/ Provisions(h) \/ Counts(h), ~At(h, "idle")
  PROVE  /\ Entitled(h) \in BOOLEAN
         /\ Entitled(h) => /\ At(h, "idle")'
                           /\ born' <= 1 => fresh'["interviews_used"] < Limit
<1> DEFINE x == handler[h]
<1>1. x.kind = "check" /\ ~visit[h].allowed /\ x \in HandlerRecord /\ visit[h].allowed \in BOOLEAN
  BY DEF MeterInv, Served, Serves, VisitAt, At, SessionsInv, VisitsGood, GoodVisit, BillingInv,
     BillingTypeOK
<1>2. IdleHandler.pc = "idle" /\ \A y : HandlerStep(h, y) => handler'[h] = y
  BY DEF IdleHandler, HandlerStep, MeterInv, BillingInv, BillingTypeOK
<1>3. UNCHANGED fresh /\ born \in Nat
  BY <1>1 DEF Looks, Provisions, Counts, MeterInv, BillingInv, BillingTypeOK
<1>4. ASSUME NEW D \in SUBSET stored, D # {}, UNCHANGED born
      PROVE  /\ Found(h, Latest(D)) = IdleHandler
             /\ docs[Latest(D)].status \in ACTIVE_STATUSES
             /\ Below(RolledForward(docs[Latest(D)])) \in BOOLEAN
             /\ Below(RolledForward(docs[Latest(D)])) /\ born' <= 1 =>
                  fresh'["interviews_used"] < Limit
  <2>1. /\ (born <= 1 => Latest(D) = 1)
        /\ ~Expired(docs[Latest(D)]) /\ RolledForward(docs[Latest(D)]) = docs[Latest(D)]
        /\ docs[Latest(D)].status \in ACTIVE_STATUSES
    BY <1>4, FirstIsLatest DEF MeterInv
  <2>2. Found(h, Latest(D)) = IdleHandler
    BY <1>1, <2>1 DEF Found
  <2>3. Below(docs[Latest(D)]) /\ born <= 1 => fresh["interviews_used"] < Limit
    BY <2>1 DEF Below, MeterInv, Uses
  <2>4. QED
    BY <1>3, <1>4, <2>1, <2>2, <2>3 DEF Below
<1>5. CASE At(h, "lookup")
  <2>1. CASE Active # {}
    <3>1. Active \in SUBSET stored /\ UNCHANGED born
      BY <1>5
         DEF Active, HandlerProgress, Lookup, Ensure, Provision, Increment, RecordEvent, Find,
             Adopt, SavePlan, Save, At, store
    <3>2. Entitled(h) = Below(RolledForward(docs[Latest(Active)]))
      BY <1>5, <2>1 DEF Entitled, At
    <3>3. HandlerStep(h, Found(h, Latest(Active)))
      BY <1>5, <2>1
         DEF HandlerProgress, Lookup, Ensure, Provision, Increment, RecordEvent, Find, Adopt,
             SavePlan, Save, At
    <3>4. QED
      BY <1>2, <1>4, <2>1, <3>1, <3>2, <3>3 DEF At
  <2>2. CASE Active = {}
    BY <1>1, <1>5, <2>2 DEF Entitled, At
  <2>3. QED
    BY <2>1, <2>2
<1>6. CASE At(h, "ensure")
  <2>1. Ensure(h)
    BY <1>6
       DEF HandlerProgress, Lookup, Provision, Increment, RecordEvent, Find, Adopt, SavePlan,
           Save, At
  <2>2. CASE stored # {}
    <3>1. UNCHANGED born /\ docs[Latest(stored)].status \in ACTIVE_STATUSES
      BY <1>4, <2>1, <2>2 DEF Ensure, store
    <3>2. Entitled(h) = Below(RolledForward(docs[Latest(stored)]))
      BY <1>4, <1>6, <2>2, <3>1 DEF Entitled, At
    <3>3. HandlerStep(h, Found(h, Latest(stored)))
      BY <2>1, <2>2, <3>1 DEF Ensure
    <3>4. QED
      BY <1>2, <1>4, <2>2, <3>1, <3>2, <3>3 DEF At
  <2>3. CASE stored = {}
    BY <1>1, <1>6, <2>3 DEF Entitled, At
  <2>4. QED
    BY <2>2, <2>3
<1>7. CASE At(h, "provision")
  <2>1. Provision(h)
    BY <1>7
       DEF HandlerProgress, Lookup, Ensure, Increment, RecordEvent, Find, Adopt, SavePlan, Save,
           At
  <2>2. At(h, "idle")' /\ born' = born + 1
    BY <1>1, <1>2, <2>1 DEF Provision, Insert, At
  <2>3. Entitled(h) = Below(FreeWindow)
    BY <1>7 DEF Entitled, At
  <2>4. Below(FreeWindow) \in BOOLEAN /\ (Below(FreeWindow) => 0 < Limit)
    BY DEF Below, FreeWindow, Subscription, Unused, Fields
  <2>5. born' <= 1 => fresh'["interviews_used"] = 0
    BY <1>3, <2>2 DEF MeterInv, Uses, Unused, Fields
  <2>6. QED
    BY <2>2, <2>3, <2>4, <2>5
<1>8. CASE ~At(h, "lookup") /\ ~At(h, "ensure") /\ ~At(h, "provision")
  BY <1>1, <1>8 DEF Entitled
<1>9. QED
  BY <1>5, <1>6, <1>7, <1>8

-----------------------------------------------------------------------------
(* The steps *)

\* A request stays one of the tenant's as documents are made and the others are left alone.
LEMMA ServedKeeps ==
  ASSUME Served, NEW h \in Handlers, stored \subseteq stored',
         \A g \in Handlers \ {h} : handler'[g] = handler[g] /\ visit'[g] = visit[g],
         Serves(handler[h], visit[h])'
  PROVE  Served'
<1>1. \A g \in Handlers \ {h} : Serves(handler[g], visit[g])'
  BY DEF Served, Serves
<1>2. QED
  BY <1>1 DEF Served

\* Every step of this specification is one of Billing, or loses a request: its invariant holds.
LEMMA BillingKept ==
  ASSUME BillingInv, [INext]_<<vars, ivars>>
  PROVE  BillingInv'
<1>1. \A h \in Handlers : HandlerProgress(h) => Next
  BY DEF Next
<1>2. \A h \in Handlers, kind \in Requests, f \in Fields : Request(h, kind, f) => Next
  BY DEF Next
<1>3. "check" \in Requests /\ "use" \in Requests
      /\ "applications_used" \in Fields /\ "interviews_used" \in Fields
  BY DEF Requests, Fields
<1>4. ASSUME NEW h \in Handlers, VisitDies(h) PROVE BillingInv'
  <2>1. GoodHandler(IdleHandler) /\ events \in Nat
    BY IdleGood DEF BillingInv, BillingTypeOK
  <2>2. /\ UNCHANGED <<store, erased, stripe, emitted, wire, recorded, now, fresh>>
        /\ HandlerStep(h, IdleHandler) /\ events' = events + 1
    BY <1>4 DEF VisitDies, Event
  <2>3. QED
    BY <2>1, <2>2, HandlerKeeps, Unchanged
<1>5. ASSUME NEW h \in Handlers, InterviewStep(h) \/ create_interview(h) \/ Gated(h, FALSE)
      PROVE  [Next]_vars
  BY <1>1, <1>2, <1>3, <1>5
     DEF InterviewStep, GateStep, Gated, InsertSession, Meter, MeterStep, Metered, SaveSession,
         DeleteSession, create_interview
<1>6. ASSUME NEW h \in Handlers, NEW s \in Ids,
             \/ complete_interview(h, s) \/ delete_interview(h, s)
             \/ \E q \in Questions : submit_answer(h, s, q)
      PROVE  UNCHANGED vars
  BY <1>6 DEF complete_interview, delete_interview, submit_answer, Visit
<1>7. CASE Beside
  <2>1. Next
    BY <1>1, <1>2, <1>3, <1>7 DEF Beside
  <2>2. QED
    BY <2>1, NextInv
<1>8. CASE UNCHANGED <<vars, ivars>>
  BY <1>8, NextInv
<1>9. QED
  BY <1>4, <1>5, <1>6, <1>7, <1>8, NextInv DEF INext

\* What a request that comes in does to its handler.
LEMMA RequestComes ==
  ASSUME BillingInv, Plain, NEW h \in Handlers, NEW kind \in Requests, NEW f \in Fields,
         Request(h, kind, f)
  PROVE  /\ \A g \in Handlers \ {h} : handler'[g] = handler[g]
         /\ UNCHANGED <<docs, born, stored, now, fresh>> /\ At(h, "idle")
         /\ handler'[h].pc \in {"lookup", "ensure"} /\ handler'[h].kind = kind
         /\ handler'[h].field = f /\ ~handler'[h].reset /\ handler'[h].began = 0
<1> DEFINE new == [IdleHandler EXCEPT !.pc = IF kind = "ensure" THEN "ensure" ELSE "lookup",
                                      !.kind = kind, !.field = f, !.began = now]
<1>1. /\ new.pc \in {"lookup", "ensure"} /\ new.kind = kind /\ new.field = f /\ ~new.reset
      /\ new.began = 0
  BY DEF IdleHandler, Plain
<1>2. HandlerStep(h, new) /\ UNCHANGED <<docs, born, stored, now, fresh>> /\ At(h, "idle")
  BY DEF Request, store
<1> HIDE DEF new
<1>3. QED
  BY <1>1, <1>2 DEF HandlerStep, BillingInv, BillingTypeOK

\* A step that leaves the documents alone keeps what is said of them.
LEMMA PlainStays ==
  ASSUME Plain, Uses, UNCHANGED <<docs, born, stored, now, fresh>>
  PROVE  Plain' /\ Uses'
BY DEF Plain, Uses

\* The gate.
LEMMA GateKeeps ==
  ASSUME IsFiniteSet(Handlers), Handlers # {}, MeterInv, BillingInv', NEW h \in Handlers,
         GateStep(h)
  PROVE  MeterInv'
<1> DEFINE v == [visit[h] EXCEPT !.allowed = Entitled(h)]
<1>1. /\ BillingInv /\ SessionsInv /\ Plain /\ Served /\ Uses /\ Counted
      /\ GoodVisit(visit[h]) /\ visit[h].pc = "gate" /\ HandlerProgress(h) /\ VisitStep(h, v)
      /\ UNCHANGED <<regime, made, session, there, visits, lost>>
  BY DEF MeterInv, GateStep, VisitAt, SessionsInv, VisitsGood, sessions
<1>2. /\ \A g \in Handlers \ {h} : handler'[g] = handler[g]
      /\ now' = now /\ handler[h].pc # "idle"
      /\ Looks(h) \/ Provisions(h) \/ Counts(h)
  BY <1>1, ProgressIs DEF Served
<1>3. handler[h].kind = "check" /\ ~visit[h].allowed
  BY <1>1, <1>2 DEF Served, Serves
<1>4. /\ Plain' /\ Uses' /\ born' \in Nat /\ born <= born' /\ stored \subseteq stored'
      /\ UNCHANGED fresh
  BY <1>1, <1>2, <1>3, ProgressKeeps DEF Counts
<1>5. /\ Entitled(h) \in BOOLEAN
      /\ Entitled(h) => /\ At(h, "idle")'
                        /\ born' <= 1 => fresh'["interviews_used"] < Limit
  BY <1>1, <1>2, EntitledTells DEF VisitAt, At
<1>6. v.pc = "gate" /\ v.allowed = Entitled(h) /\ GoodVisit(v)
  BY <1>1, <1>5 DEF GoodVisit, About
<1>7. SessionsInv'
  BY <1>1, <1>6, OtherKeeps DEF About
<1>8. visit'[h] = v /\ \A g \in Handlers \ {h} : visit'[g] = visit[g]
  BY <1>1, VisitMoves DEF SessionsInv
<1> HIDE DEF v
<1>9. Continues(h)
  BY <1>2, <1>3 DEF Looks, Provisions, Counts
<1>10. Serves(handler[h], visit[h])'
  BY <1>3, <1>5, <1>6, <1>8, <1>9 DEF Continues, Serves, At
<1>11. Served'
  BY <1>1, <1>2, <1>4, <1>8, <1>10, ServedKeeps
<1>12. /\ h \notin Pending /\ h \notin Pending' /\ h \notin Passed
       /\ h \in Passed' => Entitled(h)
  BY <1>1, <1>3, <1>6, <1>8 DEF Pending, Passed
<1>13. /\ lost \in Nat /\ made \in Nat /\ fresh["interviews_used"] \in Nat
  BY <1>1 DEF Counted, SessionsInv, BillingInv, BillingTypeOK, Fields
<1>14. Counted'
  BY <1>1, <1>2, <1>4, <1>5, <1>8, <1>12, <1>13, CountedKeeps DEF One
<1>15. QED
  BY <1>4, <1>7, <1>11, <1>14 DEF MeterInv

\* The metering of a session.
LEMMA MeterStepKeeps ==
  ASSUME IsFiniteSet(Handlers), Handlers # {}, MeterInv, BillingInv', NEW h \in Handlers,
         MeterStep(h)
  PROVE  MeterInv'
<1>1. /\ BillingInv /\ SessionsInv /\ Plain /\ Served /\ Uses /\ Counted
      /\ visit[h].pc = "metering" /\ HandlerProgress(h) /\ UNCHANGED ivars
  BY DEF MeterInv, MeterStep, VisitAt
<1>2. /\ \A g \in Handlers \ {h} : handler'[g] = handler[g]
      /\ now' = now /\ handler[h].pc # "idle"
      /\ Looks(h) \/ Provisions(h) \/ Counts(h)
  BY <1>1, ProgressIs DEF Served
<1>3. handler[h].kind = "use" /\ handler[h].field = "interviews_used"
  BY <1>1, <1>2 DEF Served, Serves
<1>4. /\ Plain' /\ Uses' /\ born' \in Nat /\ born <= born' /\ stored \subseteq stored'
      /\ Counts(h) \/ UNCHANGED fresh
      /\ Counts(h) => fresh'["interviews_used"] = fresh["interviews_used"] + 1
  BY <1>1, <1>2, <1>3, ProgressKeeps DEF One
<1>5. Counts(h) => handler'[h] = IdleHandler
  BY DEF Counts
<1>6. ~Counts(h) => Continues(h) /\ handler'[h].pc # "idle"
  BY <1>2, <1>3 DEF Looks, Provisions, Continues
<1>7. SessionsInv'
  BY <1>1
     DEF ivars, SessionsInv, SessionsGood, VisitsGood, OneAtATime, GoodVisit, Whole,
         SessionRecord, Scores, GivenAnswer
<1>8. visit' = visit /\ made' = made /\ lost' = lost
  BY <1>1 DEF ivars
<1>9. Serves(handler[h], visit[h])'
  <2>1. CASE Counts(h)
    BY <1>5, <2>1 DEF Serves, IdleHandler, ServedPc, Requests
  <2>2. CASE ~Counts(h)
    BY <1>1, <1>3, <1>6, <1>8, <2>2 DEF Serves, Continues
  <2>3. QED
    BY <2>1, <2>2
<1>10. Served'
  BY <1>1, <1>2, <1>4, <1>8, <1>9, ServedKeeps
<1>11. /\ h \in Pending /\ h \in Passed
       /\ h \in Pending' <=> ~Counts(h)
       /\ h \in Passed' <=> ~Counts(h)
  BY <1>1, <1>2, <1>5, <1>6, <1>8 DEF Pending, Passed, At, IdleHandler
<1>12. lost \in Nat /\ made \in Nat /\ fresh["interviews_used"] \in Nat
  BY <1>1 DEF Counted, SessionsInv, BillingInv, BillingTypeOK, Fields
<1>13. Counted'
  <2>1. CASE Counts(h)
    BY <1>2, <1>4, <1>8, <1>11, <1>12, <2>1, CountedKeeps DEF One
  <2>2. CASE ~Counts(h)
    BY <1>2, <1>4, <1>8, <1>11, <1>12, <2>2, CountedKeeps DEF One
  <2>3. QED
    BY <2>1, <2>2
<1>14. QED
  BY <1>4, <1>7, <1>10, <1>13 DEF MeterInv

\* The tenant's other requests.
LEMMA BesideKeeps ==
  ASSUME IsFiniteSet(Handlers), Handlers # {}, MeterInv, BillingInv', Beside
  PROVE  MeterInv'
<1>1. PICK h \in Handlers :
        /\ VisitAt(h, "none")
        /\ \/ HandlerProgress(h)
           \/ \E kind \in Requests : Request(h, kind, "applications_used")
  BY DEF Beside
<1>2. /\ BillingInv /\ SessionsInv /\ Plain /\ Served /\ Uses /\ Counted
      /\ visit[h].pc = "none" /\ UNCHANGED ivars
  BY <1>1 DEF MeterInv, Beside, VisitAt
<1>3. SessionsInv'
  BY <1>2
     DEF ivars, SessionsInv, SessionsGood, VisitsGood, OneAtATime, GoodVisit, Whole,
         SessionRecord, Scores, GivenAnswer
<1>4. visit' = visit /\ made' = made /\ lost' = lost
  BY <1>2 DEF ivars
<1>5. /\ lost \in Nat /\ made \in Nat /\ fresh["interviews_used"] \in Nat /\ born \in Nat
  BY <1>2 DEF Counted, SessionsInv, BillingInv, BillingTypeOK, Fields
<1>6. h \notin Pending /\ h \notin Passed /\ h \notin Pending' /\ h \notin Passed'
  BY <1>2, <1>4 DEF Pending, Passed
<1>7. CASE HandlerProgress(h)
  <2>1. /\ \A g \in Handlers \ {h} : handler'[g] = handler[g]
        /\ now' = now /\ handler[h].pc # "idle"
        /\ Looks(h) \/ Provisions(h) \/ Counts(h)
    BY <1>2, <1>7, ProgressIs DEF Served
  <2>2. handler[h].field # "interviews_used"
    BY <1>2, <2>1 DEF Served, Serves
  <2>3. /\ Plain' /\ Uses' /\ born' \in Nat /\ born <= born' /\ stored \subseteq stored'
        /\ fresh'["interviews_used"] = fresh["interviews_used"]
    BY <1>2, <1>5, <2>1, <2>2, ProgressKeeps DEF One
  <2>4. handler'[h] = IdleHandler \/ Continues(h)
    BY <2>1 DEF Looks, Provisions, Counts
  <2>5. Serves(handler[h], visit[h])'
    BY <1>2, <1>4, <2>2, <2>4 DEF Serves, Continues, IdleHandler, ServedPc, Requests
  <2>6. Served'
    BY <1>2, <1>4, <2>1, <2>3, <2>5, ServedKeeps
  <2>7. Counted'
    BY <1>4, <1>5, <1>6, <2>1, <2>3, CountedKeeps DEF One
  <2>8. QED
    BY <1>3, <2>3, <2>6, <2>7 DEF MeterInv
<1>8. ASSUME NEW kind \in Requests, Request(h, kind, "applications_used") PROVE MeterInv'
  <2>1. /\ \A g \in Handlers \ {h} : handler'[g] = handler[g]
        /\ UNCHANGED <<docs, born, stored, now, fresh>>
        /\ handler'[h].pc \in {"lookup", "ensure"} /\ handler'[h].kind = kind
        /\ handler'[h].field = "applications_used"
        /\ ~handler'[h].reset /\ handler'[h].began = 0
    BY <1>2, <1>8, RequestComes DEF Fields
  <2>2. Serves(handler[h], visit[h])'
    BY <1>2, <1>4, <2>1 DEF Serves, ServedPc
  <2>3. Served'
    BY <1>2, <1>4, <2>1, <2>2, ServedKeeps
  <2>4. Counted'
    BY <1>4, <1>5, <1>6, <2>1, CountedKeeps DEF One
  <2>5. QED
    BY <1>2, <1>3, <2>1, <2>3, <2>4, PlainStays DEF MeterInv
<1>9. QED
  BY <1>1, <1>7, <1>8

\* A request begins at the gate, or begins to meter: its share of the counts is what it was.
LEMMA RequestsKeep ==
  ASSUME IsFiniteSet(Handlers), Handlers # {}, MeterInv, BillingInv', NEW h \in Handlers,
         create_interview(h) \/ Meter(h)
  PROVE  MeterInv'
<1> DEFINE create == [NoVisit EXCEPT !.pc = "gate"]
           meter == [visit[h] EXCEPT !.pc = "metering"]
<1>1. /\ BillingInv /\ SessionsInv /\ Plain /\ Served /\ Uses /\ Counted /\ GoodVisit(visit[h])
      /\ UNCHANGED <<regime, made, session, there, visits, lost>>
  BY DEF MeterInv, create_interview, Meter, SessionsInv, VisitsGood, sessions
<1>2. /\ lost \in Nat /\ made \in Nat /\ fresh["interviews_used"] \in Nat /\ born \in Nat
  BY <1>1 DEF Counted, SessionsInv, BillingInv, BillingTypeOK, Fields
<1>3. CASE create_interview(h)
  <2>1. /\ create.pc = "gate" /\ ~create.allowed /\ GoodVisit(create) /\ VisitStep(h, create)
        /\ visit[h].pc = "none"
    BY <1>3, NewGood, InterviewBounds
       DEF NoVisit, GoodVisit, VisitPc, About, create_interview, VisitAt
  <2> HIDE DEF create
  <2>2. SessionsInv' /\ visit'[h] = create /\ \A g \in Handlers \ {h} : visit'[g] = visit[g]
    BY <1>1, <2>1, OtherKeeps, VisitMoves DEF About, SessionsInv
  <2>3. /\ \A g \in Handlers \ {h} : handler'[g] = handler[g]
        /\ UNCHANGED <<docs, born, stored, now, fresh>>
        /\ handler'[h].pc \in {"lookup", "ensure"} /\ handler'[h].kind = "check"
        /\ ~handler'[h].reset /\ handler'[h].began = 0
    BY <1>1, <1>3, RequestComes DEF Fields, Requests, create_interview
  <2>4. Serves(handler[h], visit[h])'
    BY <2>1, <2>2, <2>3 DEF Serves, ServedPc, Requests
  <2>5. Served'
    BY <1>1, <2>2, <2>3, <2>4, ServedKeeps
  <2>6. h \notin Pending /\ h \notin Passed /\ h \notin Pending' /\ h \notin Passed'
    BY <2>1, <2>2 DEF Pending, Passed
  <2>7. Counted'
    BY <1>1, <1>2, <2>2, <2>3, <2>6, CountedKeeps DEF One
  <2>8. QED
    BY <1>1, <2>2, <2>3, <2>5, <2>7, PlainStays DEF MeterInv
<1>4. CASE Meter(h)
  <2>1. /\ meter.pc = "metering" /\ GoodVisit(meter) /\ VisitStep(h, meter)
        /\ visit[h].pc = "meter"
    BY <1>1, <1>4 DEF GoodVisit, VisitPc, About, Meter, VisitAt
  <2> HIDE DEF meter
  <2>2. SessionsInv' /\ visit'[h] = meter /\ \A g \in Handlers \ {h} : visit'[g] = visit[g]
    BY <1>1, <2>1, OtherKeeps, VisitMoves DEF About, SessionsInv
  <2>3. /\ \A g \in Handlers \ {h} : handler'[g] = handler[g]
        /\ UNCHANGED <<docs, born, stored, now, fresh>>
        /\ handler'[h].pc \in {"lookup", "ensure"} /\ handler'[h].kind = "use"
        /\ handler'[h].field = "interviews_used"
        /\ ~handler'[h].reset /\ handler'[h].began = 0
    BY <1>1, <1>4, RequestComes DEF Fields, Requests, Meter
  <2>4. Serves(handler[h], visit[h])'
    BY <2>1, <2>2, <2>3 DEF Serves, ServedPc, Requests
  <2>5. Served'
    BY <1>1, <2>2, <2>3, <2>4, ServedKeeps
  <2>6. h \in Pending /\ h \in Passed /\ h \in Pending' /\ h \in Passed'
    BY <2>1, <2>2, <2>3 DEF Pending, Passed, At
  <2>7. Counted'
    BY <1>1, <1>2, <2>2, <2>3, <2>6, CountedKeeps DEF One
  <2>8. QED
    BY <1>1, <2>2, <2>3, <2>5, <2>7, PlainStays DEF MeterInv
<1>5. QED
  BY <1>3, <1>4

\* The steps that leave every handler as it was.
LEMMA IdleStepsKeep ==
  ASSUME IsFiniteSet(Handlers), Handlers # {}, MeterInv, BillingInv', SessionsInv',
         NEW h \in Handlers, UNCHANGED <<vars, lost>>,
         \A g \in Handlers \ {h} : visit'[g] = visit[g],
         handler[h].pc = "idle", made' \in Nat,
         made' - made = One(h \in Pending') - One(h \in Pending),
         One(h \in Passed') <= One(h \in Passed)
  PROVE  MeterInv'
<1>1. /\ BillingInv /\ SessionsInv /\ Plain /\ Served /\ Uses /\ Counted
      /\ UNCHANGED <<docs, born, stored, now, fresh>> /\ handler' = handler /\ lost' = lost
  BY DEF MeterInv, vars
<1>2. /\ lost \in Nat /\ made \in Nat /\ fresh["interviews_used"] \in Nat /\ born \in Nat
      /\ One(h \in Pending) \in Nat /\ One(h \in Pending') \in Nat
      /\ One(h \in Passed) \in Nat /\ One(h \in Passed') \in Nat
  BY <1>1 DEF Counted, SessionsInv, BillingInv, BillingTypeOK, Fields, One
<1>3. Serves(handler[h], visit[h])'
  <2>1. Serves(handler[h], visit[h]) /\ handler'[h] = handler[h] /\ stored' = stored
    BY <1>1 DEF Served
  <2>2. QED
    BY <2>1 DEF Serves
<1>4. Served'
  BY <1>1, <1>3, ServedKeeps
<1>5. Counted'
  BY <1>1, <1>2, CountedKeeps
<1>6. QED
  BY <1>1, <1>4, <1>5, PlainStays DEF MeterInv

\* The gate is answered, the session is inserted, the request is done.
LEMMA RequestStepsKeep ==
  ASSUME IsFiniteSet(Handlers), Handlers # {}, MeterInv, BillingInv', NEW h \in Handlers,
         Gated(h, TRUE) \/ Gated(h, FALSE) \/ InsertSession(h) \/ Metered(h)
  PROVE  MeterInv'
<1>1. /\ BillingInv /\ SessionsInv /\ Served /\ GoodVisit(visit[h])
      /\ made \in Nat /\ UNCHANGED <<vars, lost>>
  BY DEF MeterInv, SessionsInv, VisitsGood, Gated, InsertSession, Metered
<1>2. handler[h].pc = "idle" /\ handler'[h].pc = "idle"
  BY <1>1 DEF Served, Serves, Gated, InsertSession, Metered, VisitAt, At, vars
<1>3. NoVisit.pc = "none" /\ GoodVisit(NoVisit)
  BY NewGood, InterviewBounds DEF NoVisit
<1>4. ASSUME NEW questions \in BOOLEAN, Gated(h, questions) PROVE MeterInv'
  <2> DEFINE insert == [visit[h] EXCEPT !.pc = "insert"]
  <2>1. insert.pc = "insert" /\ GoodVisit(insert) /\ visit[h].pc = "gate"
    BY <1>1, <1>4 DEF GoodVisit, VisitPc, About, Gated, VisitAt
  <2>2. PICK v \in {insert, NoVisit} : VisitStep(h, v) /\ (v = insert => visit[h].allowed)
    BY <1>3, <1>4, <2>1 DEF Gated
  <2> HIDE DEF insert
  <2>3. /\ UNCHANGED <<regime, made, session, there, visits>>
        /\ v.pc \in {"insert", "none"} /\ GoodVisit(v) /\ (v.pc = "insert" => visit[h].allowed)
    BY <1>3, <1>4, <2>1, <2>2 DEF Gated, sessions
  <2>4. SessionsInv' /\ visit'[h] = v /\ \A g \in Handlers \ {h} : visit'[g] = visit[g]
    BY <1>1, <2>2, <2>3, OtherKeeps, VisitMoves DEF About, SessionsInv
  <2>5. h \notin Pending /\ h \notin Pending' /\ (h \in Passed' => h \in Passed)
    BY <2>1, <2>3, <2>4 DEF Pending, Passed
  <2>6. QED
    BY <1>1, <1>2, <2>3, <2>4, <2>5, IdleStepsKeep DEF One
<1>5. CASE InsertSession(h)
  <2> DEFINE meter == [visit[h] EXCEPT !.pc = "meter"]
  <2>1. meter.pc = "meter" /\ visit[h].pc = "insert" /\ VisitStep(h, meter) /\ made' = made + 1
    BY <1>1, <1>5 DEF GoodVisit, InsertSession, VisitAt
  <2> HIDE DEF meter
  <2>2. SessionsInv' /\ visit'[h] = meter /\ \A g \in Handlers \ {h} : visit'[g] = visit[g]
    BY <1>1, <1>5, <2>1, InsertKeeps, VisitMoves DEF SessionsInv
  <2>3. h \notin Pending /\ h \in Pending' /\ h \in Passed /\ h \in Passed'
    BY <2>1, <2>2 DEF Pending, Passed
  <2>4. QED
    BY <1>1, <1>2, <2>1, <2>2, <2>3, IdleStepsKeep DEF One
<1>6. CASE Metered(h)
  <2>1. /\ VisitStep(h, NoVisit) /\ visit[h].pc = "metering"
        /\ UNCHANGED <<regime, made, session, there, visits>>
    BY <1>6 DEF Metered, VisitAt, sessions
  <2>2. SessionsInv' /\ visit'[h] = NoVisit /\ \A g \in Handlers \ {h} : visit'[g] = visit[g]
    BY <1>1, <1>3, <2>1, OtherKeeps, VisitMoves DEF About, SessionsInv
  <2>3. h \notin Pending /\ h \notin Pending' /\ h \notin Passed /\ h \notin Passed'
    BY <1>2, <1>3, <2>1, <2>2 DEF Pending, Passed, At
  <2>4. QED
    BY <1>1, <1>2, <2>1, <2>2, <2>3, IdleStepsKeep DEF One
<1>7. QED
  BY <1>4, <1>5, <1>6

\* The requests about a session are in none of the counts.
LEMMA SessionStepsKeep ==
  ASSUME IsFiniteSet(Handlers), Handlers # {}, MeterInv, BillingInv', NEW h \in Handlers,
         \/ SaveSession(h) \/ DeleteSession(h)
         \/ \E s \in Ids : \/ complete_interview(h, s) \/ delete_interview(h, s)
                           \/ \E q \in Questions : submit_answer(h, s, q)
  PROVE  MeterInv'
<1>1. /\ SessionsInv /\ Served /\ made \in Nat
  BY DEF MeterInv, SessionsInv
<1>2. SessionsInv'
  BY <1>1, VisitKeeps, SaveSessionKeeps
<1>3. PICK v : VisitStep(h, v) /\ v.pc \in About \cup {"none"} /\ UNCHANGED <<vars, made, lost>>
              /\ visit[h].pc \in About \cup {"none"}
  <2>1. CASE SaveSession(h) \/ DeleteSession(h)
    BY <2>1 DEF SaveSession, DeleteSession, NoVisit, About, VisitAt
  <2>2. ASSUME NEW s \in Ids, NEW pc \in About, NEW q, Visit(h, s, pc, q)
        PROVE  LET v == [NoVisit EXCEPT !.pc = pc, !.s = s, !.q = q, !.copy = session[s]]
               IN  /\ VisitStep(h, v) /\ v.pc \in About /\ UNCHANGED <<vars, made, lost>>
                   /\ visit[h].pc = "none"
    BY <2>2 DEF Visit, NoVisit, Free_handler, VisitAt, sessions
  <2>3. QED
    BY <2>1, <2>2 DEF complete_interview, delete_interview, submit_answer, About
<1>4. visit'[h] = v /\ \A g \in Handlers \ {h} : visit'[g] = visit[g]
  BY <1>1, <1>3, VisitMoves DEF SessionsInv
<1>5. handler[h].pc = "idle"
  <2>1. CASE SaveSession(h) \/ DeleteSession(h)
    BY <1>1, <2>1 DEF Served, Serves, SaveSession, DeleteSession, VisitAt
  <2>2. QED
    BY <2>1 DEF complete_interview, delete_interview, submit_answer, Visit, Free_handler, At
<1>6. h \notin Pending /\ h \notin Pending' /\ h \notin Passed /\ h \notin Passed'
  BY <1>3, <1>4 DEF Pending, Passed, About
<1>7. QED
  BY <1>1, <1>2, <1>3, <1>4, <1>5, <1>6, IdleStepsKeep DEF One

\* A lost request leaves its share: a session it did not meter is counted as lost.
LEMMA LostKeeps ==
  ASSUME IsFiniteSet(Handlers), Handlers # {}, MeterInv, BillingInv', NEW h \in Handlers,
         VisitDies(h)
  PROVE  MeterInv'
<1>1. /\ BillingInv /\ SessionsInv /\ Plain /\ Served /\ Uses /\ Counted
      /\ HandlerStep(h, IdleHandler) /\ VisitStep(h, NoVisit) /\ visit[h].pc # "none"
      /\ UNCHANGED <<docs, born, stored, now, fresh, regime, made, session, there, visits>>
  BY DEF MeterInv, VisitDies, VisitAt, sessions, store
<1>2. NoVisit.pc = "none" /\ GoodVisit(NoVisit) /\ IdleHandler.pc = "idle"
  BY NewGood, InterviewBounds DEF NoVisit, IdleHandler
<1>3. SessionsInv' /\ visit'[h] = NoVisit /\ \A g \in Handlers \ {h} : visit'[g] = visit[g]
  BY <1>1, <1>2, OtherKeeps, VisitMoves DEF About, SessionsInv
<1>4. handler'[h] = IdleHandler /\ \A g \in Handlers \ {h} : handler'[g] = handler[g]
  BY <1>1 DEF HandlerStep, BillingInv, BillingTypeOK
<1>5. Serves(handler[h], visit[h])'
  BY <1>2, <1>4 DEF Serves, IdleHandler, ServedPc, Requests
<1>6. Served'
  BY <1>1, <1>3, <1>4, <1>5, ServedKeeps
<1>7. h \notin Pending' /\ h \notin Passed' /\ lost' = lost + One(h \in Pending)
  BY <1>2, <1>3, <1>4 DEF Pending, Passed, At, One, VisitDies, VisitAt, MeterInv, Counted
<1>8. /\ lost \in Nat /\ made \in Nat /\ fresh["interviews_used"] \in Nat /\ born \in Nat
      /\ One(h \in Pending) \in Nat /\ One(h \in Passed) \in Nat
  BY <1>1 DEF Counted, SessionsInv, BillingInv, BillingTypeOK, Fields, One
<1>9. One(h \in Pending') = 0 /\ One(h \in Passed') = 0
  BY <1>7 DEF One
<1>10. Counted'
  BY <1>1, <1>3, <1>4, <1>7, <1>8, <1>9, CountedKeeps
<1>11. QED
  BY <1>1, <1>3, <1>6, <1>10, PlainStays DEF MeterInv

-----------------------------------------------------------------------------
\* The invariant holds at the start ...
LEMMA MeterInit ==
  ASSUME IsFiniteSet(Handlers), Handlers # {}, IInit
  PROVE  MeterInv
<1>1. BillingInv
  BY InitInv DEF IInit
<1>2. SessionsInv
  <2>1. Whole(New) /\ New \in SessionRecord /\ GoodVisit(NoVisit)
    BY NewGood, InterviewBounds
  <2>2. SessionsGood /\ VisitsGood
    BY <2>1 DEF IInit, SessionsGood, VisitsGood
  <2>3. \A h \in Handlers : visit[h].pc \notin About
    BY DEF IInit, NoVisit, About
  <2>4. QED
    BY <2>2, <2>3, InterviewBounds DEF IInit, SessionsInv, OneAtATime
<1>3. Plain /\ Uses
  BY BillingBounds DEF IInit, Init, Plain, Uses, Blank, Subscription, NoTime, Docs
<1>4. Served
  BY DEF IInit, Init, Served, Serves, IdleHandler, ServedPc, Requests
<1>5. Pending = {} /\ Passed = {}
  BY DEF IInit, Pending, Passed, NoVisit
<1>6. Counted
  <2>1. Cardinality(Pending) = 0 /\ Cardinality(Passed) = 0 /\ Cardinality(Handlers) \in Nat \ {0}
    BY <1>5, FS_EmptySet, FS_CardinalityType
  <2>2. fresh["interviews_used"] = 0 /\ made = 0 /\ lost = 0
    BY DEF IInit, Init, Unused, Fields
  <2>3. QED
    BY <2>1, <2>2, InterviewBounds DEF Counted, Oversold
<1>7. QED
  BY <1>1, <1>2, <1>3, <1>4, <1>6 DEF MeterInv

\* ... and is kept by every step.
LEMMA MeterNext ==
  ASSUME IsFiniteSet(Handlers), Handlers # {}, MeterInv, [INext]_<<vars, ivars>>
  PROVE  MeterInv'
<1>1. BillingInv'
  BY BillingKept DEF MeterInv
<1>2. CASE UNCHANGED <<vars, ivars>>
  BY <1>1, <1>2
     DEF vars, ivars, MeterInv, SessionsInv, SessionsGood, VisitsGood, OneAtATime, GoodVisit,
         Whole, SessionRecord, Scores, GivenAnswer, Plain, Served, Serves, Uses, Counted, Pending,
         Passed, At
<1>3. ASSUME NEW h \in Handlers, InterviewStep(h) \/ create_interview(h) \/ Gated(h, FALSE)
      PROVE  MeterInv'
  BY <1>1, <1>3, GateKeeps, MeterStepKeeps, RequestsKeep, RequestStepsKeep, SessionStepsKeep
     DEF InterviewStep
<1>4. QED
  BY <1>1, <1>2, <1>3, SessionStepsKeep, LostKeeps, BesideKeeps DEF INext

\* The inductive invariant holds in every reachable state.
LEMMA MeterAlways ==
  ASSUME IsFiniteSet(Handlers), Handlers # {}
  PROVE  ISpec => []MeterInv
<1>1. IInit => MeterInv
  BY MeterInit
<1>2. MeterInv /\ [INext]_<<vars, ivars>> => MeterInv'
  BY MeterNext
<1>3. QED
  BY <1>1, <1>2, PTL DEF ISpec

\* A session shows one answer to each question, and when it is completed the score of the
\* answers it shows, however many requests about it were under way.
THEOREM SessionsWholeAlways ==
  ASSUME IsFiniteSet(Handlers), Handlers # {}
  PROVE  ISpec => []SessionsWhole
<1>1. MeterInv => SessionsWhole
  <2>1. SUFFICES ASSUME MeterInv PROVE SessionsWhole
    OBVIOUS
  <2>2. \A s \in Ids : Whole(session[s])
    BY <2>1 DEF MeterInv, SessionsInv, SessionsGood
  <2>3. there \subseteq Ids
    BY <2>1, InterviewBounds DEF MeterInv, SessionsInv, Ids
  <2>4. InterviewsTypeOK
    <3>1. lost \in 0..made
      <4>1. Cardinality(Pending) \in Nat
        BY FS_Subset, FS_CardinalityType DEF Pending
      <4>2. QED
        BY <2>1, <4>1 DEF MeterInv, Counted, SessionsInv
    <3>2. \A s \in Ids : /\ session[s].status \in Statuses
                         /\ \A a \in session[s].answers : a.q \in Questions
      BY <2>2 DEF Whole, SessionRecord, GivenAnswer
    <3>3. QED
      BY <2>1, <3>1, <3>2 DEF MeterInv, SessionsInv, InterviewsTypeOK
  <2>5. QED
    BY <2>2, <2>3, <2>4 DEF SessionsWhole, OneAnswerEach, ScoreOfAnswers, Whole
<1>2. QED
  BY <1>1, MeterAlways, PTL

\* While the tenant has one subscription document, at most as many sessions as the other
\* handlers are made over the limit, but for those whose request was lost before it metered
\* them: each request that passed the gate late read a count that the others had not raised.
THEOREM InterviewsBoundedAlways ==
  ASSUME IsFiniteSet(Handlers), Handlers # {}
  PROVE  ISpec => [](born <= 1 => InterviewsBounded)
<1>1. MeterInv => (born <= 1 => InterviewsBounded)
  <2>1. SUFFICES ASSUME MeterInv, born <= 1 PROVE InterviewsBounded
    OBVIOUS
  <2>2. /\ IsFiniteSet(Passed) /\ Pending \subseteq Passed
        /\ Cardinality(Handlers) \in Nat
    BY FS_Subset, FS_CardinalityType DEF Pending, Passed
  <2>3. /\ Cardinality(Pending) \in Nat /\ Cardinality(Passed) \in Nat
        /\ Cardinality(Pending) <= Cardinality(Passed)
    BY <2>2, FS_Subset, FS_CardinalityType
  <2>4. /\ made = lost + fresh["interviews_used"] + Cardinality(Pending)
        /\ fresh["interviews_used"] + Cardinality(Passed) <= Limit + Oversold
        /\ fresh["interviews_used"] \in Nat /\ lost \in Nat
    BY <2>1 DEF MeterInv, Counted, BillingInv, BillingTypeOK, Fields
  <2>5. QED
    BY <2>2, <2>3, <2>4, InterviewBounds DEF InterviewsBounded, Oversold
<1>2. QED
  BY <1>1, MeterAlways, PTL

\* While the tenant has one subscription document, every use that was metered in the period
\* is on it.
THEOREM UsesCountedAlways ==
  ASSUME IsFiniteSet(Handlers), Handlers # {}
  PROVE  ISpec => [](born <= 1 => UsesCounted)
<1>1. MeterInv => (born <= 1 => UsesCounted)
  <2>1. SUFFICES ASSUME MeterInv, born <= 1, stored # {}
                 PROVE  \A f \in Fields : RolledForward(Shown).used[f] >= fresh[f]
    BY DEF UsesCounted
  <2>2. Latest(stored) = 1 /\ RolledForward(docs[1]) = docs[1]
    BY <2>1, FirstIsLatest DEF MeterInv
  <2>3. docs[1].used = fresh /\ fresh \in [Fields -> Nat]
    BY <2>1 DEF MeterInv, Uses, BillingInv, BillingTypeOK
  <2>4. QED
    BY <2>2, <2>3 DEF Shown
<1>2. QED
  BY <1>1, MeterAlways, PTL

\* While a session serves one request at a time, no answer is lost but to a later one of the
\* same question, and a completed session stays as it is.
THEOREM NothingLostEver ==
  ASSUME IsFiniteSet(Handlers), Handlers # {}
  PROVE  ISpec => NothingLost
<1> DEFINE Kept(s) == /\ session[s].status = "completed" => session'[s] = session[s]
                      /\ \A a \in session[s].answers :
                           \E b \in session'[s].answers : b.q = a.q /\ b.at >= a.at
<1>1. ASSUME MeterInv, [INext]_<<vars, ivars>>, regime = "alone", NEW s \in there, s \in there'
      PROVE  Kept(s)
  <2>1. s \in Ids /\ s # made + 1 /\ Whole(session[s]) /\ session \in [Ids -> SessionRecord]
        /\ visits \in Nat /\ made \in Nat
    BY <1>1, InterviewBounds DEF MeterInv, SessionsInv, SessionsGood, Ids
  <2>2. session'[s] = session[s] => Kept(s)
    <3>1. \A a \in session[s].answers : a.at >= a.at
      BY <2>1 DEF Whole, SessionRecord, GivenAnswer
    <3>2. QED
      BY <3>1
  <2>3. ASSUME NEW h \in Handlers, SaveSession(h) PROVE Kept(s)
    <3> DEFINE x == visit[h].copy
    <3>1. /\ GoodVisit(visit[h]) /\ visit[h].pc \in {"answer", "complete"} /\ visit[h].s \in Ids
      BY <1>1, <2>3 DEF MeterInv, SessionsInv, VisitsGood, SaveSession, GoodVisit
    <3>2. CASE visit[h].s # s
      BY <2>1, <2>2, <2>3, <3>1, <3>2 DEF SaveSession
    <3>3. CASE visit[h].s = s
      <4>1. x = session[s] /\ session[s].status # "completed" /\ Whole(x)
        BY <1>1, <3>1, <3>3 DEF MeterInv, SessionsInv, OneAtATime, About, GoodVisit
      <4>2. session'[s] = IF VisitAt(h, "answer") THEN Answered(x, visit[h].q, visits)
                                                  ELSE Completed(x)
        BY <2>1, <2>3, <3>3 DEF SaveSession
      <4>3. CASE VisitAt(h, "answer")
        <5>1. visit[h].q \in Questions
          BY <3>1, <4>3 DEF GoodVisit, VisitAt
        <5>2. QED
          BY <2>1, <4>1, <4>2, <4>3, <5>1, SavedGood
      <4>4. CASE ~VisitAt(h, "answer")
        <5>1. session'[s].answers = session[s].answers
          BY <2>1, <4>1, <4>2, <4>4, SavedGood
        <5>2. \A a \in session[s].answers : a.at >= a.at
          BY <2>1 DEF Whole, SessionRecord, GivenAnswer
        <5>3. QED
          BY <4>1, <5>1, <5>2
      <4>5. QED
        BY <4>3, <4>4
    <3>4. QED
      BY <3>2, <3>3
  <2>4. ASSUME NEW h \in Handlers, InsertSession(h) PROVE session'[s] = session[s]
    BY <2>1, <2>4 DEF InsertSession
  <2>5. CASE UNCHANGED session
    BY <2>2, <2>5
  <2>6. UNCHANGED session \/ \E h \in Handlers : SaveSession(h) \/ InsertSession(h)
    BY <1>1
       DEF INext, InterviewStep, GateStep, Gated, Meter, MeterStep, Metered, DeleteSession,
           create_interview, VisitDies, complete_interview, delete_interview, submit_answer,
           Visit, Beside, sessions, ivars
  <2> HIDE DEF Kept
  <2>7. QED
    BY <2>2, <2>3, <2>4, <2>5, <2>6
<1>2. MeterInv /\ [INext]_<<vars, ivars>> =>
        [regime = "alone" => \A s \in there : s \in there' => Kept(s)]_<<vars, ivars>>
  BY <1>1
<1>3. QED
  BY <1>2, MeterAlways, PTL DEF ISpec, NothingLost
=============================================================================
