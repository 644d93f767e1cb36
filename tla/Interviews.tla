----------------------------- MODULE Interviews -----------------------------
(***************************************************************************)
(* The mock interviews of one tenant (api/v1/routes/interviews.py) on top  *)
(* of its billing: a session is made by a request that passes the gate,    *)
(* calls the model, inserts the session and only then meters it; answers   *)
(* and the completion save a session read before their own call of the     *)
(* model.  A request is served by a handler of Billing, whose entitlement  *)
(* check and increment it runs as its own steps.                           *)
(***************************************************************************)
EXTENDS Billing, FiniteSets

CONSTANTS
    MaxSessions, Questions,      \* bounds: sessions made, questions of each
    Limit,                       \* monthly_interviews of every plan
    Regimes,                     \* what a behaviour is about, see Starts
    MaxVisits                    \* bound: requests about a session

Starts == {"meter", "alone", "overlap"}
ASSUME InterviewBounds == /\ MaxSessions \in Nat \ {0} /\ Limit \in Nat /\ MaxVisits \in Nat
                          /\ Questions \subseteq Nat /\ Regimes \subseteq Starts

VARIABLES
    regime,        \* metering, sessions used one request at a time, or freely
    made,          \* sessions inserted so far
    session,       \* session[s]: [status, answers, score]
    there,         \* sessions in the database
    visit,         \* visit[h]: the interview request handler h serves
    lost,          \* sessions whose request was lost before it metered them
    visits         \* requests about a session so far

ivars == <<regime, made, session, there, visit, lost, visits>>
Ids == 1..MaxSessions
Statuses == {"created", "in_progress", "completed"}
NoScore == [answers |-> {}, count |-> 0]
\* An answer is its question and which attempt it was; the score of a session is
\* reduced to the answers it was computed from.
New == [status |-> "created", answers |-> {}, score |-> NoScore]
NoVisit == [pc |-> "none", allowed |-> FALSE, s |-> 1, q |-> 0, copy |-> New]

IInit ==
    /\ Init
    /\ regime \in Regimes
    /\ made = 0 /\ session = [s \in Ids |-> New] /\ there = {}
    /\ visit = [h \in Handlers |-> NoVisit]
    /\ lost = 0 /\ visits = 0

-----------------------------------------------------------------------------
VisitAt(h, pc) == visit[h].pc = pc
VisitStep(h, new) == visit' = [visit EXCEPT ![h] = new]
Free_handler(h) == VisitAt(h, "none") /\ At(h, "idle")
sessions == <<made, session, there>>

-----------------------------------------------------------------------------
(* create_interview *)

create_interview(h) ==
    /\ VisitAt(h, "none") /\ made < MaxSessions
    /\ Request(h, "check", "applications_used")
    /\ VisitStep(h, [NoVisit EXCEPT !.pc = "gate"])
    /\ UNCHANGED <<regime, sessions, lost, visits>>

\* Mutant: reaching the limit is still below it.
BelowLoose(doc) == doc.used["interviews_used"] <= Limit

\* can_interview, of the document _resolved returns.
Below(doc) == doc.used["interviews_used"] < Limit

\* What the gate answers is settled where the document is read.
Entitled(h) ==
    CASE At(h, "lookup") /\ Active # {} -> Below(RolledForward(docs[Latest(Active)]))
      [] At(h, "ensure") /\ stored # {} ->
           /\ docs[Latest(stored)].status \in ACTIVE_STATUSES
           /\ Below(RolledForward(docs[Latest(stored)]))
      [] At(h, "provision") -> Below(FreeWindow)
      [] OTHER -> visit[h].allowed

GateStep(h) ==
    /\ VisitAt(h, "gate") /\ HandlerProgress(h)
    /\ VisitStep(h, [visit[h] EXCEPT !.allowed = Entitled(h)])
    /\ UNCHANGED <<regime, sessions, lost, visits>>

\* 402, or on to the model; what it fails to produce is a 503.
Gated(h, questions) ==
    /\ VisitAt(h, "gate") /\ At(h, "idle")
    /\ VisitStep(h, IF visit[h].allowed /\ questions
                      THEN [visit[h] EXCEPT !.pc = "insert"] ELSE NoVisit)
    /\ UNCHANGED <<vars, regime, sessions, lost, visits>>

InsertSession(h) ==
    /\ VisitAt(h, "insert") /\ made < MaxSessions
    /\ made' = made + 1 /\ there' = there \cup {made + 1}
    /\ session' = [session EXCEPT ![made + 1] = New]
    /\ VisitStep(h, [visit[h] EXCEPT !.pc = "meter"])
    /\ UNCHANGED <<vars, regime, lost, visits>>

\* increment_interview_usage.
Meter(h) ==
    /\ VisitAt(h, "meter")
    /\ Request(h, "use", "interviews_used")
    /\ VisitStep(h, [visit[h] EXCEPT !.pc = "metering"])
    /\ UNCHANGED <<regime, sessions, lost, visits>>

MeterStep(h) ==
    /\ VisitAt(h, "metering") /\ HandlerProgress(h)
    /\ UNCHANGED ivars

Metered(h) ==
    /\ VisitAt(h, "metering") /\ At(h, "idle")
    /\ VisitStep(h, NoVisit)
    /\ UNCHANGED <<vars, regime, sessions, lost, visits>>

-----------------------------------------------------------------------------
(* Requests about a session *)

Alone(s) == regime = "alone" =>
    \A g \in Handlers : visit[g].pc \in {"answer", "complete", "delete"} => visit[g].s # s

Visit(h, s, pc, q) ==
    /\ regime # "meter" /\ visits < MaxVisits /\ visits' = visits + 1
    /\ Free_handler(h) /\ s \in there /\ Alone(s)
    /\ VisitStep(h, [NoVisit EXCEPT !.pc = pc, !.s = s, !.q = q, !.copy = session[s]])
    /\ UNCHANGED <<vars, regime, sessions, lost>>

submit_answer(h, s, q) == session[s].status # "completed" /\ Visit(h, s, "answer", q)
complete_interview(h, s) == session[s].status # "completed" /\ Visit(h, s, "complete", 0)
delete_interview(h, s) == Visit(h, s, "delete", 0)

\* Mutant: another attempt is stacked on the earlier ones.
AnsweredStacked(copy, q, at) ==
    [copy EXCEPT !.answers = @ \cup {[q |-> q, at |-> at]},
                 !.status = IF @ = "created" THEN "in_progress" ELSE @]

\* Mutant: the transcript is begun anew with every answer.
AnsweredAnew(copy, q, at) ==
    [copy EXCEPT !.answers = {[q |-> q, at |-> at]},
                 !.status = IF @ = "created" THEN "in_progress" ELSE @]

\* A new attempt replaces the one before.
Answered(copy, q, at) ==
    [copy EXCEPT !.answers = {a \in @ : a.q # q} \cup {[q |-> q, at |-> at]},
                 !.status = IF @ = "created" THEN "in_progress" ELSE @]

Completed(copy) ==
    [copy EXCEPT !.status = "completed",
                 !.score = [answers |-> copy.answers, count |-> Cardinality(copy.answers)]]

\* The model answered: the whole session is saved, also one that was deleted meanwhile.
SaveSession(h) ==
    /\ visit[h].pc \in {"answer", "complete"}
    /\ LET s == visit[h].s
       IN  /\ session' = [session EXCEPT ![s] =
                IF VisitAt(h, "answer") THEN Answered(visit[h].copy, visit[h].q, visits)
                                        ELSE Completed(visit[h].copy)]
           /\ there' = there \cup {s}
    /\ VisitStep(h, NoVisit)
    /\ UNCHANGED <<vars, regime, made, lost, visits>>

DeleteSession(h) ==
    /\ VisitAt(h, "delete")
    /\ there' = there \ {visit[h].s}
    /\ VisitStep(h, NoVisit)
    /\ UNCHANGED <<vars, regime, made, session, lost, visits>>

\* The scoring fails (503), or the process is lost, wherever the request is.
VisitDies(h) ==
    /\ Event("crash")
    /\ ~VisitAt(h, "none")
    /\ HandlerStep(h, IdleHandler)
    /\ VisitStep(h, NoVisit)
    /\ lost' = IF VisitAt(h, "meter") \/ (VisitAt(h, "metering") /\ ~At(h, "idle"))
                 THEN lost + 1 ELSE lost
    /\ UNCHANGED <<store, erased, stripe, emitted, wire, recorded, now, fresh,
                   regime, sessions, visits>>

-----------------------------------------------------------------------------
InterviewStep(h) ==
    \/ GateStep(h) \/ Gated(h, TRUE) \/ InsertSession(h) \/ Meter(h) \/ MeterStep(h) \/ Metered(h)
    \/ SaveSession(h) \/ DeleteSession(h)

\* The tenant's other metered requests, on the other handlers, within one period.
Beside ==
    /\ regime = "meter"
    /\ \E h \in Handlers :
          /\ VisitAt(h, "none")
          /\ \/ HandlerProgress(h)
             \/ \E kind \in Requests : Request(h, kind, "applications_used")
    /\ UNCHANGED ivars

INext ==
    \/ \E h \in Handlers :
         \/ InterviewStep(h) \/ create_interview(h) \/ Gated(h, FALSE) \/ VisitDies(h)
         \/ \E s \in Ids : \/ complete_interview(h, s) \/ delete_interview(h, s)
                           \/ \E q \in Questions : submit_answer(h, s, q)
    \/ Beside

ISpec == IInit /\ [][INext]_<<vars, ivars>>

-----------------------------------------------------------------------------
(* Properties *)

\* Every variable of the sessions keeps its shape.
InterviewsTypeOK ==
    /\ regime \in Regimes /\ made \in 0..MaxSessions /\ there \subseteq 1..made
    /\ visits \in 0..MaxVisits /\ lost \in 0..made
    /\ \A s \in Ids : /\ session[s].status \in Statuses
                      /\ \A a \in session[s].answers : a.q \in Questions

\* The metered feature is oversold by no more than the requests that passed the gate
\* together and those lost between the insert and the metering.
Oversold == Cardinality(Handlers) - 1
InterviewsBounded == made - lost <= Limit + Oversold

\* One answer to a question is shown, and a completed session shows the score of the
\* answers it shows, whatever was under way when it was completed or comes back from
\* the model after it.
OneAnswerEach == \A s \in there : \A a, b \in session[s].answers : a.q = b.q => a = b
ScoreOfAnswers ==
    \A s \in there : session[s].status = "completed" =>
        session[s].score = [answers |-> session[s].answers,
                            count |-> Cardinality(session[s].answers)]
SessionsWhole == InterviewsTypeOK /\ OneAnswerEach /\ ScoreOfAnswers

\* While a session serves one request at a time no answer is lost and a completion is final:
\* an answer only ever gives way to a later one of the same question.
NothingLost ==
    [][regime = "alone" =>
          \A s \in there : s \in there' =>
             /\ session[s].status = "completed" => session'[s] = session[s]
             /\ \A a \in session[s].answers :
                  \E b \in session'[s].answers : b.q = a.q /\ b.at >= a.at]_<<vars, ivars>>
=============================================================================
