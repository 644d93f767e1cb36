----------------------------- MODULE Matching -----------------------------
(***************************************************************************)
(* services/matching.py: which postings of the shared pool become a user's *)
(* applications.  A posting and a profile are records of the words the     *)
(* heuristics compare; a title is its words and the words of its bracketed *)
(* qualifier, a company its normalised name split into the comparison key  *)
(* and the legal suffix, a location the countries it names.                *)
(*                                                                         *)
(* Scores are in units of 1/Unit, so that the fractions the heuristics     *)
(* form come out whole; the rounding to four digits is left out.           *)
(***************************************************************************)
EXTENDS Integers, Sequences, SequencesExt, FiniteSetsExt, TLC

CONSTANTS
    Seniority, GenericRole,      \* words that name a level, or any kind of role
    Acronym,                     \* word |-> the words it stands for
    PhraseIn,                    \* <<t, s>>: title t, normalised, is a substring of title s
    AutoSubmits,                 \* ats_type values an adapter submits end to end
    Unit,                        \* the score 1.0
    MIN_MATCH_SCORE,             \* settings, in the same unit
    MAX_MATCHES_PER_COMPANY,
    MAX_JOBS_CONSIDERED,
    ScanFloor                    \* max(limit * 3, 200): fewer targeted hits are topped up

ASSUME MatchingBounds ==
    /\ Unit \in Nat \ {0} /\ MIN_MATCH_SCORE \in 0..Unit
    /\ MAX_MATCHES_PER_COMPANY \in Nat \ {0}
    /\ MAX_JOBS_CONSIDERED \in Nat /\ ScanFloor \in Nat

-----------------------------------------------------------------------------
(* Orders and selections, in forms that lemmas can be stated about. *)

\* The domain of before in the order it gives: before[i] is what comes before i.
InOrder(before) ==
    [n \in 1..Cardinality(DOMAIN before) |->
        CHOOSE i \in DOMAIN before : Cardinality(before[i]) = n - 1]

\* The elements of s at the places of I, in their order.
Places(I) == InOrder([i \in I |-> {j \in I : j < i}])
Picked(s, I) == [n \in 1..Cardinality(I) |-> s[Places(I)[n]]]

\* The elements of s that pass.
Filtered(s, Keep(_)) == Picked(s, {i \in DOMAIN s : Keep(s[i])})

-----------------------------------------------------------------------------
SKILL_TARGET == 3
AtMost(x, bound) == IF x < bound THEN x ELSE bound
Fraction(n, d) == IF d = 0 THEN 0 ELSE (Unit * AtMost(n, d)) \div d

-----------------------------------------------------------------------------
(* Titles *)

Words(title) == title.words \cup title.note

target_titles(profile) ==
    IF profile.stated # {} THEN profile.stated ELSE profile.latest

Expand(word) == IF word \in DOMAIN Acronym THEN Acronym[word] ELSE {word}
domain_tokens(title) == UNION {Expand(w) : w \in Words(title)} \ (Seniority \cup GenericRole)

role_relevant(profile, job) ==
    LET wanted == target_titles(profile)
        domain == domain_tokens(job.title)
    IN  \/ wanted = {} \/ domain = {}
        \/ \E t \in wanted : \/ domain_tokens(t) \cap domain # {}
                             \/ Words(t) # {} /\ <<t, job.title>> \in PhraseIn

\* The $regex prefilter: the targets' words, acronyms expanded, in the posting's
\* title as it is written.
Targeted(profile, job) ==
    UNION {domain_tokens(t) : t \in target_titles(profile)} \cap Words(job.title) # {}

title_similarity(profile, job) ==
    LET b == domain_tokens(job.title)
        core(t) == LET a == domain_tokens(t)
                       least == AtMost(Cardinality(a), Cardinality(b))
                   IN  Fraction(Cardinality(a \cap b), least)
        level(t) == IF Words(t) \cap Words(job.title) \cap Seniority # {} THEN Unit ELSE 0
    IN  Max({0} \cup {(85 * core(t) + 15 * level(t)) \div 100 : t \in target_titles(profile)})

-----------------------------------------------------------------------------
(* The score *)

\* A skill is the set of its words.  A web-search snippet that mentions none of
\* them says nothing either way.
skill_overlap(profile, job) ==
    LET text == Words(job.title) \cup job.text
        hits == {s \in profile.skills : s \subseteq text}
    IN  CASE profile.skills = {} \/ text = {} -> 0
          [] OTHER -> IF hits = {} /\ job.snippet THEN Unit \div 2
                      ELSE Fraction(Cardinality(hits),
                                    AtMost(Cardinality(profile.skills), SKILL_TARGET))

location_score(profile, job) ==
    CASE profile.remote /\ job.remote -> Unit
      [] job.places = {} \/ profile.places = {} -> Unit \div 2
      [] profile.places \cap job.places # {} -> Unit
      [] OTHER -> IF job.remote THEN Unit \div 2 ELSE 0

score_job(profile, job) ==
    (5 * skill_overlap(profile, job) + 3 * title_similarity(profile, job)
       + 2 * location_score(profile, job)) \div 10

-----------------------------------------------------------------------------
(* The gates *)

company_keyWhole(company) == company      \* mutant: legal suffixes stay

company_key(company) == company.key

\* The role, whatever office it is posted for; "Acme" and "Acme Inc" are two
\* companies here and for the cap below, but one for company_key.
role_key(job) == <<job.company, job.title.words>>

location_allowed(profile, job) ==
    profile.countries = {} \/ job.countries = {} \/ profile.countries \cap job.countries # {}

can_auto_apply(job) == job.ats \in AutoSubmits

Excluded(companies, job) == company_key(job.company) \in {company_key(c) : c \in companies}

Passes(profile, job) ==
    /\ ~Excluded(profile.excluded, job)
    /\ location_allowed(profile, job)
    /\ can_auto_apply(job)
    /\ role_relevant(profile, job)

\* The two scans of the pool, newest first: targeted, then topped up.
Scanned(profile, pool) ==
    LET scan(s) == SubSeq(s, 1, AtMost(MAX_JOBS_CONSIDERED, Len(s)))
        auto == Filtered(pool, can_auto_apply)
        first == scan(Filtered(auto, LAMBDA j : Targeted(profile, j)))
        broad == SubSeq(auto, 1, AtMost(MAX_JOBS_CONSIDERED - Len(first), Len(auto)))
    IN  IF Len(first) < ScanFloor
          THEN first \o Filtered(broad, LAMBDA j : j \notin ToSet(first))
          ELSE first

FirstOfRole(jobs, i) == \A k \in 1..(i - 1) : role_key(jobs[k]) # role_key(jobs[i])

\* Mutant: the roles of the user's rows are not looked up.
CandidatesAnew(profile, have, pool) ==
    Filtered(Scanned(profile, pool), LAMBDA j : j \notin have /\ Passes(profile, j))

\* What is scanned, without the postings and the roles the user has a row of.
Candidates(profile, have, pool) ==
    LET held == {role_key(j) : j \in have \cap ToSet(pool)}
    IN  Filtered(Scanned(profile, pool),
                 LAMBDA j : j \notin have /\ Passes(profile, j) /\ role_key(j) \notin held)

\* The first posting seen of each role is scored, the others are not.
Scored(profile, left) ==
    LET kept == Picked(left, {i \in DOMAIN left : FirstOfRole(left, i)})
    IN  [i \in DOMAIN kept |-> [score |-> score_job(profile, kept[i]), job |-> kept[i]]]

\* sort(reverse=True) keeps equals in their order, then the threshold.
Ranked(scored) ==
    LET ahead(j, i) == \/ scored[j].score > scored[i].score
                       \/ scored[j].score = scored[i].score /\ j < i
        place == InOrder([i \in DOMAIN scored |-> {j \in DOMAIN scored : ahead(j, i)}])
    IN  Filtered([n \in DOMAIN place |-> scored[place[n]]], LAMBDA e : e.score >= MIN_MATCH_SCORE)

-----------------------------------------------------------------------------
(* diversify *)

Unique(ranked) ==
    Picked(ranked, {i \in DOMAIN ranked : FirstOfRole([k \in DOMAIN ranked |-> ranked[k].job], i)})

\* How many entries of its employer come before the i-th.
Before(entries, i) ==
    Cardinality({k \in 1..(i - 1) : entries[k].job.company = entries[i].job.company})

\* Mutant: one more than the cap.
pass_withOneMore(cap, unique, limit) ==
    Picked(unique, {i \in DOMAIN unique : Before(unique, i) <= cap})

\* The break comes after the append: even a limit of 0 takes one.
pass_with(cap, unique, limit) ==
    LET within == Picked(unique, {i \in DOMAIN unique : Before(unique, i) < cap})
    IN  SubSeq(within, 1, AtMost(Max({1, limit}), Len(within)))

ShortList(limit) == Max({3, limit \div 4})

diversify(ranked, limit) ==
    LET unique == Unique(ranked)
        picked == pass_with(MAX_MATCHES_PER_COMPANY, unique, limit)
    IN  IF Len(picked) < ShortList(limit)
          THEN pass_with(2 * MAX_MATCHES_PER_COMPANY, unique, limit)
          ELSE picked

\* What a selection of postings owes the ranking: one of a role, no employer above
\* the cap (or its double, when the strict pick is short), and whatever is left out
\* loses to at least as good an entry.
FairSelection(ranked, selected, limit) ==
    LET in == {e \in ToSet(ranked) : e.job \in ToSet(selected)}
        ofCompany(S, c) == {f \in S : f.job.company = c}
        rolesOf(c) == {role_key(e.job) : e \in ofCompany(ToSet(ranked), c)}
        companies == {e.job.company : e \in ToSet(ranked)}
        slots == {x \in companies \X (1..MAX_MATCHES_PER_COMPANY) : x[2] <= Cardinality(rolesOf(x[1]))}
        strict == Cardinality(slots)
        cap == IF AtMost(strict, limit) < ShortList(limit)
                 THEN 2 * MAX_MATCHES_PER_COMPANY ELSE MAX_MATCHES_PER_COMPANY
        better(e) == {f \in in : f.score >= e.score}
    IN  /\ Cardinality(in) = Len(selected) /\ Len(selected) <= Max({1, limit})
        /\ \A e, f \in in : e # f => role_key(e.job) # role_key(f.job)
        /\ \A e \in in : Cardinality(ofCompany(in, e.job.company)) <= cap
        /\ \A e \in ToSet(ranked) \ in :
             \/ \E f \in better(e) : role_key(f.job) = role_key(e.job)
             \/ Len(selected) = Max({1, limit}) /\ better(e) = in
             \/ Cardinality(ofCompany(better(e), e.job.company)) = cap
=============================================================================
