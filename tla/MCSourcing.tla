----------------------------- MODULE MCSourcing -----------------------------
(* A small instance of Sourcing: six postings of three employers, one of them *)
(* in two offices and one written two ways, one an adapter cannot submit.      *)
EXTENDS Sourcing

CONSTANTS u1

Title(words, note) == [words |-> words, note |-> note]
Posting(company, suffix, words, note, country, place, ats) ==
    [company |-> [key |-> company, suffix |-> suffix], title |-> Title(words, note),
     text |-> {"sql"}, snippet |-> FALSE, remote |-> FALSE, places |-> {place},
     countries |-> {country}, ats |-> ats]

london == Posting("acme", "", {"data", "engineer"}, {}, "uk", "london", "greenhouse")
paris  == Posting("acme", "", {"data", "engineer"}, {"paris"}, "fr", "paris", "lever")
senior == Posting("acme", "", {"senior", "data", "engineer"}, {}, "uk", "london", "ashby")
inc    == Posting("acme", "inc", {"data", "lead"}, {}, "uk", "leeds", "greenhouse")
gamma  == Posting("gamma", "", {"data", "analyst"}, {}, "uk", "leeds", "lever")
leeds  == Posting("acme", "", {"data", "engineer"}, {"leeds"}, "uk", "leeds", "lever")
vague  == [Posting("beta", "", {"data", "analyst"}, {}, "uk", "london", "lever")
              EXCEPT !.text = {"excel"}]
parked == Posting("beta", "", {"data", "engineer"}, {}, "uk", "london", "workday")

MCPerson == (u1 :> [stated |-> {Title({"data", "engineer"}, {})}, latest |-> {},
                    skills |-> {{"sql"}}, excluded |-> {}, countries |-> {"uk", "fr"},
                    remote |-> FALSE, places |-> {"london"},
                    search |-> [titles |-> <<Title({"data", "engineer"}, {})>>,
                                countries |-> <<"uk", "fr">>]])
MCBoard == [web_search |-> <<london, senior, inc, leeds>>,
            remoteok |-> <<paris, gamma, vague, parked, inc>>]

MCQuerySources == <<"web_search">>
MCFeedSources == <<"remoteok">>
MCDropped == {[key |-> "acme", suffix |-> ""]}
MCSeniority == {"senior", "lead"}
MCGenericRole == {"engineer", "analyst"}
MCAcronym == <<>>
MCPhraseIn == {<<Title({"data", "engineer"}, {}), j.title>> : j \in {london, paris, leeds, senior}}
MCAutoSubmits == {"greenhouse", "lever", "ashby"}
MCRegimes == {{"source", "click", "stop"}, {"source", "click", "api_crash"},
              {"source", "late", "hook"},
              {"source", "reap"}, {"source", "list"}, {"source", "kill", "crash", "error", "insert_fail"},
              {"source", "fetch_fail", "other"}, {"source", "pause", "exclude", "broker"},
              {"source", "operator", "exclude"},
              {"source", "match"}}
=============================================================================
