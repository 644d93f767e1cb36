---------------------------- MODULE MCOnboarding ----------------------------
(* A small instance of Onboarding: two CVs, one of them without a skill. *)
EXTENDS Onboarding

CONSTANTS skills, first_name, a, b, Ann, Bob, sql

MCReads == [c \in {a, b} |-> [f \in {skills, first_name} |->
               CASE f = first_name -> IF c = a THEN Ann ELSE Bob
                 [] OTHER -> IF c = a THEN sql ELSE Blank]]
MCRegimes == {{"upload", "edit", "strategy"}, {"upload", "edit", "overlap"},
              {"upload", "edit", "ai_error", "scan"},
              {"upload", "early", "crash", "publish_error"}, {"upload", "edit", "stale", "build"},
              {"upload", "overlap", "build"},
              {"upload", "text_error"}, {"upload", "text_error", "parse_error", "hard_kill"},
              {"upload", "api_crash", "storage_error"}}
=============================================================================
