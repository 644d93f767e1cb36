--------------------------- MODULE CredentialKeys ---------------------------
(***************************************************************************)
(* The rotation of CREDENTIAL_ENCRYPTION_KEY: secrets stored under a key   *)
(* (core/security.py), the processes that store and read them, the script  *)
(* that re-wraps them (scripts/rotate_credential_key.py), and an operator  *)
(* who follows its instructions.  Keys are numbered in the order they are  *)
(* minted; what is encrypted is data.                                      *)
(***************************************************************************)
EXTENDS Integers

CONSTANTS
    Sites,             \* SiteCredential documents, one per user and site
    Users,             \* accounts with a TOTP secret, encrypted under the same key
    Procs,             \* API and worker processes
    MaxKey, MaxEvents  \* bounds: keys, and steps of users, operator and faults

ASSUME KeyBounds == MaxKey \in Nat \ {0} /\ MaxEvents \in Nat
ASSUME SomeSite == Sites # {}
ASSUME SitesAreNotUsers == Sites \cap Users = {}

VARIABLES
    secret,            \* secret[x]: the stored envelope of a credential or a user
    env,               \* the configuration file: the current key and the retired ones
    conf,              \* conf[p]: the configuration a process read when it started
    script,            \* the run of the rotation script
    req,               \* req[p]: a request storing a credential
    reported,          \* a run since the last new key said that nothing remains
    events

vars == <<secret, env, conf, script, req, reported, events>>

Secrets == Sites \cup Users
LostKey == 0           \* a key dropped before: no configuration has it any more
Keys == 1..MaxKey
Configs == [primary : Keys, old : SUBSET Keys]

\* A stored secret: an envelope (v2), or a token directly under a key (v1).
Envelopes == [stored : {TRUE}, form : {"v1", "v2"}, key : Keys \cup {LostKey}]
Absent == [stored |-> FALSE, form |-> "v2", key |-> LostKey]
NoRequest == [busy |-> FALSE, site |-> CHOOSE s \in Sites : TRUE, found |-> FALSE]
FirstConfig == [primary |-> 1, old |-> {}]
NoRun == [pc |-> "idle", apply |-> FALSE, conf |-> FirstConfig,
          batch |-> [x \in Secrets |-> Absent], todo |-> {}, ok |-> TRUE]

_all_keks(c) == {c.primary} \cup c.old
encrypt_secret(c) == [stored |-> TRUE, form |-> "v2", key |-> c.primary]
needs_rewrapByForm(c, e) == e.form = "v1"   \* a mutant: no look at the key id
rewrap_secret(c, e) == [e EXCEPT !.form = "v2", !.key = c.primary]
opens(c, e) == e.key \in _all_keks(c)
needs_rewrap(c, e) == e.form = "v1" \/ e.key # c.primary

Init ==
    /\ secret \in [Secrets -> {Absent} \cup {e \in Envelopes : e.key \in {1, LostKey}}]
    /\ env = FirstConfig
    /\ conf = [p \in Procs |-> env]
    /\ script = NoRun
    /\ req = [p \in Procs |-> NoRequest]
    /\ reported = FALSE
    /\ events = 0

Event == events < MaxEvents /\ events' = events + 1

-----------------------------------------------------------------------------
(* Requests, served under the configuration of their process.               *)

\* store_site_credential: the site's document is looked up ...
StoreRead(p, s) ==
    /\ Event
    /\ ~req[p].busy
    /\ req' = [req EXCEPT ![p] = [busy |-> TRUE, site |-> s, found |-> secret[s].stored]]
    /\ UNCHANGED <<secret, env, conf, script, reported>>

\* ... and saved whole, even when it was deleted meanwhile, or inserted; an insert
\* that finds the site taken returns the other document and stores nothing.
StoreWrite(p) ==
    /\ req[p].busy
    /\ secret' = IF ~req[p].found /\ secret[req[p].site].stored THEN secret
                 ELSE [secret EXCEPT ![req[p].site] = encrypt_secret(conf[p])]
    /\ req' = [req EXCEPT ![p] = NoRequest]
    /\ UNCHANGED <<env, conf, script, reported, events>>

\* begin_setup of twofa.py.
SetUpTotp(p, u) ==
    /\ Event
    /\ secret' = [secret EXCEPT ![u] = encrypt_secret(conf[p])]
    /\ UNCHANGED <<env, conf, script, req, reported>>

\* A mutant: the row is marked gone and its ciphertext stays.
DeleteMarking(x) ==
    /\ Event
    /\ secret' = [secret EXCEPT ![x].stored = FALSE]
    /\ UNCHANGED <<env, conf, script, req, reported>>

\* delete_credential, and disable of twofa.py.
Delete(x) ==
    /\ Event
    /\ secret' = [secret EXCEPT ![x] = Absent]
    /\ UNCHANGED <<env, conf, script, req, reported>>

-----------------------------------------------------------------------------
(* The rotation script, with the configuration of the container it runs in. *)

\* find_all: the documents are fetched together and saved one by one later.
Fetch(apply) ==
    /\ Event
    /\ script.pc = "idle"
    /\ \A p \in Procs : conf[p] = env
    /\ script' = [pc |-> "run", apply |-> apply, conf |-> env, batch |-> secret,
                  todo |-> {s \in Sites : secret[s].stored}, ok |-> TRUE]
    /\ UNCHANGED <<secret, env, conf, req, reported>>

\* A mutant: a row that no key opens is skipped like a current one.
RewrapSkipping(s) ==
    LET row == script.batch[s]
        rotates == needs_rewrap(script.conf, row) /\ opens(script.conf, row)
    IN  /\ script.pc = "run"
        /\ s \in script.todo
        /\ script' = [script EXCEPT !.todo = @ \ {s}, !.ok = @ /\ (rotates => script.apply)]
        /\ secret' = IF rotates /\ script.apply
                       THEN [secret EXCEPT ![s] = rewrap_secret(script.conf, row)] ELSE secret
        /\ UNCHANGED <<env, conf, req, reported, events>>

\* rewrap_secret and save(), unless the row is current, the run is dry, or no
\* configured key opens it: those that need it and stay are what remains.
Rewrap(s) ==
    LET row == script.batch[s]
        stale == needs_rewrap(script.conf, row)
        readable == opens(script.conf, row)
    IN  /\ script.pc = "run"
        /\ s \in script.todo
        /\ script' = [script EXCEPT !.todo = @ \ {s}, !.ok = @ /\ (stale => script.apply /\ readable)]
        /\ secret' = IF stale /\ script.apply /\ readable
                       THEN [secret EXCEPT ![s] = rewrap_secret(script.conf, row)] ELSE secret
        /\ UNCHANGED <<env, conf, req, reported, events>>

\* The report: nothing stale was seen, or all of it was rotated.
Report ==
    /\ script.pc = "run"
    /\ script.todo = {}
    /\ script' = NoRun
    /\ reported' = script.ok
    /\ UNCHANGED <<secret, env, conf, req, events>>

ScriptLost ==
    /\ Event
    /\ script.pc = "run"
    /\ script' = NoRun
    /\ UNCHANGED <<secret, env, conf, req, reported>>

-----------------------------------------------------------------------------
(* The operator: a new key with the previous one kept for reading, restarts, *)
(* the script, and the retired keys dropped once it reported.                *)

NewKey ==
    /\ Event
    /\ script.pc = "idle"
    /\ env.primary < MaxKey
    /\ env' = [primary |-> env.primary + 1, old |-> env.old \cup {env.primary}]
    /\ reported' = FALSE
    /\ UNCHANGED <<secret, conf, script, req>>

\* A restart also ends what the process was doing.
Restart(p) ==
    /\ Event
    /\ conf' = [conf EXCEPT ![p] = env]
    /\ req' = [req EXCEPT ![p] = NoRequest]
    /\ UNCHANGED <<secret, env, script, reported>>

DropOldKeys ==
    /\ Event
    /\ reported
    /\ env' = [env EXCEPT !.old = {}]
    /\ UNCHANGED <<secret, conf, script, req, reported>>

Next ==
    \/ \E p \in Procs : (\E s \in Sites : StoreRead(p, s)) \/ StoreWrite(p)
                        \/ (\E u \in Users : SetUpTotp(p, u)) \/ Restart(p)
    \/ \E x \in Secrets : Delete(x)
    \/ \E apply \in BOOLEAN : Fetch(apply)
    \/ \E s \in Sites : Rewrap(s)
    \/ Report \/ ScriptLost \/ NewKey \/ DropOldKeys

Spec == Init /\ [][Next]_vars

-----------------------------------------------------------------------------
Opened(e) == e.key # LostKey => opens(env, e)

\* Every variable keeps its shape (models/profile.py, core/config.py).
KeysTypeOK ==
    /\ secret \in [Secrets -> {Absent} \cup Envelopes]
    /\ env \in Configs
    /\ conf \in [Procs -> Configs]
    /\ script \in [pc : {"idle", "run"}, apply : BOOLEAN, conf : Configs,
                   batch : [Secrets -> {Absent} \cup Envelopes], todo : SUBSET Sites, ok : BOOLEAN]
    /\ req \in [Procs -> [busy : BOOLEAN, site : Sites, found : BOOLEAN]]
    /\ reported \in BOOLEAN

\* Once the script reports nothing remaining, every credential, also one stored while
\* it ran or after, is under the current key (rotate_credential_key.py).
ReportTrue == reported => \A s \in Sites : secret[s].stored => secret[s].key = env.primary

\* Following the instructions never costs a credential: a process started on the
\* configuration file opens every one that could be opened before the first rotation.
CredentialsOpen == \A s \in Sites : secret[s].stored => Opened(secret[s])

\* "Rotation is a supported operation" (compliance.md): the same of the TOTP secrets,
\* which are encrypted like credentials (twofa.py).  It does not hold.
TotpOpens == \A u \in Users : secret[u].stored => Opened(secret[u])
=============================================================================
