------------------------ MODULE CredentialKeysProofs ------------------------
(***************************************************************************)
(* The rotation of the credential key loses no credential and reports only *)
(* what is true, for any sites, users, processes and number of keys.       *)
(***************************************************************************)
EXTENDS CredentialKeys, TLAPS

Running == script.pc = "run"

\* What a process writes can be read back from the configuration file, and nothing is
\* written under a retired key while the script runs or once it reported.
WritersCurrent ==
    /\ \A p \in Procs : conf[p].primary \in _all_keks(env)
    /\ Running \/ reported => \A p \in Procs : conf[p].primary = env.primary
    /\ Running => script.conf.primary = env.primary

\* While the script runs a credential is as fetched or already under the current key ...
Fetched == Running => \A s \in Sites :
              secret[s].stored => secret[s].key = env.primary \/ secret[s] = script.batch[s]

\* ... and under the current key if the script is past it and has missed nothing.
Passed == Running /\ script.ok => \A s \in Sites \ script.todo :
              secret[s].stored => secret[s].key = env.primary

KeysInv == KeysTypeOK /\ WritersCurrent /\ Fetched /\ Passed /\ ReportTrue /\ CredentialsOpen

USE DEF Secrets, Keys, LostKey

-----------------------------------------------------------------------------
(* Types.                                                                   *)

\* An envelope just written has the shape of an envelope.
LEMMA EncryptType ==
    ASSUME NEW c \in Configs
    PROVE  encrypt_secret(c) \in Envelopes
BY DEF encrypt_secret, Envelopes, Configs

\* An envelope moved to another key keeps its shape.
LEMMA RewrapType ==
    ASSUME NEW c \in Configs, NEW e \in {Absent} \cup Envelopes, e.key # LostKey
    PROVE  rewrap_secret(c, e) \in Envelopes
<1>1. e \in Envelopes
  BY DEF Absent
<1>2. c.primary \in Keys
  BY DEF Configs
<1>3. QED
  BY <1>1, <1>2 DEF rewrap_secret, Envelopes

\* The idle records have the shape of their variables.
LEMMA IdleTypes ==
    /\ FirstConfig \in Configs
    /\ NoRun \in [pc : {"idle", "run"}, apply : BOOLEAN, conf : Configs,
                  batch : [Secrets -> {Absent} \cup Envelopes], todo : SUBSET Sites, ok : BOOLEAN]
    /\ NoRequest \in [busy : BOOLEAN, site : Sites, found : BOOLEAN]
<1>1. FirstConfig \in Configs
  BY KeyBounds DEF FirstConfig, Configs
<1>2. (CHOOSE s \in Sites : TRUE) \in Sites
  BY SomeSite
<1>3. [x \in Secrets |-> Absent] \in [Secrets -> {Absent} \cup Envelopes]
  OBVIOUS
<1>4. QED
  BY <1>1, <1>2, <1>3 DEF NoRun, NoRequest

\* Types hold at the start.
LEMMA InitType == Init => KeysTypeOK
<1>1. {e \in Envelopes : e.key \in {1, LostKey}} \subseteq Envelopes
  OBVIOUS
<1>2. SUFFICES ASSUME Init PROVE KeysTypeOK
  OBVIOUS
<1>3. secret \in [Secrets -> {Absent} \cup Envelopes]
  BY <1>1, <1>2 DEF Init
<1>4. QED
  BY <1>2, <1>3, IdleTypes DEF Init, KeysTypeOK

\* Types are kept by every step.
LEMMA NextType == KeysTypeOK /\ [Next]_vars => KeysTypeOK'
<1> SUFFICES ASSUME KeysTypeOK, [Next]_vars PROVE KeysTypeOK'
  OBVIOUS
<1> USE DEF KeysTypeOK
<1>1. ASSUME NEW p \in Procs, NEW s \in Sites, StoreRead(p, s) PROVE KeysTypeOK'
  <2>0. secret[s] \in {Absent} \cup Envelopes
    OBVIOUS
  <2>1. secret[s].stored \in BOOLEAN
    <3>1. CASE secret[s] = Absent
      BY <3>1 DEF Absent
    <3>2. CASE secret[s] \in Envelopes
      <4>1. secret[s].stored \in {TRUE}
        BY <3>2 DEF Envelopes
      <4>2. QED
        BY <4>1
    <3>3. QED
      BY <2>0, <3>1, <3>2
  <2>2. QED
    BY <1>1, <2>1 DEF StoreRead
<1>2. ASSUME NEW p \in Procs, StoreWrite(p) PROVE KeysTypeOK'
  <2>1. encrypt_secret(conf[p]) \in Envelopes
    BY EncryptType
  <2>2. secret' \in [Secrets -> {Absent} \cup Envelopes]
    BY <1>2, <2>1 DEF StoreWrite
  <2>3. QED
    BY <1>2, <2>2, IdleTypes DEF StoreWrite
<1>3. ASSUME NEW p \in Procs, NEW u \in Users, SetUpTotp(p, u) PROVE KeysTypeOK'
  <2>1. encrypt_secret(conf[p]) \in Envelopes
    BY EncryptType
  <2>2. QED
    BY <1>3, <2>1 DEF SetUpTotp
<1>4. ASSUME NEW p \in Procs, Restart(p) PROVE KeysTypeOK'
  BY <1>4, IdleTypes DEF Restart
<1>5. ASSUME NEW x \in Secrets, Delete(x) PROVE KeysTypeOK'
  BY <1>5 DEF Delete
<1>6. ASSUME NEW apply \in BOOLEAN, Fetch(apply) PROVE KeysTypeOK'
  BY <1>6 DEF Fetch
<1>7. ASSUME NEW s \in Sites, Rewrap(s) PROVE KeysTypeOK'
  <2> DEFINE row == script.batch[s]
             moved == needs_rewrap(script.conf, row) /\ script.apply /\ opens(script.conf, row)
  <2>1. script.conf \in Configs /\ row \in {Absent} \cup Envelopes
    OBVIOUS
  <2>2. CASE moved
    <3>1. row.key # LostKey
      BY <2>1, <2>2 DEF opens, _all_keks, Configs
    <3>2. rewrap_secret(script.conf, row) \in Envelopes
      BY <2>1, <3>1, RewrapType
    <3>3. secret' = [secret EXCEPT ![s] = rewrap_secret(script.conf, row)]
      BY <1>7, <2>2 DEF Rewrap
    <3>4. script' = [script EXCEPT !.todo = @ \ {s}, !.ok = @ /\ TRUE]
      BY <1>7, <2>2 DEF Rewrap
    <3>5. secret' \in [Secrets -> {Absent} \cup Envelopes]
      BY <3>2, <3>3
    <3>6. QED
      BY <1>7, <3>4, <3>5 DEF Rewrap
  <2>3. CASE ~moved
    <3>1. secret' = secret
      BY <1>7, <2>3 DEF Rewrap
    <3>2. PICK b \in BOOLEAN : script' = [script EXCEPT !.todo = @ \ {s}, !.ok = @ /\ b]
      BY <1>7 DEF Rewrap
    <3>3. QED
      BY <1>7, <3>1, <3>2 DEF Rewrap
  <2>4. QED
    BY <2>2, <2>3
<1>8. ASSUME Report PROVE KeysTypeOK'
  BY <1>8, IdleTypes DEF Report
<1>9. ASSUME ScriptLost PROVE KeysTypeOK'
  BY <1>9, IdleTypes DEF ScriptLost
<1>10. ASSUME NewKey PROVE KeysTypeOK'
  <2>1. env.primary \in 1..MaxKey /\ env.old \subseteq 1..MaxKey
    BY DEF Configs
  <2>2. env.primary + 1 \in 1..MaxKey
    BY <1>10, <2>1, KeyBounds DEF NewKey
  <2>3. env' \in Configs
    BY <1>10, <2>1, <2>2 DEF NewKey, Configs
  <2>4. QED
    BY <1>10, <2>3 DEF NewKey
<1>11. ASSUME DropOldKeys PROVE KeysTypeOK'
  BY <1>11 DEF DropOldKeys, Configs
<1>12. CASE UNCHANGED vars
  BY <1>12 DEF vars
<1>13. QED
  BY <1>1, <1>2, <1>3, <1>4, <1>5, <1>6, <1>7, <1>8, <1>9, <1>10, <1>11, <1>12 DEF Next

-----------------------------------------------------------------------------
(* The inductive invariant.                                                 *)

\* The invariant holds at the start: no run, no report, one key.
LEMMA InitInv == Init => KeysInv
<1> SUFFICES ASSUME Init PROVE KeysInv
  OBVIOUS
<1>1. KeysTypeOK
  BY InitType
<1>2. env = FirstConfig /\ conf = [p \in Procs |-> env] /\ script.pc = "idle" /\ ~reported
  BY DEF Init, NoRun
<1>3. \A x \in Secrets : secret[x].key \in {1, LostKey}
  <2>1. TAKE x \in Secrets
  <2>2. secret[x] \in {Absent} \cup {e \in Envelopes : e.key \in {1, LostKey}}
    BY DEF Init
  <2>3. QED
    BY <2>2 DEF Absent
<1>4. CredentialsOpen
  BY <1>2, <1>3 DEF CredentialsOpen, Opened, opens, _all_keks, FirstConfig
<1>5. WritersCurrent /\ Fetched /\ Passed /\ ReportTrue
  BY <1>2 DEF WritersCurrent, Fetched, Passed, ReportTrue, Running, _all_keks
<1>6. QED
  BY <1>1, <1>4, <1>5 DEF KeysInv

\* A write of envelope e at x that is not a step of the script keeps the invariant, if x is
\* no credential or e is absent or under the key of some process.
LEMMA WriteKeeps ==
    ASSUME KeysInv, KeysTypeOK', NEW x \in Secrets, NEW e \in {Absent} \cup Envelopes,
           secret' = [secret EXCEPT ![x] = e], UNCHANGED <<env, conf, script, reported>>,
           x \in Sites => ~e.stored \/ \E p \in Procs : e.key = conf[p].primary
    PROVE  KeysInv'
<1> USE DEF KeysInv
<1>1. WritersCurrent'
  BY DEF WritersCurrent, Running, _all_keks
<1>2. ASSUME NEW s \in Sites, secret'[s].stored
      PROVE  secret'[s] = secret[s] \/ \E p \in Procs : secret'[s].key = conf[p].primary
  BY <1>2 DEF KeysTypeOK
<1>3. CredentialsOpen'
  <2> SUFFICES ASSUME NEW s \in Sites, secret'[s].stored PROVE opens(env, secret'[s]) \/ secret'[s].key = LostKey
    BY DEF CredentialsOpen, Opened, opens, _all_keks
  <2>1. CASE secret'[s] = secret[s]
    BY <2>1 DEF CredentialsOpen, Opened, opens, _all_keks
  <2>2. CASE \E p \in Procs : secret'[s].key = conf[p].primary
    BY <2>2 DEF WritersCurrent, Opened, opens, _all_keks
  <2>3. QED
    BY <1>2, <2>1, <2>2
<1>4. ASSUME Running \/ reported, NEW s \in Sites, secret'[s].stored
      PROVE  secret'[s] = secret[s] \/ secret'[s].key = env.primary
  BY <1>2, <1>4 DEF WritersCurrent
<1>5. Fetched' /\ Passed' /\ ReportTrue'
  BY <1>4 DEF Fetched, Passed, ReportTrue, Running
<1>6. QED
  BY <1>1, <1>3, <1>5

\* A step of the script over one row keeps the invariant: what it wrote, or left because it
\* was not stale, is under the current key.
LEMMA RewrapKeeps ==
    ASSUME KeysInv, KeysTypeOK', NEW s \in Sites, Rewrap(s)
    PROVE  KeysInv'
<1> USE DEF KeysInv
<1> DEFINE row == script.batch[s]
           stale == needs_rewrap(script.conf, row)
           moves == stale /\ script.apply /\ opens(script.conf, row)
<1>1. /\ Running /\ UNCHANGED <<env, conf, reported>>
      /\ script.conf.primary = env.primary
  BY DEF Rewrap, Running, WritersCurrent
<1>2. /\ Running' /\ script'.conf = script.conf /\ script'.batch = script.batch
      /\ script'.todo = script.todo \ {s}
  BY DEF Rewrap, Running, KeysTypeOK
<1>3. script'.ok => script.ok /\ (stale => moves)
  BY DEF Rewrap, KeysTypeOK
<1>4. secret' = IF moves THEN [secret EXCEPT ![s] = rewrap_secret(script.conf, row)] ELSE secret
  BY DEF Rewrap
<1>5. row \in {Absent} \cup Envelopes
  BY DEF KeysTypeOK
<1>6. rewrap_secret(script.conf, row).key = env.primary
  BY <1>1, <1>5 DEF rewrap_secret, Envelopes, Absent
<1>7. \A t \in Sites : secret'[t] = secret[t] \/ secret'[t].key = env.primary
  BY <1>4, <1>6 DEF KeysTypeOK
<1>8. moves => secret'[s].key = env.primary
  BY <1>4, <1>6 DEF KeysTypeOK
<1>9. WritersCurrent'
  BY <1>1, <1>2 DEF WritersCurrent, _all_keks
<1>10. Fetched'
  BY <1>1, <1>2, <1>7 DEF Fetched
<1>11. Passed'
  <2> SUFFICES ASSUME script'.ok, NEW t \in Sites \ script'.todo, secret'[t].stored
               PROVE  secret'[t].key = env.primary
    BY <1>1 DEF Passed
  <2>1. CASE t # s
    BY <1>1, <1>2, <1>3, <1>7, <2>1 DEF Passed
  <2>2. CASE t = s /\ stale
    BY <1>3, <1>8, <2>2
  <2>3. CASE t = s /\ ~stale
    <3>1. row.key = env.primary
      BY <1>1, <2>3 DEF needs_rewrap
    <3>2. QED
      BY <1>1, <1>4, <2>3, <3>1 DEF Fetched
  <2>4. QED
    BY <2>1, <2>2, <2>3
<1>12. ReportTrue'
  BY <1>1, <1>7 DEF ReportTrue
<1>13. CredentialsOpen'
  BY <1>1, <1>7 DEF CredentialsOpen, Opened, opens, _all_keks
<1>14. QED
  BY <1>9, <1>10, <1>11, <1>12, <1>13

\* Every step keeps the invariant.
LEMMA NextInv == KeysInv /\ [Next]_vars => KeysInv'
<1> SUFFICES ASSUME KeysInv, [Next]_vars PROVE KeysInv'
  OBVIOUS
<1> USE DEF KeysInv
<1>0. KeysTypeOK'
  BY NextType
<1>1. ASSUME NEW p \in Procs, NEW s \in Sites, StoreRead(p, s) PROVE KeysInv'
  BY <1>0, <1>1 DEF StoreRead, WritersCurrent, Fetched, Passed, ReportTrue, CredentialsOpen,
     Opened, opens, _all_keks, Running
<1>2. ASSUME NEW p \in Procs, StoreWrite(p) PROVE KeysInv'
  <2>1. CASE ~req[p].found /\ secret[req[p].site].stored
    BY <1>0, <1>2, <2>1 DEF StoreWrite, WritersCurrent, Fetched, Passed, ReportTrue,
       CredentialsOpen, Opened, opens, _all_keks, Running
  <2>2. CASE ~(~req[p].found /\ secret[req[p].site].stored)
    <3>1. secret' = [secret EXCEPT ![req[p].site] = encrypt_secret(conf[p])]
      BY <1>2, <2>2 DEF StoreWrite
    <3>2. req[p].site \in Secrets /\ conf[p] \in Configs
      BY DEF KeysTypeOK
    <3>3. encrypt_secret(conf[p]) \in Envelopes /\ encrypt_secret(conf[p]).key = conf[p].primary
      BY <3>2, EncryptType DEF encrypt_secret
    <3>4. QED
      BY <1>0, <1>2, <3>1, <3>2, <3>3, WriteKeeps DEF StoreWrite
  <2>3. QED
    BY <2>1, <2>2
<1>3. ASSUME NEW p \in Procs, NEW u \in Users, SetUpTotp(p, u) PROVE KeysInv'
  <2>1. encrypt_secret(conf[p]) \in Envelopes
    BY EncryptType DEF KeysTypeOK
  <2>2. u \notin Sites
    BY SitesAreNotUsers
  <2>3. QED
    BY <1>0, <1>3, <2>1, <2>2, WriteKeeps DEF SetUpTotp
<1>4. ASSUME NEW p \in Procs, Restart(p) PROVE KeysInv'
  <2>1. \A q \in Procs : conf'[q] = IF q = p THEN env ELSE conf[q]
    BY <1>4 DEF Restart, KeysTypeOK
  <2>2. WritersCurrent'
    BY <1>4, <2>1 DEF Restart, WritersCurrent, Running, _all_keks
  <2>3. QED
    BY <1>0, <1>4, <2>2 DEF Restart, Fetched, Passed, ReportTrue, CredentialsOpen, Opened, opens,
       _all_keks, Running
<1>5. ASSUME NEW x \in Secrets, Delete(x) PROVE KeysInv'
  <2>1. ~Absent.stored
    BY DEF Absent
  <2>2. QED
    BY <1>0, <1>5, <2>1, WriteKeeps DEF Delete
<1>6. ASSUME NEW apply \in BOOLEAN, Fetch(apply) PROVE KeysInv'
  <2>1. /\ script'.conf = env /\ script'.batch = secret /\ UNCHANGED <<secret, env, conf, reported>>
        /\ script'.todo = {s \in Sites : secret[s].stored}
        /\ \A p \in Procs : conf[p] = env
    BY <1>6 DEF Fetch
  <2>2. WritersCurrent'
    BY <2>1 DEF WritersCurrent, _all_keks
  <2>3. Fetched' /\ Passed'
    BY <2>1 DEF Fetched, Passed
  <2>4. ReportTrue' /\ CredentialsOpen'
    BY <2>1 DEF ReportTrue, CredentialsOpen, Opened, opens, _all_keks
  <2>5. QED
    BY <1>0, <2>2, <2>3, <2>4
<1>7. ASSUME NEW s \in Sites, Rewrap(s) PROVE KeysInv'
  BY <1>0, <1>7, RewrapKeeps
<1>8. ASSUME Report PROVE KeysInv'
  <2>1. /\ ~Running' /\ Running /\ script.todo = {} /\ reported' = script.ok
        /\ UNCHANGED <<secret, env, conf>>
    BY <1>8 DEF Report, NoRun, Running
  <2>2. WritersCurrent' /\ Fetched' /\ Passed'
    BY <2>1 DEF WritersCurrent, Fetched, Passed, _all_keks
  <2>3. ReportTrue'
    BY <2>1 DEF ReportTrue, Passed
  <2>4. CredentialsOpen'
    BY <2>1 DEF CredentialsOpen, Opened, opens, _all_keks
  <2>5. QED
    BY <1>0, <2>2, <2>3, <2>4
<1>9. ASSUME ScriptLost PROVE KeysInv'
  <2>1. ~Running' /\ UNCHANGED <<secret, env, conf, reported>>
    BY <1>9 DEF ScriptLost, NoRun, Running
  <2>2. QED
    BY <1>0, <2>1 DEF WritersCurrent, Fetched, Passed, ReportTrue, CredentialsOpen, Opened, opens,
       _all_keks
<1>10. ASSUME NewKey PROVE KeysInv'
  <2>1. /\ ~Running' /\ ~reported' /\ UNCHANGED <<secret, conf, script>>
    BY <1>10 DEF NewKey, Running
  <2>2. _all_keks(env) \subseteq _all_keks(env')
    BY <1>10 DEF NewKey, _all_keks
  <2>3. WritersCurrent' /\ Fetched' /\ Passed' /\ ReportTrue'
    BY <2>1, <2>2 DEF WritersCurrent, Fetched, Passed, ReportTrue
  <2>4. CredentialsOpen'
    BY <2>1, <2>2 DEF CredentialsOpen, Opened, opens
  <2>5. QED
    BY <1>0, <2>3, <2>4
<1>11. ASSUME DropOldKeys PROVE KeysInv'
  <2>1. reported /\ env'.primary = env.primary /\ UNCHANGED <<secret, conf, script, reported>>
    BY <1>11 DEF DropOldKeys, KeysTypeOK, Configs
  <2>2. WritersCurrent' /\ Fetched' /\ Passed' /\ ReportTrue'
    BY <2>1 DEF WritersCurrent, Fetched, Passed, ReportTrue, Running, _all_keks
  <2>3. CredentialsOpen'
    BY <2>1 DEF ReportTrue, CredentialsOpen, Opened, opens, _all_keks
  <2>4. QED
    BY <1>0, <2>2, <2>3
<1>12. CASE UNCHANGED vars
  BY <1>0, <1>12 DEF vars, WritersCurrent, Fetched, Passed, ReportTrue, CredentialsOpen, Opened,
     opens, _all_keks, Running
<1>13. QED
  BY <1>1, <1>2, <1>3, <1>4, <1>5, <1>6, <1>7, <1>8, <1>9, <1>10, <1>11, <1>12 DEF Next

-----------------------------------------------------------------------------
(* The theorems.                                                            *)

\* The invariant holds of every behaviour of the rotation (rotate_credential_key.py).
THEOREM KeysInvariance == Spec => []KeysInv
BY InitInv, NextInv, PTL DEF Spec

\* Every variable keeps its shape (core/security.py, models/profile.py).
THEOREM KeysTypeCorrect == Spec => []KeysTypeOK
<1>1. KeysInv => KeysTypeOK
  BY DEF KeysInv
<1>2. QED
  BY <1>1, KeysInvariance, PTL

\* What the script reports is true, and stays true until the next key: every credential is
\* under the current one (rotate_credential_key.py:65-67).
THEOREM ReportCorrect == Spec => []ReportTrue
<1>1. KeysInv => ReportTrue
  BY DEF KeysInv
<1>2. QED
  BY <1>1, KeysInvariance, PTL

\* No credential becomes unreadable, however often the key is rotated by the instructions
\* (docs/compliance.md:66).
THEOREM RotationLosesNothing == Spec => []CredentialsOpen
<1>1. KeysInv => CredentialsOpen
  BY DEF KeysInv
<1>2. QED
  BY <1>1, KeysInvariance, PTL
=============================================================================
