------------------------------ MODULE Sessions ------------------------------
(***************************************************************************)
(* One account: its User document, its RefreshSession rows, its mailed     *)
(* links and its backup codes (services/auth_service.py, twofa.py and      *)
(* oauth_service.py, served by routes/auth.py behind api/deps.py).         *)
(*                                                                         *)
(* A request is the list of database round trips its handler makes, in     *)
(* order, and one action is one round trip.  user.save() writes the whole  *)
(* document as the handler read it, with its own change applied.           *)
(* Passwords and one-time codes a person types are right; rate limits and  *)
(* resend cooldowns have passed.                                           *)
(***************************************************************************)
EXTENDS Integers, Sequences, FiniteSets

CONSTANTS
    Requests,          \* requests of the account served at the same time
    Totp,              \* a code of the authenticator app
    CodesPerSetup,     \* _N_BACKUP_CODES
    Happens,           \* operations and faults an instance allows
    MaxTokens, MaxLinks, MaxChanges, MaxCodes, MaxEvents    \* bounds

Script ==
    [login        |-> <<"user", "issue">>,
     token        |-> <<"user", "issue">>,
     google       |-> <<"user", "save", "issue">>,
     verify_code  |-> <<"user", "spend", "issue">>,
     refresh      |-> <<"session", "user", "issue", "retire">>,
     logout       |-> <<"user", "session", "retire">>,
     logout_all   |-> <<"user", "revoke_all">>,
     change       |-> <<"user", "save", "revoke_all", "issue">>,
     settings     |-> <<"user", "save">>,
     setup_2fa    |-> <<"user", "save">>,
     enable_2fa   |-> <<"user", "save">>,
     disable_2fa  |-> <<"user", "spend", "save">>,
     forgot       |-> <<"user", "supersede", "mail", "save">>,
     resend       |-> <<"user", "supersede", "mail", "save">>,
     reset        |-> <<"link", "user", "use_link", "save", "revoke_all", "issue">>,
     verify_email |-> <<"link", "user", "use_link", "save">>]

Ops == DOMAIN Script
Faults == {"crash", "lost_answer", "expire"}
Authenticated == {"logout", "logout_all", "change", "settings",
                  "setup_2fa", "enable_2fa", "disable_2fa"}
ByCode == {"verify_code", "disable_2fa"}
Purpose == [forgot |-> "password_reset", reset |-> "password_reset",
            resend |-> "verify_email", verify_email |-> "verify_email"]
ByLink == {"reset", "verify_email"}
NewPassword == {"change", "reset"}

\* An account is registered with its first link.
ASSUME SessionBounds ==
    {MaxTokens, MaxLinks, MaxChanges, MaxCodes, MaxEvents, CodesPerSetup} \subseteq Nat /\ MaxLinks > 0
ASSUME SessionSwitches == Happens \subseteq Ops \cup Faults

Tokens == 1..MaxTokens
Links == 1..MaxLinks
Codes == 1..MaxCodes
NoToken == 0

VARIABLES
    user,          \* the User document: version is token_version
    session,       \* session[j]: RefreshSession of the j-th jti, with the claims of its token
    born,          \* refresh tokens minted
    link,          \* link[l]: the l-th EmailVerificationToken
    mailed,        \* links made
    minted,        \* backup codes made
    client,        \* what the person's devices and inbox hold
    req,           \* req[r]: the request being served
    changes,       \* password changes and resets saved
    begun,         \* password changes and resets begun
    given,         \* given[j]: pairs a device received in exchange for token j
    reused,        \* rotated tokens that were presented again and refused
    accepted,      \* accepted[c]: times backup code c let its owner in
    events

vars == <<user, session, born, link, mailed, minted, client, req, changes, begun,
          given, reused, accepted, events>>
ghosts == <<changes, given, reused, accepted>>

NoSession == [status |-> "none", expired |-> FALSE, version |-> 0, epoch |-> 0, parent |-> NoToken]
NoLink == [purpose |-> "verify_email", status |-> "none", expired |-> FALSE]
NewUser == [version |-> 0, verified |-> FALSE, google |-> FALSE, twofa |-> "off", codes |-> {}]
Idle == [op |-> "login", todo |-> <<>>, copy |-> NewUser, token |-> NoToken, link |-> 0,
         code |-> Totp, access |-> 0, new |-> NoToken, epoch |-> 0]

\* register_user: the account and its first verification link.
Registered == user = NewUser /\ minted = 0

\* The same account later, before anybody signed in again: verified, and with two
\* factors set up when codes remain to be tried.
Verified == user = [NewUser EXCEPT !.verified = TRUE] /\ minted = 0
Enrolled ==
    /\ CodesPerSetup <= MaxCodes
    /\ minted = CodesPerSetup
    /\ user = [NewUser EXCEPT !.verified = TRUE, !.twofa = "on", !.codes = 1..CodesPerSetup]

Init ==
    /\ Registered \/ Verified \/ Enrolled
    /\ session = [j \in Tokens |-> NoSession]
    /\ born = 0
    /\ link = [l \in Links |-> IF l = 1
                 THEN [NoLink EXCEPT !.status = IF user.verified THEN "used" ELSE "unused"]
                 ELSE NoLink]
    /\ mailed = 1
    /\ client = [refresh |-> {}, access |-> {}, challenge |-> FALSE, inbox |-> {1}]
    /\ req = [r \in Requests |-> Idle]
    /\ changes = 0
    /\ begun = 0
    /\ given = [j \in Tokens |-> 0]
    /\ reused = {}
    /\ accepted = [c \in Codes |-> 0]
    /\ events = 0

-----------------------------------------------------------------------------
At(r, step) == req[r].todo # <<>> /\ Head(req[r].todo) = step
Becomes(r, new) == req' = [req EXCEPT ![r] = IF new.todo = <<>> THEN Idle ELSE new]
Proceed(r) == Becomes(r, [req[r] EXCEPT !.todo = Tail(@)])
Refuse(r) == Becomes(r, Idle)

Event(kind) ==
    /\ kind \in Happens
    /\ events < MaxEvents
    /\ events' = events + 1

\* A request arrives with what its sender holds.
Begin(r, op) ==
    /\ Event(op)
    /\ req[r].todo = <<>>
    /\ op \in NewPassword => begun < MaxChanges
    /\ op = "verify_code" => client.challenge
    /\ \E j \in IF op \in {"refresh", "logout"} THEN client.refresh ELSE {NoToken},
          l \in IF op \in ByLink THEN {k \in client.inbox : link[k].purpose = Purpose[op]} ELSE {0},
          c \in IF op \in ByCode THEN {Totp} \cup 1..minted ELSE {Totp},
          a \in IF op \in Authenticated THEN {t.version : t \in client.access} ELSE {0} :
          Becomes(r, [Idle EXCEPT !.op = op, !.todo = Script[op], !.token = j, !.link = l,
                                  !.code = c, !.access = a])
    /\ begun' = IF op \in NewPassword THEN begun + 1 ELSE begun
    /\ UNCHANGED <<user, session, born, link, mailed, minted, client, ghosts>>

\* Whether the handler goes on after it read the user: the credentials it was sent
\* against the document (get_current_user, authenticate, verify_login and the like).
Admitted(r) ==
    LET op == req[r].op IN
    /\ op \in Authenticated => req[r].access = user.version
    /\ op \in {"login", "token"} => user.verified
    /\ op = "login" => user.twofa # "on"
    /\ op = "google" => user.google \/ user.verified
    /\ op = "verify_code" => user.twofa = "on"
    /\ op \in ByCode /\ user.twofa = "on" => req[r].code \in user.codes \cup {Totp}
    /\ op = "refresh" => session[req[r].token].version = user.version
    /\ op = "enable_2fa" => user.twofa # "off"
    /\ op = "resend" => ~user.verified

\* The handler leaves its next round trip out because of what it read.
Skipped(r) ==
    \/ req[r].op = "google" /\ user.google
    \/ req[r].op \in ByCode /\ (req[r].code = Totp \/ user.twofa # "on")

\* A verified account is not saved again for its link.
AfterUser(r) ==
    CASE req[r].op = "verify_email" /\ user.verified -> <<"use_link">>
      [] Skipped(r) -> Tail(Tail(req[r].todo))
      [] OTHER -> Tail(req[r].todo)

\* A login of an account with two factors is answered with a challenge instead.
ReadUser(r) ==
    /\ At(r, "user")
    /\ IF Admitted(r)
         THEN Becomes(r, [req[r] EXCEPT !.copy = user, !.epoch = changes, !.todo = AfterUser(r)])
         ELSE Refuse(r)
    /\ client' = IF req[r].op = "login" /\ user.verified /\ user.twofa = "on"
                   THEN [client EXCEPT !.challenge = TRUE] ELSE client
    /\ UNCHANGED <<user, session, born, link, mailed, minted, begun, ghosts, events>>

\* rotate_refresh_token and revoke_session.  An expired token does not decode; one
\* that was revoked before is taken as stolen, and every session ends.
ReadSession(r) ==
    /\ At(r, "session")
    /\ LET row == session[req[r].token] IN
       CASE row.expired -> Refuse(r)
         [] ~row.expired /\ row.status = "revoked" /\ req[r].op = "refresh" ->
              Becomes(r, [req[r] EXCEPT !.todo = <<"revoke_all">>])
         [] ~row.expired /\ row.status = "revoked" /\ req[r].op = "logout" -> Refuse(r)
         [] ~row.expired /\ row.status = "live" -> Proceed(r)
    /\ UNCHANGED <<user, session, born, link, mailed, minted, client, begun, ghosts, events>>

\* _consume_token, the row ...
ReadLink(r) ==
    /\ At(r, "link")
    /\ LET row == link[req[r].link] IN
       IF row.status = "unused" /\ ~row.expired THEN Proceed(r) ELSE Refuse(r)
    /\ UNCHANGED <<user, session, born, link, mailed, minted, client, begun, ghosts, events>>

\* ... and, with the user read, its save as used.
UseLink(r) ==
    /\ At(r, "use_link")
    /\ link' = [link EXCEPT ![req[r].link].status = "used"]
    /\ Proceed(r)
    /\ UNCHANGED <<user, session, born, mailed, minted, client, begun, ghosts, events>>

\* Mutant: the code stays in the list.
SpendKeeping(r) ==
    /\ At(r, "spend")
    /\ Proceed(r)
    /\ accepted' = [accepted EXCEPT ![req[r].code] = @ + 1]
    /\ UNCHANGED <<user, session, born, link, mailed, minted, client, begun, changes, given, reused, events>>

\* verify_login: a backup code leaves the list of the copy, and the copy is saved.
Spend(r) ==
    /\ At(r, "spend")
    /\ LET left == [req[r].copy EXCEPT !.codes = @ \ {req[r].code}] IN
       /\ user' = left
       /\ Becomes(r, [req[r] EXCEPT !.copy = left, !.todo = Tail(@)])
    /\ accepted' = [accepted EXCEPT ![req[r].code] = @ + 1]
    /\ UNCHANGED <<session, born, link, mailed, minted, client, begun, changes, given, reused, events>>

\* Mutant: a new password leaves token_version as it was.
UpdatedUnbumped(r) ==
    [req[r].copy EXCEPT !.verified = @ \/ req[r].op \in ByLink, !.google = @ \/ req[r].op = "google"]

\* Mutant: turning two factors off leaves the backup codes behind.
UpdatedKeepingCodes(r) ==
    [req[r].copy EXCEPT !.codes = IF req[r].op = "enable_2fa"
                                    THEN @ \cup (minted + 1)..(minted + CodesPerSetup + 1) ELSE @]

\* What the handler changed in the document it read.
Updated(r) ==
    LET op == req[r].op  copy == req[r].copy IN
    [version  |-> IF op \in NewPassword THEN copy.version + 1 ELSE copy.version,
     verified |-> copy.verified \/ op \in ByLink,
     google   |-> copy.google \/ op = "google",
     twofa    |-> CASE op = "setup_2fa" -> IF copy.twofa = "off" THEN "pending" ELSE copy.twofa
                    [] op = "enable_2fa" -> "on"
                    [] op = "disable_2fa" -> "off"
                    [] OTHER -> copy.twofa,
     codes    |-> CASE op = "enable_2fa" -> (minted + 1)..(minted + CodesPerSetup)
                    [] op = "disable_2fa" -> {}
                    [] OTHER -> copy.codes]

\* user.save().  A reset link is mailed only now, a verification link before.
Save(r) ==
    /\ At(r, "save")
    /\ minted' = IF req[r].op = "enable_2fa" THEN minted + CodesPerSetup ELSE minted
    /\ minted' <= MaxCodes
    /\ user' = Updated(r)
    /\ changes' = IF req[r].op \in NewPassword THEN changes + 1 ELSE changes
    /\ client' = IF req[r].op = "forgot"
                   THEN [client EXCEPT !.inbox = @ \cup {req[r].link}] ELSE client
    /\ Becomes(r, [req[r] EXCEPT !.copy = Updated(r), !.todo = Tail(@),
                     !.epoch = IF req[r].op \in NewPassword THEN changes + 1 ELSE @])
    /\ UNCHANGED <<session, born, link, mailed, begun, given, reused, accepted, events>>

\* Mutant: the outstanding links are left as they are.
SupersedeNothing(r) ==
    /\ At(r, "supersede")
    /\ Proceed(r)
    /\ UNCHANGED <<user, session, born, link, mailed, minted, client, begun, ghosts, events>>

\* _issue_verification and request_password_reset: older links of the purpose ...
Supersede(r) ==
    /\ At(r, "supersede")
    /\ link' = [l \in Links |->
                  IF link[l].purpose = Purpose[req[r].op] /\ link[l].status = "unused"
                    THEN [link[l] EXCEPT !.status = "used"] ELSE link[l]]
    /\ Proceed(r)
    /\ UNCHANGED <<user, session, born, mailed, minted, client, begun, ghosts, events>>

\* ... make room for a new one.
Mail(r) ==
    /\ At(r, "mail")
    /\ mailed < MaxLinks
    /\ mailed' = mailed + 1
    /\ link' = [link EXCEPT ![mailed + 1] =
                  [NoLink EXCEPT !.purpose = Purpose[req[r].op], !.status = "unused"]]
    /\ client' = IF req[r].op = "resend"
                   THEN [client EXCEPT !.inbox = @ \cup {mailed + 1}] ELSE client
    /\ Becomes(r, [req[r] EXCEPT !.link = mailed + 1, !.todo = Tail(@)])
    /\ UNCHANGED <<user, session, born, minted, begun, ghosts, events>>

\* Mutant: only the successor of the presented token ends.
RevokeSuccessor(r) ==
    /\ At(r, "revoke_all")
    /\ session' = [j \in Tokens |-> IF session[j].status = "live" /\ session[j].parent = req[r].token
                                      THEN [session[j] EXCEPT !.status = "revoked"] ELSE session[j]]
    /\ reused' = IF req[r].op = "refresh" THEN reused \cup {req[r].token} ELSE reused
    /\ Proceed(r)
    /\ UNCHANGED <<user, born, link, mailed, minted, client, begun, changes, given, accepted, events>>

\* revoke_all_sessions: one update of every session not revoked yet.
RevokeAll(r) ==
    /\ At(r, "revoke_all")
    /\ session' = [j \in Tokens |-> IF session[j].status = "live"
                                      THEN [session[j] EXCEPT !.status = "revoked"] ELSE session[j]]
    /\ reused' = IF req[r].op = "refresh" THEN reused \cup {req[r].token} ELSE reused
    /\ Proceed(r)
    /\ UNCHANGED <<user, born, link, mailed, minted, client, begun, changes, given, accepted, events>>

\* The answer reaches the device, or is lost with the connection.
Answer(r, j, version) ==
    \/ /\ client' = [client EXCEPT !.refresh = @ \cup {j},
                                   !.access = @ \cup {[version |-> version, epoch |-> req[r].epoch]}]
       /\ given' = IF req[r].op = "refresh" THEN [given EXCEPT ![req[r].token] = @ + 1] ELSE given
       /\ UNCHANGED events
    \/ /\ Event("lost_answer")
       /\ UNCHANGED <<client, given>>

Mint(r) ==
    /\ born < MaxTokens
    /\ born' = born + 1
    /\ session' = [session EXCEPT ![born + 1] =
                     [NoSession EXCEPT !.status = "live", !.version = req[r].copy.version,
                                       !.epoch = req[r].epoch, !.parent = req[r].token]]

\* A rotation has still to retire the token it was sent; any other request is answered.
Hand(r) ==
    IF req[r].op = "refresh"
      THEN Becomes(r, [req[r] EXCEPT !.new = born + 1, !.todo = Tail(@)]) /\ UNCHANGED <<client, given, events>>
      ELSE Refuse(r) /\ Answer(r, born + 1, req[r].copy.version)

\* Mutant: the user is saved too, as for a time of last login.
IssueSavingUser(r) ==
    /\ At(r, "issue")
    /\ Mint(r)
    /\ Hand(r)
    /\ user' = req[r].copy
    /\ UNCHANGED <<link, mailed, minted, begun, changes, reused, accepted>>

\* issue_tokens: the pair is minted and its session inserted.
Issue(r) ==
    /\ At(r, "issue")
    /\ Mint(r)
    /\ Hand(r)
    /\ UNCHANGED <<user, link, mailed, minted, begun, changes, reused, accepted>>

\* Mutant: the token exchanged stays live.
RetireNothing(r) ==
    /\ At(r, "retire")
    /\ Refuse(r)
    /\ IF req[r].op = "refresh" THEN Answer(r, req[r].new, req[r].copy.version)
                                ELSE UNCHANGED <<client, given, events>>
    /\ UNCHANGED <<user, session, born, link, mailed, minted, begun, changes, reused, accepted>>

\* The presented session is saved revoked: by a logout, or after its successor was
\* inserted.
Retire(r) ==
    /\ At(r, "retire")
    /\ session' = [session EXCEPT ![req[r].token].status = "revoked"]
    /\ Refuse(r)
    /\ IF req[r].op = "refresh" THEN Answer(r, req[r].new, req[r].copy.version)
                                ELSE UNCHANGED <<client, given, events>>
    /\ UNCHANGED <<user, born, link, mailed, minted, begun, changes, reused, accepted>>

\* The API process is lost between two round trips.
LoseRequest(r) ==
    /\ Event("crash")
    /\ req[r].todo # <<>>
    /\ Refuse(r)
    /\ UNCHANGED <<user, session, born, link, mailed, minted, client, begun, ghosts>>

\* A token or a link passes its expires_at.
Expire ==
    /\ Event("expire")
    /\ \/ \E j \in 1..born : session' = [session EXCEPT ![j].expired = TRUE] /\ UNCHANGED link
       \/ \E l \in 1..mailed : link' = [link EXCEPT ![l].expired = TRUE] /\ UNCHANGED session
    /\ UNCHANGED <<user, born, mailed, minted, client, req, begun, ghosts>>

Next ==
    \/ \E r \in Requests :
         \/ \E op \in Ops : Begin(r, op)
         \/ ReadUser(r) \/ ReadSession(r) \/ ReadLink(r) \/ UseLink(r) \/ Spend(r) \/ Save(r)
         \/ Supersede(r) \/ Mail(r) \/ RevokeAll(r) \/ Issue(r) \/ Retire(r) \/ LoseRequest(r)
    \/ Expire

Spec == Init /\ [][Next]_vars

-----------------------------------------------------------------------------
\* A refresh token that would open a session if it were presented now.
Works(j) == session[j].status = "live" /\ ~session[j].expired /\ session[j].version = user.version

\* j and the tokens it was obtained from, rotation after rotation: the least set that holds
\* the parents of its members.
Descent(S) == \A j \in S : session[j].parent \in S \cup {NoToken}
Ancestry(j) == {k \in Tokens : \A S \in SUBSET Tokens : j \in S /\ Descent(S) => k \in S}

\* Every variable keeps its shape (models/user.py).
SessionsTypeOK ==
    /\ user \in [version : 0..MaxChanges, verified : BOOLEAN, google : BOOLEAN,
                 twofa : {"off", "pending", "on"}, codes : SUBSET (1..minted)]
    /\ \A j \in Tokens : /\ session[j].status \in {"none", "live", "revoked"}
                         /\ session[j].status = "none" <=> j > born
                         /\ session[j].parent \in 0..(j - 1)
                         /\ session[j].epoch <= changes
    /\ \A l \in Links : link[l].status \in {"none", "unused", "used"} /\ (link[l].status = "none" <=> l > mailed)
    /\ client.refresh \subseteq 1..born /\ client.inbox \subseteq 1..mailed
    /\ changes <= begun /\ begun <= MaxChanges

\* README.md: "Changing or resetting a password bumps token_version, invalidating
\* every token already issued": whatever works was issued by a request that read the
\* user after the last change, also when that request ran alongside it.
ChangeSignsOut ==
    /\ \A j \in Tokens : Works(j) => session[j].epoch = changes
    /\ \A a \in client.access : a.version = user.version => a.epoch = changes

\* A refresh token that stopped working, by rotation, logout, change or reset, never
\* works again.
StaysSignedOut == [][\A j \in 1..born : Works(j)' => Works(j)]_vars

\* "Refresh tokens are ... revoked on use": however often a device repeats a refresh
\* after a failure, one token is exchanged for a pair once.
RotatedOnce == \A j \in Tokens : given[j] <= 1

\* "Replaying a rotated token revokes the whole family": once a token was presented
\* again and refused, nothing obtained from it works, also what a lost rotation left.
ReuseEndsFamily == \A j \in Tokens : Works(j) => Ancestry(j) \cap reused = {}

\* auth_service.py: "Retire any outstanding verification links so only the newest
\* one works"; the same of reset links.
NewestLinkOnly ==
    \A l \in Links : link[l].status = "unused" =>
        \A k \in (l + 1)..mailed : link[k].purpose # link[l].purpose

\* models/user.py: backup codes are "single use; removed as consumed".
CodeOnce == \A c \in Codes : accepted[c] <= 1
=============================================================================
