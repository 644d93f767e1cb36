--------------------------- MODULE SessionsProofs ---------------------------
(***************************************************************************)
(* What holds of one account for any requests, links, tokens and codes.    *)
(***************************************************************************)
EXTENDS Sessions, TLAPS, FiniteSetTheorems

-----------------------------------------------------------------------------
(* Where a request may be in its handler *)

\* The user is still to be read; was read and is still to be saved; is not saved any more.
Unread ==
    {<<"user", "issue">>, <<"user", "save", "issue">>, <<"user", "spend", "issue">>,
     <<"session", "user", "issue", "retire">>, <<"user", "issue", "retire">>,
     <<"user", "session", "retire">>, <<"user", "revoke_all">>,
     <<"user", "save", "revoke_all", "issue">>, <<"user", "save">>, <<"user", "spend", "save">>,
     <<"user", "supersede", "mail", "save">>,
     <<"link", "user", "use_link", "save", "revoke_all", "issue">>,
     <<"user", "use_link", "save", "revoke_all", "issue">>,
     <<"link", "user", "use_link", "save">>, <<"user", "use_link", "save">>}
Writing ==
    {<<"save", "issue">>, <<"spend", "issue">>, <<"save", "revoke_all", "issue">>, <<"save">>,
     <<"spend", "save">>, <<"supersede", "mail", "save">>, <<"mail", "save">>,
     <<"use_link", "save", "revoke_all", "issue">>, <<"use_link", "save">>}
Written ==
    {<<>>, <<"issue">>, <<"issue", "retire">>, <<"retire">>, <<"session", "retire">>,
     <<"revoke_all">>, <<"revoke_all", "issue">>, <<"use_link">>}

Stages == Unread \cup Writing \cup Written

\* Those that will save the user; that need the link, the token, the codes they were sent.
WillWrite ==
    Writing \cup
    {<<"user", "save", "issue">>, <<"user", "spend", "issue">>, <<"user", "save", "revoke_all", "issue">>,
     <<"user", "save">>, <<"user", "spend", "save">>, <<"user", "supersede", "mail", "save">>,
     <<"link", "user", "use_link", "save", "revoke_all", "issue">>,
     <<"user", "use_link", "save", "revoke_all", "issue">>,
     <<"link", "user", "use_link", "save">>, <<"user", "use_link", "save">>}
Linking ==
    {<<"link", "user", "use_link", "save", "revoke_all", "issue">>,
     <<"user", "use_link", "save", "revoke_all", "issue">>, <<"use_link", "save", "revoke_all", "issue">>,
     <<"link", "user", "use_link", "save">>, <<"user", "use_link", "save">>, <<"use_link", "save">>,
     <<"use_link">>}
Mailing == {<<"user", "supersede", "mail", "save">>, <<"supersede", "mail", "save">>, <<"mail", "save">>}
Leaving == {<<"user", "session", "retire">>, <<"session", "retire">>}
Rotating == {<<"user", "issue", "retire">>, <<"issue", "retire">>, <<"retire">>}
Presenting == Leaving \cup Rotating \cup {<<"session", "user", "issue", "retire">>}
Proving == {<<"user", "spend", "issue">>, <<"user", "spend", "save">>}
Spending == {<<"spend", "issue">>, <<"spend", "save">>}

\* Operations that save the user, and what the place in a handler says of its operation.
Writers ==
    {"google", "verify_code", "change", "settings", "setup_2fa", "enable_2fa", "disable_2fa", "forgot",
     "resend", "reset", "verify_email"}
Placed(op, s) ==
    /\ s \in Stages
    /\ s \in WillWrite => op \in Writers
    /\ s \in Mailing => op \in {"forgot", "resend"}
    /\ op = "verify_email" /\ s \in Unread => s \in Linking
    /\ s \in Leaving => op = "logout"
    /\ s \in Proving => op \in ByCode
    /\ s \in Presenting \ Rotating => op \in {"refresh", "logout"}
    /\ op = "logout" => s \in Leaving \cup {<<"retire">>, <<>>}
    /\ op = "refresh" =>
         s \in {<<"session", "user", "issue", "retire">>, <<"revoke_all">>, <<>>} \cup Rotating

-----------------------------------------------------------------------------
(* The invariants *)

UserRecord ==
    [version : Nat, verified : BOOLEAN, google : BOOLEAN, twofa : {"off", "pending", "on"},
     codes : SUBSET Codes]
SessionRecord ==
    [status : {"none", "live", "revoked"}, expired : BOOLEAN, version : Nat, epoch : Nat,
     parent : {NoToken} \cup Tokens]
LinkRecord ==
    [purpose : {"password_reset", "verify_email"}, status : {"none", "unused", "used"},
     expired : BOOLEAN]
ClientRecord ==
    [refresh : SUBSET Tokens, access : SUBSET [version : Nat, epoch : Nat], challenge : BOOLEAN,
     inbox : SUBSET Links]
RequestRecord ==
    [op : Ops, todo : Stages, copy : UserRecord, token : {NoToken} \cup Tokens,
     link : {0} \cup Links, code : {Totp} \cup Codes, access : Nat, new : {NoToken} \cup Tokens,
     epoch : Nat]

\* A user document, or a copy of it, when n codes were minted and c passwords changed.
GoodUser(u, n, c) == u \in UserRecord /\ u.codes \subseteq 1..n /\ u.version <= c

\* A request holds what its next round trips need, of b tokens and m links.
Holding(x, b, m) ==
    /\ x.token \in 0..b
    /\ x.op = "forgot" /\ x.todo \notin Mailing \cup {<<>>} => x.link \in 1..m
    /\ x.todo \in Linking => x.link \in 1..m
    /\ x.todo \in Presenting => x.token \in 1..b
    /\ x.op = "refresh" /\ x.todo = <<"retire">> => x.new \in 1..b
    /\ x.todo \in Spending => x.code \in x.copy.codes
GoodRequest(x, b, m, n, c) ==
    /\ x \in RequestRecord /\ Placed(x.op, x.todo) /\ Holding(x, b, m)
    /\ GoodUser(x.copy, n, c) /\ x.epoch <= c

\* Changes of the password that are still to be saved: each was begun, and not counted yet.
Pending == {r \in Requests : req[r].op \in NewPassword /\ req[r].todo \in Unread \cup Writing}

UserGood == GoodUser(user, minted, changes) /\ minted \in 0..MaxCodes /\ changes \in Nat
SessionsGood ==
    /\ session \in [Tokens -> SessionRecord] /\ born \in 0..MaxTokens
    /\ \A j \in Tokens : /\ session[j].status = "none" <=> j > born
                         /\ session[j].parent < j
                         /\ session[j].epoch <= changes /\ session[j].version <= changes
LinksGood ==
    /\ link \in [Links -> LinkRecord] /\ mailed \in 1..MaxLinks
    /\ \A l \in Links : link[l].status = "none" <=> l > mailed
ClientGood ==
    client \in ClientRecord /\ client.refresh \subseteq 1..born /\ client.inbox \subseteq 1..mailed
RequestsGood ==
    DOMAIN req = Requests /\ \A r \in Requests : GoodRequest(req[r], born, mailed, minted, changes)
CountsGood ==
    /\ begun \in 0..MaxChanges /\ Cardinality(Pending) + changes <= begun
    /\ given \in [Tokens -> Nat] /\ accepted \in [Codes -> Nat]
Shape == UserGood /\ SessionsGood /\ LinksGood /\ ClientGood /\ RequestsGood /\ CountsGood

\* The saves of two requests never cross: one request is served at a time, or the only
\* save is that of one change of the password.
OneByOne == \E r \in Requests : Requests = {r}
OneChange == MaxChanges <= 1 /\ Happens \cap Writers \subseteq NewPassword

\* Then a token, an answer and a request carry the number of changes when the user was read,
\* and nothing changed since for a request that is going to save the user.
Began == \A r \in Requests : req[r].todo # <<>> => req[r].op \in Happens \/ req[r].op = "login"
CopiesTrue ==
    \A r \in Requests : /\ req[r].copy.version = req[r].epoch
                        /\ req[r].todo \in Writing => req[r].epoch = changes
ClaimsTrue ==
    /\ \A j \in Tokens : session[j].version = session[j].epoch
    /\ \A a \in client.access : a.version = a.epoch
VersionInv == user.version = changes /\ CopiesTrue /\ ClaimsTrue

\* One by one: a new link is made when the older ones of its purpose are retired; a code that
\* let its owner in has left the document; a token that was exchanged is revoked.
LinksInv ==
    /\ NewestLinkOnly
    /\ \A r \in Requests : req[r].todo = <<"mail", "save">> =>
         \A l \in Links : link[l].purpose = Purpose[req[r].op] => link[l].status # "unused"
CodesInv ==
    /\ CodeOnce
    /\ \A c \in Codes : c \in user.codes \/ c > minted => accepted[c] = 0
    /\ \A r \in Requests : req[r].todo \in Writing => req[r].copy.codes = user.codes
RotatesInv ==
    /\ RotatedOnce
    /\ \A j \in Tokens : given[j] > 0 => session[j].status = "revoked"
    /\ \A r \in Requests : req[r].op = "refresh" /\ req[r].todo \in Rotating => given[req[r].token] = 0

-----------------------------------------------------------------------------
(* One round trip further *)

\* What one round trip further leaves to do, and what the next round trip says.
Onward(s) ==
    LET t == Tail(s)
    IN  /\ t \in Stages
        /\ t \in WillWrite => s \in WillWrite
        /\ t \in Unread => s \in Unread
        /\ t \in Writing => s \in Writing \/ Head(s) = "user"
        /\ t \in Linking => s \in Linking
        /\ s \in Linking /\ t \in Unread => t \in Linking
        /\ t \in Mailing => s \in Mailing
        /\ s \in Mailing => t \in Mailing \/ Head(s) = "mail"
        /\ t = <<"mail", "save">> => Head(s) = "supersede"
        /\ t \in Presenting => s \in Presenting
        /\ t \in Leaving => s \in Leaving
        /\ s \in Leaving => t \in Leaving \cup {<<"retire">>}
        /\ s \in {<<"session", "user", "issue", "retire">>, <<"revoke_all">>} \cup Rotating =>
             t \in Rotating \cup {<<>>}
        /\ s = <<"retire">> => t = <<>>
        /\ t \in Presenting => t \in Leaving \cup Rotating
        /\ t = <<"retire">> => s \in Leaving \/ Head(s) = "issue"
        /\ t \in Rotating => s \in Rotating \/ Head(s) = "session"
        /\ t \notin Proving
        /\ t \in Spending => s \in Proving
NextTrip(s) ==
    LET t == Tail(s)
    IN  /\ Head(s) = "user" => s \in Unread /\ t # <<>> /\ t \notin Unread /\ Tail(t) \notin Spending
        /\ Head(s) = "save" => s \in Writing /\ s \notin Mailing /\ t \notin Unread \cup Writing
        /\ Head(s) = "spend" => s \in Writing /\ s \in Spending
        /\ Head(s) = "use_link" => s \in Linking
        /\ Head(s) = "link" => s \in Linking
        /\ Head(s) = "supersede" => s \in Mailing /\ s \in Writing
        /\ Head(s) = "mail" => s = <<"mail", "save">>
        /\ Head(s) = "session" => s \in Presenting /\ (s \in Leaving \/ t \in Rotating)
        /\ Head(s) = "retire" => s = <<"retire">>
        /\ Head(s) \in {"issue", "revoke_all", "retire"} => s \in Written
        /\ Head(s) = "issue" => t \in {<<>>, <<"retire">>}

LEMMA NextStage ==
  ASSUME NEW s \in Stages, s # <<>>
  PROVE  Onward(s) /\ NextTrip(s)
<1> USE DEF Onward, NextTrip, Stages, Unread, Writing, Written, WillWrite, Linking, Mailing, Leaving,
            Rotating, Presenting, Proving, Spending
<1>1. CASE s = <<"user", "issue">>
  BY <1>1
<1>2. CASE s = <<"user", "save", "issue">>
  BY <1>2
<1>3. CASE s = <<"user", "spend", "issue">>
  BY <1>3
<1>4. CASE s = <<"session", "user", "issue", "retire">>
  BY <1>4
<1>5. CASE s = <<"user", "issue", "retire">>
  BY <1>5
<1>6. CASE s = <<"user", "session", "retire">>
  BY <1>6
<1>7. CASE s = <<"user", "revoke_all">>
  BY <1>7
<1>8. CASE s = <<"user", "save", "revoke_all", "issue">>
  BY <1>8
<1>9. CASE s = <<"user", "save">>
  BY <1>9
<1>10. CASE s = <<"user", "spend", "save">>
  BY <1>10
<1>11. CASE s = <<"user", "supersede", "mail", "save">>
  BY <1>11
<1>12. CASE s = <<"link", "user", "use_link", "save", "revoke_all", "issue">>
  BY <1>12
<1>13. CASE s = <<"user", "use_link", "save", "revoke_all", "issue">>
  BY <1>13
<1>14. CASE s = <<"link", "user", "use_link", "save">>
  BY <1>14
<1>15. CASE s = <<"user", "use_link", "save">>
  BY <1>15
<1>16. CASE s = <<"save", "issue">>
  BY <1>16
<1>17. CASE s = <<"spend", "issue">>
  BY <1>17
<1>18. CASE s = <<"save", "revoke_all", "issue">>
  BY <1>18
<1>19. CASE s = <<"save">>
  BY <1>19
<1>20. CASE s = <<"spend", "save">>
  BY <1>20
<1>21. CASE s = <<"supersede", "mail", "save">>
  BY <1>21
<1>22. CASE s = <<"mail", "save">>
  BY <1>22
<1>23. CASE s = <<"use_link", "save", "revoke_all", "issue">>
  BY <1>23
<1>24. CASE s = <<"use_link", "save">>
  BY <1>24
<1>25. CASE s = <<"issue">>
  BY <1>25
<1>26. CASE s = <<"issue", "retire">>
  BY <1>26
<1>27. CASE s = <<"retire">>
  BY <1>27
<1>28. CASE s = <<"session", "retire">>
  BY <1>28
<1>29. CASE s = <<"revoke_all">>
  BY <1>29
<1>30. CASE s = <<"revoke_all", "issue">>
  BY <1>30
<1>31. CASE s = <<"use_link">>
  BY <1>31
<1>32. QED
  <2> HIDE DEF Onward, NextTrip, WillWrite, Linking, Mailing, Leaving, Rotating, Presenting,
               Proving, Spending
  <2>1. QED
    BY <1>1, <1>2, <1>3, <1>4, <1>5, <1>6, <1>7, <1>8, <1>9, <1>10, <1>11, <1>12, <1>13, <1>14,
       <1>15, <1>16, <1>17, <1>18, <1>19, <1>20, <1>21, <1>22, <1>23, <1>24, <1>25, <1>26, <1>27,
       <1>28, <1>29, <1>30, <1>31, Zenon

\* A request begins at the start of its script, with what the script is going to need.
LEMMA Scripts ==
  ASSUME NEW op \in Ops
  PROVE  /\ Placed(op, Script[op]) /\ Script[op] \in Unread /\ Script[op] \notin Spending \cup Writing
         /\ Script[op] \notin Rotating \/ op = "logout"
         /\ Script[op] # <<>>
         /\ Script[op] \in Linking => op \in ByLink
         /\ Script[op] \in Presenting => op \in {"refresh", "logout"}
         /\ op = "forgot" => Script[op] \in Mailing
<1> USE DEF Placed, Script, Stages, Unread, Writing, Written, WillWrite, Linking, Mailing, Leaving,
            Rotating, Presenting, Proving, Spending, ByLink, ByCode, Writers
<1>1. CASE op = "login"
  BY <1>1
<1>2. CASE op = "token"
  BY <1>2
<1>3. CASE op = "google"
  BY <1>3
<1>4. CASE op = "verify_code"
  BY <1>4
<1>5. CASE op = "refresh"
  BY <1>5
<1>6. CASE op = "logout"
  BY <1>6
<1>7. CASE op = "logout_all"
  BY <1>7
<1>8. CASE op = "change"
  BY <1>8
<1>9. CASE op = "settings"
  BY <1>9
<1>10. CASE op = "setup_2fa"
  BY <1>10
<1>11. CASE op = "enable_2fa"
  BY <1>11
<1>12. CASE op = "disable_2fa"
  BY <1>12
<1>13. CASE op = "forgot"
  BY <1>13
<1>14. CASE op = "resend"
  BY <1>14
<1>15. CASE op = "reset"
  BY <1>15
<1>16. CASE op = "verify_email"
  BY <1>16
<1>17. QED
  <2>1. Ops = {"login", "token", "google", "verify_code", "refresh", "logout", "logout_all", "change",
               "settings", "setup_2fa", "enable_2fa", "disable_2fa", "forgot", "resend", "reset",
               "verify_email"}
    BY DEF Ops
  <2>2. QED
    BY <1>1, <1>2, <1>3, <1>4, <1>5, <1>6, <1>7, <1>8, <1>9, <1>10, <1>11, <1>12, <1>13, <1>14,
       <1>15, <1>16, <2>1, Zenon

-----------------------------------------------------------------------------
(* A request that goes on *)

Counts(b, m, n, c) == b \in Nat /\ m \in Nat /\ n \in Nat /\ c \in Nat

\* What a request holds it still holds when more tokens, links, codes and changes were made.
LEMMA StillGood ==
  ASSUME NEW x, NEW b, NEW m, NEW n, NEW c, NEW b2, NEW m2, NEW n2, NEW c2,
         Counts(b, m, n, c), Counts(b2, m2, n2, c2), b <= b2, m <= m2, n <= n2, c <= c2,
         GoodRequest(x, b, m, n, c)
  PROVE  GoodRequest(x, b2, m2, n2, c2)
<1>1. /\ x \in RequestRecord /\ Placed(x.op, x.todo) /\ Holding(x, b, m) /\ GoodUser(x.copy, n, c)
      /\ x.epoch <= c
  BY DEF GoodRequest
<1>2. x.epoch \in Nat /\ x.copy \in UserRecord
  BY <1>1 DEF RequestRecord
<1>3. GoodUser(x.copy, n2, c2) /\ x.epoch <= c2
  <2>1. x.copy.version \in Nat
    BY <1>2 DEF UserRecord
  <2>2. QED
    BY <1>1, <1>2, <2>1 DEF Counts, GoodUser
<1>4. Holding(x, b2, m2)
  <2>1. 0..b \subseteq 0..b2 /\ 1..b \subseteq 1..b2 /\ 1..m \subseteq 1..m2
    BY DEF Counts
  <2>2. QED
    BY <1>1, <2>1, Zenon DEF Holding
<1>5. QED
  BY <1>1, <1>3, <1>4 DEF GoodRequest

LEMMA IdleGood ==
  ASSUME NEW b, NEW m, NEW n, NEW c, Counts(b, m, n, c)
  PROVE  GoodRequest(Idle, b, m, n, c)
<1>1. /\ <<>> \in Stages
      /\ <<>> \notin Unread \cup Writing \cup WillWrite \cup Linking \cup Presenting \cup Spending
      /\ <<>> \notin Mailing \cup Leaving \cup Proving /\ <<>> # <<"retire">>
  BY DEF Stages, Unread, Writing, Written, WillWrite, Linking, Mailing, Presenting, Leaving,
     Rotating, Proving, Spending
<1>2. NewUser \in UserRecord /\ GoodUser(NewUser, n, c)
  BY DEF NewUser, UserRecord, GoodUser, Counts
<1>3. Idle \in RequestRecord
  BY <1>1, <1>2 DEF Idle, RequestRecord, Ops, Script, NoToken
<1>4. Idle.op = "login" /\ Idle.todo = <<>> /\ Idle.copy = NewUser /\ Idle.token = 0 /\ Idle.epoch = 0
  BY DEF Idle, NoToken
<1>5. Placed(Idle.op, Idle.todo)
  BY <1>1, <1>4 DEF Placed
<1>6. Holding(Idle, b, m)
  BY <1>1, <1>4 DEF Holding, Counts
<1>7. QED
  BY <1>2, <1>3, <1>4, <1>5, <1>6 DEF GoodRequest, Counts

\* Only one request changes, and it is idle when it has nothing left to do.
LEMMA OneMoves ==
  ASSUME NEW r \in Requests, NEW new, Becomes(r, new), DOMAIN req = Requests
  PROVE  /\ DOMAIN req' = Requests
         /\ req'[r] = IF new.todo = <<>> THEN Idle ELSE new
         /\ \A q \in Requests \ {r} : req'[q] = req[q]
BY DEF Becomes

LEMMA StillGoing ==
  ASSUME NEW r \in Requests, NEW new, Becomes(r, new), DOMAIN req = Requests, req'[r].todo # <<>>
  PROVE  req'[r] = new /\ new.todo # <<>>
BY OneMoves DEF Idle

Grown == born <= born' /\ mailed <= mailed' /\ minted <= minted' /\ changes <= changes'

LEMMA GoesOn ==
  ASSUME NEW r \in Requests, NEW new, Becomes(r, new), RequestsGood, Grown,
         Counts(born, mailed, minted, changes), Counts(born', mailed', minted', changes'),
         new.todo # <<>> => GoodRequest(new, born', mailed', minted', changes')
  PROVE  RequestsGood'
<1>1. DOMAIN req = Requests /\ \A q \in Requests : GoodRequest(req[q], born, mailed, minted, changes)
  BY DEF RequestsGood
<1>2. DOMAIN req' = Requests /\ req'[r] = (IF new.todo = <<>> THEN Idle ELSE new)
      /\ \A q \in Requests \ {r} : req'[q] = req[q]
  BY <1>1, OneMoves
<1>3. SUFFICES ASSUME NEW q \in Requests
               PROVE  GoodRequest(req'[q], born', mailed', minted', changes')
  BY <1>2 DEF RequestsGood
<1>4. CASE q = r
  BY <1>2, <1>4, IdleGood
<1>5. CASE q # r
  <2>1. req'[q] = req[q] /\ GoodRequest(req[q], born, mailed, minted, changes)
    BY <1>1, <1>2, <1>5
  <2>2. GoodRequest(req[q], born', mailed', minted', changes')
    BY <2>1, StillGood DEF Grown
  <2>3. QED
    BY <2>1, <2>2
<1>6. QED
  BY <1>4, <1>5

\* The changes that are still to be saved are as many as before, but for r.
LEMMA Waiting ==
  ASSUME IsFiniteSet(Requests)
  PROVE  IsFiniteSet(Pending) /\ Cardinality(Pending) \in Nat
<1>1. Pending \subseteq Requests
  BY DEF Pending
<1>2. QED
  BY <1>1, FS_Subset, FS_CardinalityType

LEMMA WaitsOn ==
  ASSUME IsFiniteSet(Requests), DOMAIN req = Requests, NEW r \in Requests, NEW new, Becomes(r, new)
  PROVE  /\ Cardinality(Pending') \in Nat /\ Cardinality(Pending) \in Nat
         /\ Cardinality(Pending') <= Cardinality(Pending) + 1
         /\ (new.op \in NewPassword /\ new.todo \in Unread \cup Writing => r \in Pending)
               => Cardinality(Pending') <= Cardinality(Pending)
         /\ r \in Pending /\ new.todo \notin Unread \cup Writing
               => Cardinality(Pending') + 1 <= Cardinality(Pending)
<1>1. <<>> \notin Unread \cup Writing /\ Idle.todo = <<>>
  BY DEF Unread, Writing, Idle
<1>2. req'[r] = (IF new.todo = <<>> THEN Idle ELSE new) /\ \A q \in Requests \ {r} : req'[q] = req[q]
  BY OneMoves
<1>3. IsFiniteSet(Pending) /\ Cardinality(Pending) \in Nat
  BY Waiting
<1>4. Pending' \subseteq Pending \cup {r}
  BY <1>2 DEF Pending
<1>5. IsFiniteSet(Pending \cup {r}) /\ Cardinality(Pending \cup {r}) <= Cardinality(Pending) + 1
  <2> DEFINE S == Pending
  <2>1. IsFiniteSet(S) /\ Cardinality(S) \in Nat
    BY <1>3
  <2> HIDE DEF S
  <2>2. /\ IsFiniteSet(S \cup {r})
        /\ Cardinality(S \cup {r}) = IF r \in S THEN Cardinality(S) ELSE Cardinality(S) + 1
    BY <2>1, FS_AddElement
  <2>3. IsFiniteSet(S \cup {r}) /\ Cardinality(S \cup {r}) <= Cardinality(S) + 1
    BY <2>1, <2>2
  <2>4. QED
    BY <2>3 DEF S
<1>6. Cardinality(Pending') <= Cardinality(Pending \cup {r})
  BY <1>4, <1>5, FS_Subset
<1>7. Cardinality(Pending \cup {r}) \in Nat /\ Cardinality(Pending') \in Nat /\ IsFiniteSet(Pending')
  BY <1>4, <1>5, FS_Subset, FS_CardinalityType
<1>8. ASSUME new.op \in NewPassword /\ new.todo \in Unread \cup Writing => r \in Pending
      PROVE  Cardinality(Pending') <= Cardinality(Pending)
  <2>1. r \in Pending' => r \in Pending
    BY <1>1, <1>2, <1>8 DEF Pending
  <2>2. Pending' \subseteq Pending
    BY <1>4, <2>1
  <2>3. QED
    BY <2>2, <1>3, FS_Subset
<1>9. ASSUME r \in Pending, new.todo \notin Unread \cup Writing
      PROVE  Cardinality(Pending') + 1 <= Cardinality(Pending)
  <2>1. r \notin Pending'
    BY <1>1, <1>2, <1>9 DEF Pending
  <2>2. Pending' \subseteq Pending \ {r}
    BY <1>4, <2>1
  <2>3. IsFiniteSet(Pending \ {r}) /\ Cardinality(Pending \ {r}) = Cardinality(Pending) - 1
    BY <1>3, <1>9, FS_RemoveElement
  <2>4. Cardinality(Pending') <= Cardinality(Pending \ {r})
    BY <2>2, <2>3, FS_Subset
  <2>5. QED
    BY <1>3, <1>7, <2>3, <2>4
<1>10. QED
  <2>1. Cardinality(Pending') <= Cardinality(Pending) + 1
    BY <1>3, <1>5, <1>6, <1>7
  <2>2. QED
    BY <1>3, <1>7, <1>8, <1>9, <2>1

\* A request one round trip further is still in place, with what it holds.
LEMMA StaysGood ==
  ASSUME NEW b, NEW m, NEW n, NEW c, NEW x, NEW y, GoodRequest(x, b, m, n, c), x.todo # <<>>,
         y \in RequestRecord, y.op = x.op, y.token = x.token, y.todo = Tail(x.todo),
         y.link = x.link \/ y.link \in 1..m, Head(x.todo) = "mail" => y.link \in 1..m,
         y.new = x.new \/ y.new \in 1..b, x.op = "refresh" /\ Head(x.todo) = "issue" => y.new \in 1..b,
         y.todo \in Spending => y.code \in y.copy.codes,
         GoodUser(y.copy, n, c), y.epoch <= c
  PROVE  GoodRequest(y, b, m, n, c)
<1>1. x.todo \in Stages /\ Placed(x.op, x.todo) /\ Holding(x, b, m)
  BY DEF GoodRequest, Placed
<1>2. Onward(x.todo) /\ NextTrip(x.todo)
  BY <1>1, NextStage
<1>3. Placed(y.op, y.todo)
  BY <1>1, <1>2 DEF Placed, Onward
<1>4. Holding(y, b, m)
  <2>1. y.token \in 0..b
    BY <1>1 DEF Holding
  <2>2. y.op = "forgot" /\ y.todo \notin Mailing \cup {<<>>} => y.link \in 1..m
    BY <1>1, <1>2 DEF Holding, Onward
  <2>3. y.todo \in Linking => y.link \in 1..m
    BY <1>1, <1>2 DEF Holding, Onward
  <2>4. y.todo \in Presenting => y.token \in 1..b
    BY <1>1, <1>2 DEF Holding, Onward
  <2>5. y.op = "refresh" /\ y.todo = <<"retire">> => y.new \in 1..b
    BY <1>1, <1>2 DEF Holding, Onward, Placed
  <2>6. QED
    BY <2>1, <2>2, <2>3, <2>4, <2>5 DEF Holding
<1>5. QED
  BY <1>3, <1>4 DEF GoodRequest

LEMMA Within ==
  ASSUME Shape, NEW r \in Requests
  PROVE  /\ Counts(born, mailed, minted, changes)
         /\ DOMAIN req = Requests /\ GoodRequest(req[r], born, mailed, minted, changes)
         /\ req[r] \in RequestRecord /\ req[r].todo \in Stages /\ req[r].copy \in UserRecord
         /\ req[r].op \in Ops /\ req[r].epoch \in Nat
BY DEF Shape, UserGood, SessionsGood, LinksGood, RequestsGood, GoodRequest, Counts, RequestRecord

\* What a step that saves no password leaves to do adds no change to those pending.
LEMMA AsManyPending ==
  ASSUME IsFiniteSet(Requests), Shape, NEW r \in Requests, req[r].todo # <<>>, NEW new, Becomes(r, new),
         new.op = req[r].op, new.todo \in Unread \cup Writing => new.todo = Tail(req[r].todo)
  PROVE  Cardinality(Pending') \in Nat /\ Cardinality(Pending') <= Cardinality(Pending)
<1>1. Onward(req[r].todo) /\ NextTrip(req[r].todo)
  BY Within, NextStage
<1>2. new.todo \in Unread \cup Writing => req[r].todo \in Unread \cup Writing
  BY <1>1 DEF Onward, NextTrip
<1>3. new.op \in NewPassword /\ new.todo \in Unread \cup Writing => r \in Pending
  BY <1>2 DEF Pending
<1>4. QED
  BY <1>3, WaitsOn, Within

LEMMA Refusing ==
  ASSUME IsFiniteSet(Requests), Shape, Grown, Counts(born', mailed', minted', changes'),
         NEW r \in Requests, Refuse(r)
  PROVE  /\ RequestsGood'
         /\ Cardinality(Pending') \in Nat /\ Cardinality(Pending') <= Cardinality(Pending)
<1>1. Idle.todo = <<>> /\ <<>> \notin Unread \cup Writing
  BY DEF Idle, Unread, Writing
<1>2. Becomes(r, Idle)
  BY DEF Refuse
<1>3. RequestsGood'
  BY <1>1, <1>2, GoesOn, Within DEF Shape
<1>4. QED
  BY <1>1, <1>2, <1>3, WaitsOn, Within

LEMMA Moving ==
  ASSUME IsFiniteSet(Requests), Shape, Grown, Counts(born', mailed', minted', changes'),
         NEW r \in Requests, req[r].todo # <<>>, NEW y, Becomes(r, y),
         y \in RequestRecord, y.op = req[r].op, y.token = req[r].token, y.todo = Tail(req[r].todo),
         y.link = req[r].link \/ y.link \in 1..mailed',
         Head(req[r].todo) = "mail" => y.link \in 1..mailed',
         y.new = req[r].new \/ y.new \in 1..born',
         req[r].op = "refresh" /\ Head(req[r].todo) = "issue" => y.new \in 1..born',
         y.todo \in Spending => y.code \in y.copy.codes,
         GoodUser(y.copy, minted', changes'), y.epoch <= changes'
  PROVE  /\ RequestsGood'
         /\ Cardinality(Pending') \in Nat /\ Cardinality(Pending') <= Cardinality(Pending)
<1>1. GoodRequest(req[r], born', mailed', minted', changes')
  BY Within, StillGood DEF Grown
<1>2. GoodRequest(y, born', mailed', minted', changes')
  BY <1>1, StaysGood
<1>3. RequestsGood'
  BY <1>2, GoesOn, Within DEF Shape
<1>4. QED
  BY <1>3, AsManyPending

LEMMA Proceeding ==
  ASSUME IsFiniteSet(Requests), Shape, Grown, Counts(born', mailed', minted', changes'),
         NEW r \in Requests, req[r].todo # <<>>,
         Head(req[r].todo) \notin {"user", "mail", "issue"}, Proceed(r)
  PROVE  /\ RequestsGood'
         /\ Cardinality(Pending') \in Nat /\ Cardinality(Pending') <= Cardinality(Pending)
<1>1. PICK y : y = [req[r] EXCEPT !.todo = Tail(@)]
  OBVIOUS
<1>2. Onward(req[r].todo) /\ NextTrip(req[r].todo)
  BY Within, NextStage
<1>3. y \in RequestRecord
  BY <1>1, <1>2, Within DEF RequestRecord, Onward
<1>4. /\ y.op = req[r].op /\ y.token = req[r].token /\ y.todo = Tail(req[r].todo)
      /\ y.link = req[r].link /\ y.new = req[r].new /\ y.copy = req[r].copy /\ y.epoch = req[r].epoch
  BY <1>1, Within DEF RequestRecord
<1>5. Becomes(r, y)
  BY <1>1 DEF Proceed
<1>6. y.todo \notin Spending
  BY <1>2, <1>4 DEF Onward, Proving, NextTrip
<1>7. GoodRequest(req[r], born', mailed', minted', changes')
  BY Within, StillGood DEF Grown
<1>8. GoodUser(y.copy, minted', changes') /\ y.epoch <= changes'
  BY <1>4, <1>7 DEF GoodRequest
<1>9. QED
  BY <1>3, <1>4, <1>5, <1>6, <1>8, Moving

-----------------------------------------------------------------------------
(* Every step keeps the shape *)

LEMMA BeginShape ==
  ASSUME IsFiniteSet(Requests), Shape, NEW r \in Requests, NEW op \in Ops, Begin(r, op)
  PROVE  Shape'
<1>1. /\ UNCHANGED <<user, session, born, link, mailed, minted, client, ghosts>>
      /\ begun' = IF op \in NewPassword THEN begun + 1 ELSE begun
      /\ op \in NewPassword => begun < MaxChanges
  BY DEF Begin
<1>2. UserGood' /\ SessionsGood' /\ LinksGood' /\ ClientGood'
  BY <1>1 DEF Shape, UserGood, SessionsGood, LinksGood, ClientGood, GoodUser, ghosts
<1>3. PICK j \in IF op \in {"refresh", "logout"} THEN client.refresh ELSE {NoToken},
           l \in IF op \in ByLink THEN {k \in client.inbox : link[k].purpose = Purpose[op]} ELSE {0},
           c \in IF op \in ByCode THEN {Totp} \cup 1..minted ELSE {Totp},
           a \in IF op \in Authenticated THEN {t.version : t \in client.access} ELSE {0} :
        Becomes(r, [Idle EXCEPT !.op = op, !.todo = Script[op], !.token = j, !.link = l,
                                !.code = c, !.access = a])
  BY DEF Begin
<1>4. /\ j \in 0..born /\ (op \in {"refresh", "logout"} => j \in 1..born)
      /\ op \in ByLink => l \in 1..mailed
  BY <1>3 DEF Shape, ClientGood, SessionsGood, NoToken
<1>5. j \in {NoToken} \cup Tokens /\ l \in {0} \cup Links /\ c \in {Totp} \cup Codes /\ a \in Nat
  <2>1. 1..born \subseteq Tokens /\ 1..mailed \subseteq Links /\ 1..minted \subseteq Codes
    BY SessionBounds DEF Shape, SessionsGood, LinksGood, UserGood, Tokens, Links, Codes
  <2>2. j \in {NoToken} \cup Tokens /\ c \in {Totp} \cup Codes
    BY <1>3, <2>1 DEF Shape, ClientGood
  <2>3. l \in {0} \cup Links
    BY <1>3, <2>1 DEF Shape, ClientGood
  <2>4. a \in Nat
    BY <1>3 DEF Shape, ClientGood, ClientRecord
  <2>5. QED
    BY <2>2, <2>3, <2>4
<1>6. PICK x : x = [Idle EXCEPT !.op = op, !.todo = Script[op], !.token = j, !.link = l,
                                !.code = c, !.access = a]
  OBVIOUS
<1>7. Counts(born, mailed, minted, changes) /\ GoodRequest(Idle, born, mailed, minted, changes)
  BY Within, IdleGood
<1>8. /\ x.op = op /\ x.todo = Script[op] /\ x.token = j /\ x.link = l /\ x.code = c
      /\ x.copy = Idle.copy /\ x.epoch = Idle.epoch
  BY <1>6 DEF Idle
<1>9. x \in RequestRecord
  <2>1. Script[op] \in Stages /\ Idle \in RequestRecord
    BY <1>7, Scripts DEF Placed, GoodRequest
  <2>2. QED
    BY <1>5, <1>6, <2>1 DEF RequestRecord
<1>10. Holding(x, born, mailed)
  <2>1. x.todo = <<"retire">> => x.todo \in Rotating
    BY DEF Rotating
  <2>2. QED
    BY <1>4, <1>8, <2>1, Scripts DEF Holding
<1>11. GoodRequest(x, born, mailed, minted, changes)
  BY <1>7, <1>8, <1>9, <1>10, Scripts DEF GoodRequest
<1>12. Becomes(r, x) /\ Grown /\ Counts(born', mailed', minted', changes')
  BY <1>1, <1>3, <1>6, <1>7 DEF Grown, Counts, ghosts
<1>13. RequestsGood'
  BY <1>1, <1>7, <1>11, <1>12, GoesOn DEF Shape, ghosts
<1>14. CountsGood'
  <2>1. op \notin NewPassword => Cardinality(Pending') <= Cardinality(Pending)
    BY <1>8, <1>12, Within, WaitsOn
  <2>2. /\ Cardinality(Pending') <= Cardinality(Pending) + 1 /\ Cardinality(Pending') \in Nat
        /\ Cardinality(Pending) \in Nat
    BY <1>12, Within, WaitsOn
  <2>3. begun \in Nat /\ MaxChanges \in Nat /\ changes \in Nat
    BY SessionBounds DEF Shape, CountsGood, UserGood
  <2>4. QED
    BY <1>1, <2>1, <2>2, <2>3 DEF Shape, CountsGood, ghosts
<1>15. QED
  BY <1>2, <1>13, <1>14 DEF Shape

\* The request as it goes on from the user.
LEMMA AfterUserGood ==
  ASSUME Shape, NEW r \in Requests, At(r, "user"), Admitted(r),
         NEW y, y = [req[r] EXCEPT !.copy = user, !.epoch = changes, !.todo = AfterUser(r)]
  PROVE  /\ GoodRequest(y, born, mailed, minted, changes) /\ y.op = req[r].op
         /\ y.todo \in Unread \cup Writing => req[r].todo \in Unread \cup Writing
<1> DEFINE s == req[r].todo
<1>1. /\ Counts(born, mailed, minted, changes) /\ GoodRequest(req[r], born, mailed, minted, changes)
      /\ req[r] \in RequestRecord /\ s \in Stages /\ s # <<>> /\ Head(s) = "user"
  BY Within DEF At
<1>2. Placed(req[r].op, s) /\ Holding(req[r], born, mailed)
  BY <1>1 DEF GoodRequest
<1>3. Onward(s) /\ NextTrip(s)
  BY <1>1, NextStage
<1>4. Tail(s) \in Stages /\ Tail(s) # <<>> /\ s \in Unread
  BY <1>1, <1>3 DEF Onward, NextTrip
<1>5. Onward(Tail(s)) /\ NextTrip(Tail(s))
  BY <1>4, NextStage
<1>6. GoodUser(user, minted, changes) /\ changes \in Nat
  BY DEF Shape, UserGood
<1>7. AfterUser(r) \in Stages
  BY <1>4, <1>5 DEF AfterUser, Onward, Stages, Written
<1>8. y \in RequestRecord
  BY <1>1, <1>6, <1>7 DEF RequestRecord, GoodUser
<1>9. /\ y.op = req[r].op /\ y.token = req[r].token /\ y.todo = AfterUser(r) /\ y.link = req[r].link
      /\ y.new = req[r].new /\ y.copy = user /\ y.epoch = changes /\ y.code = req[r].code
  BY <1>1 DEF RequestRecord
<1>10. CASE req[r].op = "verify_email" /\ user.verified
  <2>1. y.todo = <<"use_link">>
    BY <1>9, <1>10 DEF AfterUser, Skipped, ByCode
  <2>2. s \in Linking
    BY <1>2, <1>4, <1>10 DEF Placed
  <2>3. /\ <<"use_link">> \in Stages
        /\ <<"use_link">> \notin WillWrite \cup Mailing \cup Unread \cup Leaving \cup Proving
        /\ <<"use_link">> \notin Presenting \cup Spending /\ <<"use_link">> # <<"retire">>
    BY DEF Stages, Unread, Writing, Written, WillWrite, Linking, Mailing, Leaving, Rotating,
       Presenting, Proving, Spending
  <2>4. Placed(y.op, y.todo)
    BY <1>9, <1>10, <2>1, <2>3 DEF Placed
  <2>5. Holding(y, born, mailed)
    BY <1>2, <1>9, <1>10, <2>1, <2>2, <2>3 DEF Holding
  <2>6. QED
    BY <1>4, <1>6, <1>8, <1>9, <2>4, <2>5 DEF GoodRequest
<1>11. CASE ~(req[r].op = "verify_email" /\ user.verified) /\ Skipped(r)
  <2>1. y.todo = Tail(Tail(s))
    BY <1>9, <1>11 DEF AfterUser
  <2>2. req[r].op \notin {"forgot", "refresh", "logout"}
    BY <1>11 DEF Skipped, ByCode
  <2>3. Placed(y.op, y.todo)
    BY <1>2, <1>3, <1>4, <1>5, <1>7, <1>9, <2>1, <2>2 DEF Placed, Onward, NextTrip
  <2>4. Holding(y, born, mailed)
    <3>1. y.todo \notin Spending
      BY <1>1, <1>3, <2>1 DEF NextTrip
    <3>2. y.todo \in Linking => s \in Linking
      BY <1>3, <1>5, <2>1 DEF Onward
    <3>3. y.todo \in Presenting => s \in Presenting
      BY <1>3, <1>5, <2>1 DEF Onward
    <3>4. QED
      BY <1>2, <1>9, <2>2, <3>1, <3>2, <3>3 DEF Holding
  <2>5. QED
    BY <1>4, <1>6, <1>8, <1>9, <2>3, <2>4 DEF GoodRequest
<1>12. CASE ~(req[r].op = "verify_email" /\ user.verified) /\ ~Skipped(r)
  <2>1. y.todo = Tail(s)
    BY <1>9, <1>12 DEF AfterUser
  <2>2. y.todo \in Spending => y.code \in y.copy.codes
    <3>1. SUFFICES ASSUME y.todo \in Spending
                   PROVE  y.code \in y.copy.codes
      OBVIOUS
    <3>2. req[r].op \in ByCode
      BY <1>2, <1>3, <2>1, <3>1 DEF Onward, Placed
    <3>3. req[r].code # Totp /\ user.twofa = "on"
      BY <1>12, <3>2 DEF Skipped
    <3>4. req[r].code \in user.codes \cup {Totp}
      BY <3>2, <3>3 DEF Admitted
    <3>5. QED
      BY <1>9, <3>3, <3>4
  <2>3. Head(s) # "mail" /\ Head(s) # "issue" /\ GoodUser(y.copy, minted, changes) /\ y.epoch <= changes
    BY <1>1, <1>6, <1>9
  <2>4. GoodRequest(y, born, mailed, minted, changes)
    BY <1>1, <1>8, <1>9, <2>1, <2>2, <2>3, StaysGood, Zenon
  <2>5. QED
    BY <1>4, <1>9, <2>4
<1>13. QED
  BY <1>10, <1>11, <1>12

LEMMA ReadUserShape ==
  ASSUME IsFiniteSet(Requests), Shape, NEW r \in Requests, ReadUser(r)
  PROVE  Shape'
<1>1. /\ UNCHANGED <<user, session, born, link, mailed, minted, begun, ghosts, events>>
      /\ client' = IF req[r].op = "login" /\ user.verified /\ user.twofa = "on"
                     THEN [client EXCEPT !.challenge = TRUE] ELSE client
  BY DEF ReadUser
<1>2. UserGood' /\ SessionsGood' /\ LinksGood'
  BY <1>1 DEF Shape, UserGood, SessionsGood, LinksGood, GoodUser, ghosts
<1>3. ClientGood'
  BY <1>1 DEF Shape, ClientGood, ClientRecord
<1>4. Grown /\ Counts(born', mailed', minted', changes')
  BY <1>1, Within DEF Grown, Counts, ghosts
<1>5. RequestsGood' /\ Cardinality(Pending') \in Nat /\ Cardinality(Pending') <= Cardinality(Pending)
  <2>1. CASE ~Admitted(r)
    BY <1>4, <2>1, Refusing DEF ReadUser
  <2>2. CASE Admitted(r)
    <3>1. PICK y : y = [req[r] EXCEPT !.copy = user, !.epoch = changes, !.todo = AfterUser(r)]
      OBVIOUS
    <3>2. Becomes(r, y) /\ At(r, "user")
      BY <2>2, <3>1 DEF ReadUser
    <3>3. /\ GoodRequest(y, born, mailed, minted, changes) /\ y.op = req[r].op
          /\ y.todo \in Unread \cup Writing => req[r].todo \in Unread \cup Writing
      BY <2>2, <3>1, <3>2, AfterUserGood
    <3>4. RequestsGood'
      BY <1>1, <1>4, <3>2, <3>3, GoesOn, Within DEF Shape, ghosts
    <3>5. QED
      BY <3>2, <3>3, <3>4, WaitsOn, Within DEF Pending
  <2>3. QED
    BY <2>1, <2>2
<1>6. CountsGood'
  BY <1>1, <1>5, WaitsOn, Waiting DEF Shape, CountsGood, UserGood, ghosts
<1>7. QED
  BY <1>2, <1>3, <1>5, <1>6 DEF Shape

\* A refresh token is presented by a rotation or a logout, and has its session.
LEMMA Presented ==
  ASSUME Shape, NEW r \in Requests, ReadSession(r)
  PROVE  /\ req[r].op = "refresh" \/ req[r].op = "logout"
         /\ req[r].token \in 1..born /\ req[r].token \in Tokens
         /\ session[req[r].token].status \in {"live", "revoked"}
         /\ session[req[r].token].expired \in BOOLEAN
<1>1. At(r, "session")
  BY DEF ReadSession
<1>2. Onward(req[r].todo) /\ NextTrip(req[r].todo) /\ Placed(req[r].op, req[r].todo)
  BY <1>1, Within, NextStage DEF At, GoodRequest
<1>3. req[r].todo \in Presenting /\ req[r].todo \notin Rotating
  BY <1>1, <1>2 DEF NextTrip, At, Rotating
<1>4. req[r].token \in 1..born /\ req[r].token \in Tokens
  BY <1>3, Within, SessionBounds DEF GoodRequest, Holding, Shape, SessionsGood, Tokens
<1>5. session[req[r].token].status # "none" /\ session[req[r].token] \in SessionRecord
  BY <1>4, SessionBounds DEF Shape, SessionsGood
<1>6. QED
  BY <1>2, <1>3, <1>4, <1>5 DEF Placed, SessionRecord

LEMMA ReadSessionShape ==
  ASSUME IsFiniteSet(Requests), Shape, NEW r \in Requests, ReadSession(r)
  PROVE  Shape'
<1>1. /\ UNCHANGED <<user, session, born, link, mailed, minted, client, begun, ghosts, events>>
      /\ At(r, "session")
  BY DEF ReadSession
<1>2. UserGood' /\ SessionsGood' /\ LinksGood' /\ ClientGood'
  BY <1>1 DEF Shape, UserGood, SessionsGood, LinksGood, ClientGood, GoodUser, ghosts
<1>3. Grown /\ Counts(born', mailed', minted', changes')
  BY <1>1, Within DEF Grown, Counts, ghosts
<1>4. RequestsGood' /\ Cardinality(Pending') \in Nat /\ Cardinality(Pending') <= Cardinality(Pending)
  <2>1. CASE Refuse(r)
    BY <1>3, <2>1, Refusing
  <2>2. CASE Proceed(r)
    BY <1>1, <1>3, <2>2, Proceeding DEF At
  <2>3. CASE req[r].op = "refresh" /\ Becomes(r, [req[r] EXCEPT !.todo = <<"revoke_all">>])
    <3>1. PICK y : y = [req[r] EXCEPT !.todo = <<"revoke_all">>]
      OBVIOUS
    <3>2. /\ <<"revoke_all">> \in Stages
          /\ <<"revoke_all">> \notin WillWrite \cup Mailing \cup Unread \cup Writing
          /\ <<"revoke_all">> \notin Leaving \cup Proving
          /\ <<"revoke_all">> \notin Presenting \cup Spending \cup Linking
          /\ <<"revoke_all">> # <<"retire">>
      BY DEF Stages, Unread, Writing, Written, WillWrite, Linking, Mailing, Leaving, Rotating,
         Presenting, Proving, Spending
    <3>3. y \in RequestRecord
      BY <3>1, <3>2, Within DEF RequestRecord
    <3>4. /\ y.op = req[r].op /\ y.token = req[r].token /\ y.todo = <<"revoke_all">>
          /\ y.link = req[r].link
          /\ y.copy = req[r].copy /\ y.epoch = req[r].epoch
      BY <3>1, Within DEF RequestRecord
    <3>5. Placed(y.op, y.todo)
      BY <2>3, <3>2, <3>4 DEF Placed
    <3>6. Holding(y, born, mailed) /\ GoodUser(y.copy, minted, changes) /\ y.epoch <= changes
      BY <2>3, <3>2, <3>4, Within DEF Holding, GoodRequest
    <3>7. GoodRequest(y, born', mailed', minted', changes')
      BY <1>1, <3>3, <3>5, <3>6 DEF GoodRequest, ghosts
    <3>8. Becomes(r, y)
      BY <2>3, <3>1
    <3>9. RequestsGood'
      BY <1>3, <3>7, <3>8, GoesOn, Within DEF Shape
    <3>10. QED
      BY <3>2, <3>4, <3>8, <3>9, WaitsOn, Within
  <2>4. QED
    BY <2>1, <2>2, <2>3, Presented DEF ReadSession
<1>5. CountsGood'
  BY <1>1, <1>4, Waiting DEF Shape, CountsGood, UserGood, ghosts
<1>6. QED
  BY <1>2, <1>4, <1>5 DEF Shape

\* A row of a session or of a link that is made or changed.
LEMMA SessionEdited ==
  ASSUME SessionsGood, NEW j \in 1..born, NEW row \in SessionRecord,
         session' = [session EXCEPT ![j] = row],
         row.status # "none", row.parent = session[j].parent, row.epoch = session[j].epoch,
         row.version = session[j].version, born' = born, changes' = changes
  PROVE  SessionsGood'
<1>1. j \in Tokens /\ j \in Nat /\ j <= born
  BY SessionBounds DEF SessionsGood, Tokens
<1>2. session' \in [Tokens -> SessionRecord]
  BY <1>1 DEF SessionsGood
<1>3. ASSUME NEW k \in Tokens
      PROVE  /\ session'[k].status = "none" <=> k > born'
             /\ session'[k].parent < k
             /\ session'[k].epoch <= changes' /\ session'[k].version <= changes'
  <2>1. CASE k = j
    BY <1>1, <2>1 DEF SessionsGood
  <2>2. CASE k # j
    BY <1>1, <2>2 DEF SessionsGood
  <2>3. QED
    BY <2>1, <2>2
<1>4. QED
  BY <1>2, <1>3 DEF SessionsGood

LEMMA LinkEdited ==
  ASSUME LinksGood, NEW l \in 1..mailed, NEW row \in LinkRecord, link' = [link EXCEPT ![l] = row],
         row.status # "none", mailed' = mailed
  PROVE  LinksGood'
<1>1. l \in Links /\ l \in Nat /\ l <= mailed
  BY SessionBounds DEF LinksGood, Links
<1>2. link' \in [Links -> LinkRecord]
  BY <1>1 DEF LinksGood
<1>3. ASSUME NEW k \in Links
      PROVE  link'[k].status = "none" <=> k > mailed'
  <2>1. CASE k = l
    BY <1>1, <2>1 DEF LinksGood
  <2>2. CASE k # l
    BY <1>1, <2>2 DEF LinksGood
  <2>3. QED
    BY <2>1, <2>2
<1>4. QED
  BY <1>2, <1>3 DEF LinksGood

LEMMA ReadLinkShape ==
  ASSUME IsFiniteSet(Requests), Shape, NEW r \in Requests, ReadLink(r)
  PROVE  Shape'
<1>1. /\ UNCHANGED <<user, session, born, link, mailed, minted, client, begun, ghosts, events>>
      /\ At(r, "link") /\ (Proceed(r) \/ Refuse(r))
  BY DEF ReadLink
<1>2. UserGood' /\ SessionsGood' /\ LinksGood' /\ ClientGood'
  BY <1>1 DEF Shape, UserGood, SessionsGood, LinksGood, ClientGood, GoodUser, ghosts
<1>3. Grown /\ Counts(born', mailed', minted', changes')
  BY <1>1, Within DEF Grown, Counts, ghosts
<1>4. RequestsGood' /\ Cardinality(Pending') \in Nat /\ Cardinality(Pending') <= Cardinality(Pending)
  BY <1>1, <1>3, Refusing, Proceeding DEF At
<1>5. CountsGood'
  BY <1>1, <1>4, Waiting DEF Shape, CountsGood, UserGood, ghosts
<1>6. QED
  BY <1>2, <1>4, <1>5 DEF Shape

LEMMA UseLinkShape ==
  ASSUME IsFiniteSet(Requests), Shape, NEW r \in Requests, UseLink(r)
  PROVE  Shape'
<1>1. /\ UNCHANGED <<user, session, born, mailed, minted, client, begun, ghosts, events>>
      /\ At(r, "use_link") /\ Proceed(r)
      /\ link' = [link EXCEPT ![req[r].link].status = "used"]
  BY DEF UseLink
<1>2. UserGood' /\ SessionsGood' /\ ClientGood'
  BY <1>1 DEF Shape, UserGood, SessionsGood, ClientGood, GoodUser, ghosts
<1>3. req[r].link \in 1..mailed
  <2>1. req[r].todo \in Linking
    BY <1>1, Within, NextStage DEF At, NextTrip
  <2>2. QED
    BY <2>1, Within DEF GoodRequest, Holding
<1>4. LinksGood'
  <2>1. PICK row : row = [link[req[r].link] EXCEPT !.status = "used"]
    OBVIOUS
  <2>2. link[req[r].link] \in LinkRecord
    BY <1>3, SessionBounds DEF Shape, LinksGood, Links
  <2>3. row \in LinkRecord /\ row.status # "none"
    BY <2>1, <2>2 DEF LinkRecord
  <2>4. link' = [link EXCEPT ![req[r].link] = row]
    BY <1>1, <2>1
  <2>5. QED
    BY <1>1, <1>3, <2>3, <2>4, LinkEdited DEF Shape
<1>5. Grown /\ Counts(born', mailed', minted', changes')
  BY <1>1, Within DEF Grown, Counts, ghosts
<1>6. RequestsGood' /\ Cardinality(Pending') \in Nat /\ Cardinality(Pending') <= Cardinality(Pending)
  BY <1>1, <1>5, Proceeding DEF At
<1>7. CountsGood'
  BY <1>1, <1>6, Waiting DEF Shape, CountsGood, UserGood, ghosts
<1>8. QED
  BY <1>2, <1>4, <1>6, <1>7 DEF Shape

LEMMA SpendShape ==
  ASSUME IsFiniteSet(Requests), Shape, NEW r \in Requests, Spend(r)
  PROVE  Shape'
<1>1. PICK left : left = [req[r].copy EXCEPT !.codes = @ \ {req[r].code}]
  OBVIOUS
<1>2. PICK y : y = [req[r] EXCEPT !.copy = left, !.todo = Tail(@)]
  OBVIOUS
<1>3. /\ UNCHANGED <<session, born, link, mailed, minted, client, begun, changes, given, reused, events>>
      /\ At(r, "spend") /\ user' = left /\ Becomes(r, y)
      /\ accepted' = [accepted EXCEPT ![req[r].code] = @ + 1]
  BY <1>1, <1>2 DEF Spend
<1>4. Onward(req[r].todo) /\ NextTrip(req[r].todo) /\ req[r].todo # <<>> /\ Head(req[r].todo) = "spend"
  BY <1>3, Within, NextStage DEF At
<1>5. GoodUser(req[r].copy, minted, changes)
  BY Within DEF GoodRequest
<1>6. GoodUser(left, minted, changes)
  <2>1. /\ left \in UserRecord /\ left.version = req[r].copy.version
        /\ left.codes = req[r].copy.codes \ {req[r].code}
    BY <1>1, <1>5 DEF UserRecord, GoodUser
  <2>2. QED
    BY <1>5, <2>1 DEF GoodUser
<1>7. SessionsGood' /\ LinksGood' /\ ClientGood'
  BY <1>3 DEF Shape, SessionsGood, LinksGood, ClientGood
<1>8. UserGood'
  BY <1>3, <1>6 DEF Shape, UserGood, GoodUser
<1>9. Grown /\ Counts(born', mailed', minted', changes')
  BY <1>3, Within DEF Grown, Counts
<1>10. y \in RequestRecord
  BY <1>2, <1>4, <1>6, Within DEF RequestRecord, Onward, GoodUser
<1>11. /\ y.op = req[r].op /\ y.token = req[r].token /\ y.todo = Tail(req[r].todo)
       /\ y.link = req[r].link
       /\ y.new = req[r].new /\ y.copy = left /\ y.epoch = req[r].epoch
  BY <1>2, Within DEF RequestRecord
<1>12. y.todo \notin Spending
  <2>1. y.todo \in Spending => req[r].todo \in Proving
    BY <1>4, <1>11 DEF Onward
  <2>2. req[r].todo \in Spending
    BY <1>4 DEF NextTrip
  <2>3. QED
    BY <2>1, <2>2 DEF Proving, Spending
<1>13. GoodUser(y.copy, minted', changes') /\ y.epoch <= changes'
  BY <1>3, <1>6, <1>11, Within DEF GoodRequest
<1>14. RequestsGood' /\ Cardinality(Pending') \in Nat /\ Cardinality(Pending') <= Cardinality(Pending)
  BY <1>3, <1>4, <1>9, <1>10, <1>11, <1>12, <1>13, Moving
<1>15. CountsGood'
  <2>1. accepted' \in [Codes -> Nat]
    <3>1. accepted \in [Codes -> Nat] /\ \A c \in Codes : accepted[c] + 1 \in Nat
      BY DEF Shape, CountsGood
    <3>2. accepted' = [c \in Codes |-> IF c = req[r].code THEN accepted[c] + 1 ELSE accepted[c]]
      BY <1>3, <3>1
    <3>3. QED
      BY <3>1, <3>2
  <2>2. QED
    BY <1>3, <1>14, <2>1, Waiting DEF Shape, CountsGood, UserGood
<1>16. QED
  BY <1>7, <1>8, <1>14, <1>15 DEF Shape

\* The document a handler saves.
LEMMA UpdatedGood ==
  ASSUME Shape, NEW r \in Requests, Save(r)
  PROVE  /\ GoodUser(Updated(r), minted', changes')
         /\ Counts(born', mailed', minted', changes') /\ Grown /\ minted' \in 0..MaxCodes
<1> DEFINE copy == req[r].copy
<1>1. /\ minted' = IF req[r].op = "enable_2fa" THEN minted + CodesPerSetup ELSE minted
      /\ minted' <= MaxCodes
      /\ changes' = IF req[r].op \in NewPassword THEN changes + 1 ELSE changes
      /\ UNCHANGED <<born, mailed>>
  BY DEF Save
<1>2. GoodUser(copy, minted, changes) /\ Counts(born, mailed, minted, changes)
  BY Within DEF GoodRequest
<1>3. CodesPerSetup \in Nat /\ MaxCodes \in Nat
  BY SessionBounds
<1>4. Grown /\ Counts(born', mailed', minted', changes') /\ minted' \in 0..MaxCodes
  BY <1>1, <1>2, <1>3 DEF Grown, Counts
<1>5. /\ copy.version \in Nat /\ copy.verified \in BOOLEAN /\ copy.google \in BOOLEAN
      /\ copy.twofa \in {"off", "pending", "on"} /\ copy.codes \subseteq 1..minted
      /\ copy.version <= changes
  BY <1>2 DEF GoodUser, UserRecord
<1>6. 1..minted' \subseteq Codes /\ 1..minted \subseteq 1..minted'
  BY <1>2, <1>3, <1>4 DEF Codes, Counts, Grown
<1>7. /\ Updated(r).version \in Nat /\ Updated(r).version <= changes'
      /\ Updated(r).verified \in BOOLEAN /\ Updated(r).google \in BOOLEAN
      /\ Updated(r).twofa \in {"off", "pending", "on"}
  BY <1>1, <1>2, <1>5 DEF Updated, Counts
<1>8. Updated(r).codes \subseteq 1..minted'
  BY <1>1, <1>2, <1>3, <1>5, <1>6 DEF Updated, Counts
<1>9. Updated(r) \in UserRecord
  <2>1. Updated(r).codes \subseteq Codes
    BY <1>6, <1>8
  <2>2. QED
    BY <1>7, <2>1 DEF Updated, UserRecord
<1>10. QED
  BY <1>4, <1>7, <1>8, <1>9 DEF GoodUser

LEMMA SaveShape ==
  ASSUME IsFiniteSet(Requests), Shape, NEW r \in Requests, Save(r)
  PROVE  Shape'
<1>1. PICK y : y = [req[r] EXCEPT !.copy = Updated(r), !.todo = Tail(@),
                     !.epoch = IF req[r].op \in NewPassword THEN changes + 1 ELSE @]
  OBVIOUS
<1>2. /\ UNCHANGED <<session, born, link, mailed, begun, given, reused, accepted, events>>
      /\ At(r, "save") /\ user' = Updated(r) /\ Becomes(r, y)
      /\ changes' = IF req[r].op \in NewPassword THEN changes + 1 ELSE changes
      /\ client' = IF req[r].op = "forgot" THEN [client EXCEPT !.inbox = @ \cup {req[r].link}] ELSE client
  BY <1>1 DEF Save
<1>3. Onward(req[r].todo) /\ NextTrip(req[r].todo) /\ req[r].todo # <<>> /\ Head(req[r].todo) = "save"
  BY <1>2, Within, NextStage DEF At
<1>4. /\ GoodUser(Updated(r), minted', changes')
      /\ Counts(born', mailed', minted', changes') /\ Grown /\ minted' \in 0..MaxCodes
  BY UpdatedGood
<1>5. UserGood'
  BY <1>2, <1>4 DEF UserGood, GoodUser, Counts
<1>6. SessionsGood'
  <2>1. changes <= changes' /\ changes \in Nat /\ changes' \in Nat
    BY <1>4, Within DEF Grown, Counts
  <2>2. \A j \in Tokens : session[j].epoch \in Nat /\ session[j].version \in Nat
    BY DEF Shape, SessionsGood, SessionRecord
  <2>3. QED
    BY <1>2, <2>1, <2>2 DEF Shape, SessionsGood
<1>7. LinksGood'
  BY <1>2 DEF Shape, LinksGood
<1>8. ClientGood'
  <2>1. req[r].op = "forgot" => req[r].link \in 1..mailed
    BY <1>3, Within DEF GoodRequest, Holding, NextTrip
  <2>2. 1..mailed \subseteq Links
    BY SessionBounds DEF Shape, LinksGood, Links
  <2>3. QED
    BY <1>2, <2>1, <2>2 DEF Shape, ClientGood, ClientRecord
<1>9. y \in RequestRecord
  <2>1. changes + 1 \in Nat
    BY Within DEF Counts
  <2>2. QED
    BY <1>1, <1>3, <1>4, <2>1, Within DEF RequestRecord, Onward, GoodUser
<1>10. /\ y.op = req[r].op /\ y.token = req[r].token /\ y.todo = Tail(req[r].todo)
       /\ y.link = req[r].link
       /\ y.new = req[r].new /\ y.copy = Updated(r)
       /\ y.epoch = IF req[r].op \in NewPassword THEN changes + 1 ELSE req[r].epoch
  BY <1>1, Within DEF RequestRecord
<1>11. y.todo \notin Spending
  BY <1>3, <1>10 DEF Onward, Proving
<1>12. GoodUser(y.copy, minted', changes') /\ y.epoch <= changes'
  BY <1>2, <1>4, <1>10, Within DEF GoodRequest, Counts
<1>13. RequestsGood' /\ Cardinality(Pending') \in Nat /\ Cardinality(Pending') <= Cardinality(Pending)
  BY <1>2, <1>3, <1>4, <1>9, <1>10, <1>11, <1>12, Moving
<1>14. CountsGood'
  <2>1. req[r].op \in NewPassword => Cardinality(Pending') + 1 <= Cardinality(Pending)
    <3>1. SUFFICES ASSUME req[r].op \in NewPassword
                   PROVE  Cardinality(Pending') + 1 <= Cardinality(Pending)
      OBVIOUS
    <3>2. r \in Pending /\ y.todo \notin Unread \cup Writing
      BY <1>3, <1>10, <3>1 DEF Pending, NextTrip
    <3>3. QED
      BY <1>2, <3>2, WaitsOn, Within
  <2>2. QED
    BY <1>2, <1>13, <2>1, Waiting DEF Shape, CountsGood, UserGood
<1>15. QED
  BY <1>5, <1>6, <1>7, <1>8, <1>13, <1>14 DEF Shape

LEMMA SupersedeShape ==
  ASSUME IsFiniteSet(Requests), Shape, NEW r \in Requests, Supersede(r)
  PROVE  Shape'
<1>1. /\ UNCHANGED <<user, session, born, mailed, minted, client, begun, ghosts, events>>
      /\ At(r, "supersede") /\ Proceed(r)
      /\ link' = [l \in Links |->
                    IF link[l].purpose = Purpose[req[r].op] /\ link[l].status = "unused"
                      THEN [link[l] EXCEPT !.status = "used"] ELSE link[l]]
  BY DEF Supersede
<1>2. UserGood' /\ SessionsGood' /\ ClientGood'
  BY <1>1 DEF Shape, UserGood, SessionsGood, ClientGood, GoodUser, ghosts
<1>3. LinksGood'
  BY <1>1 DEF Shape, LinksGood, LinkRecord
<1>4. Grown /\ Counts(born', mailed', minted', changes')
  BY <1>1, Within DEF Grown, Counts, ghosts
<1>5. RequestsGood' /\ Cardinality(Pending') \in Nat /\ Cardinality(Pending') <= Cardinality(Pending)
  BY <1>1, <1>4, Proceeding DEF At
<1>6. CountsGood'
  BY <1>1, <1>5, Waiting DEF Shape, CountsGood, UserGood, ghosts
<1>7. QED
  BY <1>2, <1>3, <1>5, <1>6 DEF Shape

LEMMA MailShape ==
  ASSUME IsFiniteSet(Requests), Shape, NEW r \in Requests, Mail(r)
  PROVE  Shape'
<1>1. PICK y : y = [req[r] EXCEPT !.link = mailed + 1, !.todo = Tail(@)]
  OBVIOUS
<1>2. /\ UNCHANGED <<user, session, born, minted, begun, ghosts, events>>
      /\ At(r, "mail") /\ Becomes(r, y) /\ mailed < MaxLinks /\ mailed' = mailed + 1
      /\ link' = [link EXCEPT ![mailed + 1] =
                    [NoLink EXCEPT !.purpose = Purpose[req[r].op], !.status = "unused"]]
      /\ client' = IF req[r].op = "resend"
                     THEN [client EXCEPT !.inbox = @ \cup {mailed + 1}] ELSE client
  BY <1>1 DEF Mail
<1>3. Onward(req[r].todo) /\ NextTrip(req[r].todo) /\ req[r].todo # <<>> /\ Head(req[r].todo) = "mail"
  BY <1>2, Within, NextStage DEF At
<1>4. UserGood' /\ SessionsGood'
  BY <1>2 DEF Shape, UserGood, SessionsGood, GoodUser, ghosts
<1>5. mailed \in Nat /\ mailed + 1 \in 1..mailed' /\ mailed + 1 \in Links /\ mailed' \in 1..MaxLinks
      /\ 1..mailed \subseteq 1..mailed'
  BY <1>2, SessionBounds DEF Shape, LinksGood, Links
<1>6. LinksGood'
  <2>1. PICK row : row = [NoLink EXCEPT !.purpose = Purpose[req[r].op], !.status = "unused"]
    OBVIOUS
  <2>2. req[r].op \in {"forgot", "resend"}
    BY <1>3, Within DEF NextTrip, GoodRequest, Placed, Mailing
  <2>3. row \in LinkRecord /\ row.status = "unused"
    <3>1. Purpose.forgot = "password_reset" /\ Purpose.resend = "verify_email"
      BY DEF Purpose
    <3>2. Purpose[req[r].op] \in {"password_reset", "verify_email"}
      BY <2>2, <3>1
    <3>3. QED
      BY <2>1, <3>2 DEF NoLink, LinkRecord
  <2>4. link' = [link EXCEPT ![mailed + 1] = row]
    BY <1>2, <2>1
  <2>5. link' \in [Links -> LinkRecord]
    BY <1>5, <2>3, <2>4 DEF Shape, LinksGood
  <2>6. ASSUME NEW l \in Links
        PROVE  link'[l].status = "none" <=> l > mailed'
    BY <1>2, <1>5, <2>3, <2>4 DEF Shape, LinksGood, Links
  <2>7. QED
    BY <1>5, <2>5, <2>6 DEF LinksGood
<1>7. ClientGood'
  BY <1>2, <1>4, <1>5 DEF Shape, ClientGood, ClientRecord
<1>8. Grown /\ Counts(born', mailed', minted', changes')
  BY <1>2, <1>5, Within DEF Grown, Counts, ghosts
<1>9. y \in RequestRecord
  BY <1>1, <1>3, <1>5, Within DEF RequestRecord, Onward
<1>10. /\ y.op = req[r].op /\ y.token = req[r].token /\ y.todo = Tail(req[r].todo)
       /\ y.link = mailed + 1
       /\ y.new = req[r].new /\ y.copy = req[r].copy /\ y.epoch = req[r].epoch
  BY <1>1, Within DEF RequestRecord
<1>11. y.todo \notin Spending
  BY <1>3, <1>10 DEF Onward, Proving
<1>12. GoodUser(y.copy, minted', changes') /\ y.epoch <= changes'
  BY <1>2, <1>10, Within DEF GoodRequest, ghosts
<1>13. RequestsGood' /\ Cardinality(Pending') \in Nat /\ Cardinality(Pending') <= Cardinality(Pending)
  BY <1>2, <1>3, <1>5, <1>8, <1>9, <1>10, <1>11, <1>12, Moving
<1>14. CountsGood'
  BY <1>2, <1>13, Waiting DEF Shape, CountsGood, UserGood, ghosts
<1>15. QED
  BY <1>4, <1>6, <1>7, <1>13, <1>14 DEF Shape

LEMMA RevokeAllShape ==
  ASSUME IsFiniteSet(Requests), Shape, NEW r \in Requests, RevokeAll(r)
  PROVE  Shape'
<1>1. /\ UNCHANGED <<user, born, link, mailed, minted, client, begun, changes, given, accepted, events>>
      /\ At(r, "revoke_all") /\ Proceed(r)
      /\ session' = [j \in Tokens |-> IF session[j].status = "live"
                                        THEN [session[j] EXCEPT !.status = "revoked"] ELSE session[j]]
  BY DEF RevokeAll
<1>2. UserGood' /\ LinksGood' /\ ClientGood'
  BY <1>1 DEF Shape, UserGood, LinksGood, ClientGood, GoodUser
<1>3. SessionsGood'
  BY <1>1 DEF Shape, SessionsGood, SessionRecord
<1>4. Grown /\ Counts(born', mailed', minted', changes')
  BY <1>1, Within DEF Grown, Counts
<1>5. RequestsGood' /\ Cardinality(Pending') \in Nat /\ Cardinality(Pending') <= Cardinality(Pending)
  BY <1>1, <1>4, Proceeding DEF At
<1>6. CountsGood'
  BY <1>1, <1>5, Waiting DEF Shape, CountsGood, UserGood
<1>7. QED
  BY <1>2, <1>3, <1>5, <1>6 DEF Shape

\* What a device holds after an answer with the pair of token j.
LEMMA Answered ==
  ASSUME Shape, NEW r \in Requests, NEW j \in 1..born', Answer(r, j, req[r].copy.version),
         born' \in born..MaxTokens, mailed' = mailed
  PROVE  ClientGood' /\ given' \in [Tokens -> Nat]
<1>1. CASE client' = client /\ given' = given
  BY <1>1 DEF Shape, ClientGood, CountsGood, SessionsGood
<1>2. CASE /\ client' = [client EXCEPT !.refresh = @ \cup {j},
                           !.access = @ \cup {[version |-> req[r].copy.version, epoch |-> req[r].epoch]}]
           /\ given' = IF req[r].op = "refresh" THEN [given EXCEPT ![req[r].token] = @ + 1] ELSE given
  <2>1. req[r].copy.version \in Nat /\ req[r].epoch \in Nat
    BY Within DEF UserRecord
  <2>2. j \in Tokens /\ 1..born \subseteq 1..born'
    BY SessionBounds DEF Tokens, Shape, SessionsGood
  <2>3. [version |-> req[r].copy.version, epoch |-> req[r].epoch] \in [version : Nat, epoch : Nat]
    BY <2>1
  <2>4. ClientGood'
    BY <1>2, <2>2, <2>3 DEF Shape, ClientGood, ClientRecord
  <2>5. given' \in [Tokens -> Nat]
    <3>1. given \in [Tokens -> Nat] /\ \A k \in Tokens : given[k] + 1 \in Nat
      BY DEF Shape, CountsGood
    <3>2. CASE req[r].op = "refresh"
      <4>1. given' = [k \in Tokens |-> IF k = req[r].token THEN given[k] + 1 ELSE given[k]]
        BY <1>2, <3>1, <3>2
      <4>2. QED
        BY <3>1, <4>1
    <3>3. CASE req[r].op # "refresh"
      BY <1>2, <3>1, <3>3
    <3>4. QED
      BY <3>2, <3>3
  <2>6. QED
    BY <2>4, <2>5
<1>3. QED
  BY <1>1, <1>2 DEF Answer

LEMMA IssueShape ==
  ASSUME IsFiniteSet(Requests), Shape, NEW r \in Requests, Issue(r)
  PROVE  Shape'
<1>1. /\ UNCHANGED <<user, link, mailed, minted, begun, changes, reused, accepted>>
      /\ At(r, "issue") /\ Hand(r) /\ born < MaxTokens /\ born' = born + 1
      /\ session' = [session EXCEPT ![born + 1] =
                       [NoSession EXCEPT !.status = "live", !.version = req[r].copy.version,
                                         !.epoch = req[r].epoch, !.parent = req[r].token]]
  BY DEF Issue, Mint
<1>2. Onward(req[r].todo) /\ NextTrip(req[r].todo) /\ req[r].todo # <<>> /\ Head(req[r].todo) = "issue"
  BY <1>1, Within, NextStage DEF At
<1>3. UserGood' /\ LinksGood'
  BY <1>1 DEF Shape, UserGood, LinksGood, GoodUser
<1>4. born \in Nat /\ born + 1 \in 1..born' /\ born + 1 \in Tokens /\ born' \in born..MaxTokens
  BY <1>1, SessionBounds DEF Shape, SessionsGood, Tokens
<1>5. /\ req[r].copy.version \in Nat /\ req[r].copy.version <= changes
      /\ req[r].epoch \in Nat /\ req[r].epoch <= changes /\ req[r].token \in 0..born
  BY Within DEF UserRecord, GoodRequest, GoodUser, Holding
<1>6. SessionsGood'
  <2>1. PICK row : row = [NoSession EXCEPT !.status = "live", !.version = req[r].copy.version,
                                           !.epoch = req[r].epoch, !.parent = req[r].token]
    OBVIOUS
  <2>2. /\ row.status = "live" /\ row.parent < born + 1 /\ row.epoch <= changes
        /\ row.version <= changes
    BY <1>4, <1>5, <2>1 DEF NoSession
  <2>3. row \in SessionRecord
    BY <1>5, <2>1, Within DEF NoSession, SessionRecord, RequestRecord
  <2>4. session' = [session EXCEPT ![born + 1] = row]
    BY <1>1, <2>1
  <2>5. session' \in [Tokens -> SessionRecord]
    BY <1>4, <2>3, <2>4 DEF Shape, SessionsGood
  <2>6. ASSUME NEW j \in Tokens
        PROVE  /\ session'[j].status = "none" <=> j > born'
               /\ session'[j].parent < j
               /\ session'[j].epoch <= changes' /\ session'[j].version <= changes'
    <3>1. CASE j = born + 1
      <4>1. session'[j] = row
        BY <1>4, <2>4, <3>1 DEF Shape, SessionsGood
      <4>2. ~(j > born')
        BY <1>1, <1>4, <3>1
      <4>3. QED
        BY <1>1, <2>2, <3>1, <4>1, <4>2
    <3>2. CASE j # born + 1
      <4>1. session'[j] = session[j] /\ j \in Nat
        BY <2>4, <3>2 DEF Shape, SessionsGood, Tokens
      <4>2. QED
        BY <1>1, <1>4, <3>2, <4>1 DEF Shape, SessionsGood
    <3>3. QED
      BY <3>1, <3>2
  <2>7. born' \in 0..MaxTokens
    BY <1>4
  <2>8. QED
    BY <2>5, <2>6, <2>7 DEF SessionsGood
<1>7. Grown /\ Counts(born', mailed', minted', changes')
  BY <1>1, <1>4, Within DEF Grown, Counts
<1>8. CASE req[r].op = "refresh"
  <2>1. PICK y : y = [req[r] EXCEPT !.new = born + 1, !.todo = Tail(@)]
    OBVIOUS
  <2>2. Becomes(r, y) /\ UNCHANGED <<client, given, events>>
    BY <1>1, <1>8, <2>1 DEF Hand
  <2>3. y \in RequestRecord
    BY <1>2, <1>4, <2>1, Within DEF RequestRecord, Onward
  <2>4. /\ y.op = req[r].op /\ y.token = req[r].token /\ y.todo = Tail(req[r].todo)
        /\ y.link = req[r].link
        /\ y.new = born + 1 /\ y.copy = req[r].copy /\ y.epoch = req[r].epoch
    BY <2>1, Within DEF RequestRecord
  <2>5. y.todo \notin Spending
    BY <1>2, <2>4 DEF Onward, Proving
  <2>6. GoodUser(y.copy, minted', changes') /\ y.epoch <= changes'
    BY <1>1, <2>4, Within DEF GoodRequest
  <2>7. RequestsGood' /\ Cardinality(Pending') \in Nat /\ Cardinality(Pending') <= Cardinality(Pending)
    BY <1>2, <1>4, <1>7, <2>2, <2>3, <2>4, <2>5, <2>6, Moving
  <2>8. ClientGood'
    BY <1>1, <1>4, <2>2 DEF Shape, ClientGood
  <2>9. CountsGood'
    BY <1>1, <2>2, <2>7, Waiting DEF Shape, CountsGood, UserGood
  <2>10. QED
    BY <1>3, <1>6, <2>7, <2>8, <2>9 DEF Shape
<1>9. CASE req[r].op # "refresh"
  <2>1. Refuse(r) /\ Answer(r, born + 1, req[r].copy.version)
    BY <1>1, <1>9 DEF Hand
  <2>2. RequestsGood' /\ Cardinality(Pending') \in Nat /\ Cardinality(Pending') <= Cardinality(Pending)
    BY <1>7, <2>1, Refusing
  <2>3. ClientGood' /\ given' \in [Tokens -> Nat]
    BY <1>1, <1>4, <2>1, Answered
  <2>4. CountsGood'
    BY <1>1, <2>2, <2>3, Waiting DEF Shape, CountsGood, UserGood
  <2>5. QED
    BY <1>3, <1>6, <2>2, <2>3, <2>4 DEF Shape
<1>10. QED
  BY <1>8, <1>9

LEMMA RetireShape ==
  ASSUME IsFiniteSet(Requests), Shape, NEW r \in Requests, Retire(r)
  PROVE  Shape'
<1>1. /\ UNCHANGED <<user, born, link, mailed, minted, begun, changes, reused, accepted>>
      /\ At(r, "retire") /\ Refuse(r)
      /\ session' = [session EXCEPT ![req[r].token].status = "revoked"]
      /\ \/ req[r].op = "refresh" /\ Answer(r, req[r].new, req[r].copy.version)
         \/ UNCHANGED <<client, given, events>>
  BY DEF Retire
<1>2. NextTrip(req[r].todo) /\ req[r].todo = <<"retire">>
  BY <1>1, Within, NextStage DEF At, NextTrip
<1>3. req[r].token \in 1..born /\ (req[r].op = "refresh" => req[r].new \in 1..born)
  BY <1>2, Within DEF GoodRequest, Holding, Presenting, Rotating
<1>4. UserGood' /\ LinksGood'
  BY <1>1 DEF Shape, UserGood, LinksGood, GoodUser
<1>5. SessionsGood'
  <2>1. PICK row : row = [session[req[r].token] EXCEPT !.status = "revoked"]
    OBVIOUS
  <2>2. session[req[r].token] \in SessionRecord
    BY <1>3, SessionBounds DEF Shape, SessionsGood, Tokens
  <2>3. /\ row \in SessionRecord /\ row.status # "none" /\ row.parent = session[req[r].token].parent
        /\ row.epoch = session[req[r].token].epoch /\ row.version = session[req[r].token].version
    BY <2>1, <2>2 DEF SessionRecord
  <2>4. session' = [session EXCEPT ![req[r].token] = row]
    BY <1>1, <2>1
  <2>5. QED
    BY <1>1, <1>3, <2>3, <2>4, SessionEdited DEF Shape
<1>6. Grown /\ Counts(born', mailed', minted', changes') /\ born' \in born..MaxTokens
  BY <1>1, Within, SessionBounds DEF Grown, Counts, Shape, SessionsGood
<1>7. RequestsGood' /\ Cardinality(Pending') \in Nat /\ Cardinality(Pending') <= Cardinality(Pending)
  BY <1>1, <1>6, Refusing
<1>8. ClientGood' /\ given' \in [Tokens -> Nat]
  <2>1. CASE req[r].op = "refresh" /\ Answer(r, req[r].new, req[r].copy.version)
    BY <1>1, <1>3, <1>6, <2>1, Answered
  <2>2. CASE UNCHANGED <<client, given, events>>
    BY <1>1, <2>2 DEF Shape, ClientGood, CountsGood
  <2>3. QED
    BY <1>1, <2>1, <2>2
<1>9. CountsGood'
  BY <1>1, <1>7, <1>8, Waiting DEF Shape, CountsGood, UserGood
<1>10. QED
  BY <1>4, <1>5, <1>7, <1>8, <1>9 DEF Shape

LEMMA LoseRequestShape ==
  ASSUME IsFiniteSet(Requests), Shape, NEW r \in Requests, LoseRequest(r)
  PROVE  Shape'
<1>1. UNCHANGED <<user, session, born, link, mailed, minted, client, begun, ghosts>> /\ Refuse(r)
  BY DEF LoseRequest
<1>2. UserGood' /\ SessionsGood' /\ LinksGood' /\ ClientGood'
  BY <1>1 DEF Shape, UserGood, SessionsGood, LinksGood, ClientGood, GoodUser, ghosts
<1>3. Grown /\ Counts(born', mailed', minted', changes')
  BY <1>1, Within DEF Grown, Counts, ghosts
<1>4. RequestsGood' /\ Cardinality(Pending') \in Nat /\ Cardinality(Pending') <= Cardinality(Pending)
  BY <1>1, <1>3, Refusing
<1>5. CountsGood'
  BY <1>1, <1>4, Waiting DEF Shape, CountsGood, UserGood, ghosts
<1>6. QED
  BY <1>2, <1>4, <1>5 DEF Shape

LEMMA ExpireShape ==
  ASSUME Shape, Expire
  PROVE  Shape'
<1>1. /\ UNCHANGED <<user, born, mailed, minted, client, req, begun, ghosts>>
      /\ \/ \E j \in 1..born : session' = [session EXCEPT ![j].expired = TRUE] /\ UNCHANGED link
         \/ \E l \in 1..mailed : link' = [link EXCEPT ![l].expired = TRUE] /\ UNCHANGED session
  BY DEF Expire
<1>2. UserGood' /\ ClientGood'
  BY <1>1 DEF Shape, UserGood, ClientGood, GoodUser, ghosts
<1>3. RequestsGood'
  BY <1>1 DEF Shape, RequestsGood, ghosts
<1>4. CountsGood'
  BY <1>1 DEF Shape, CountsGood, Pending, ghosts
<1>5. SessionsGood'
  <2>1. CASE UNCHANGED session
    BY <1>1, <2>1 DEF Shape, SessionsGood, ghosts
  <2>2. ASSUME NEW j \in 1..born, session' = [session EXCEPT ![j].expired = TRUE]
        PROVE  SessionsGood'
    <3>1. PICK row : row = [session[j] EXCEPT !.expired = TRUE]
      OBVIOUS
    <3>2. session[j] \in SessionRecord /\ session[j].status # "none"
      BY SessionBounds DEF Shape, SessionsGood, Tokens
    <3>3. /\ row \in SessionRecord /\ row.status # "none" /\ row.parent = session[j].parent
          /\ row.epoch = session[j].epoch /\ row.version = session[j].version
      BY <3>1, <3>2 DEF SessionRecord
    <3>4. session' = [session EXCEPT ![j] = row]
      BY <2>2, <3>1
    <3>5. QED
      BY <1>1, <3>3, <3>4, SessionEdited DEF Shape, ghosts
  <2>3. QED
    BY <1>1, <2>1, <2>2
<1>6. LinksGood'
  <2>1. CASE UNCHANGED link
    BY <1>1, <2>1 DEF Shape, LinksGood
  <2>2. ASSUME NEW l \in 1..mailed, link' = [link EXCEPT ![l].expired = TRUE]
        PROVE  LinksGood'
    <3>1. PICK row : row = [link[l] EXCEPT !.expired = TRUE]
      OBVIOUS
    <3>2. link[l] \in LinkRecord /\ link[l].status # "none"
      BY SessionBounds DEF Shape, LinksGood, Links
    <3>3. row \in LinkRecord /\ row.status # "none"
      BY <3>1, <3>2 DEF LinkRecord
    <3>4. link' = [link EXCEPT ![l] = row]
      BY <2>2, <3>1
    <3>5. QED
      BY <1>1, <3>3, <3>4, LinkEdited DEF Shape
  <2>3. QED
    BY <1>1, <2>1, <2>2
<1>7. QED
  BY <1>2, <1>3, <1>4, <1>5, <1>6 DEF Shape

LEMMA StutterShape ==
  ASSUME Shape, UNCHANGED vars
  PROVE  Shape'
<1>1. UNCHANGED <<user, born, mailed, minted, client, req, begun, session, link, ghosts>>
  BY DEF vars, ghosts
<1>2. UserGood' /\ ClientGood' /\ SessionsGood' /\ LinksGood'
  BY <1>1 DEF Shape, UserGood, ClientGood, GoodUser, SessionsGood, LinksGood, ghosts
<1>3. RequestsGood'
  BY <1>1 DEF Shape, RequestsGood, ghosts
<1>4. CountsGood'
  BY <1>1 DEF Shape, CountsGood, Pending, ghosts
<1>5. QED
  BY <1>2, <1>3, <1>4 DEF Shape

LEMMA KeepsShape ==
  ASSUME IsFiniteSet(Requests), Shape, [Next]_vars
  PROVE  Shape'
BY BeginShape, ReadUserShape, ReadSessionShape, ReadLinkShape, UseLinkShape, SpendShape,
   SaveShape, SupersedeShape, MailShape, RevokeAllShape, IssueShape, RetireShape,
   LoseRequestShape, ExpireShape, StutterShape
   DEF Next

LEMMA InitShape ==
  ASSUME IsFiniteSet(Requests), Init
  PROVE  Shape
<1>1. /\ session = [j \in Tokens |-> NoSession] /\ born = 0 /\ mailed = 1
      /\ link = [l \in Links |-> IF l = 1
                   THEN [NoLink EXCEPT !.status = IF user.verified THEN "used" ELSE "unused"]
                   ELSE NoLink]
      /\ client = [refresh |-> {}, access |-> {}, challenge |-> FALSE, inbox |-> {1}]
      /\ req = [r \in Requests |-> Idle] /\ changes = 0 /\ begun = 0
      /\ given = [j \in Tokens |-> 0] /\ accepted = [c \in Codes |-> 0]
  BY DEF Init
<1>2. /\ MaxTokens \in Nat /\ MaxLinks \in Nat /\ MaxLinks > 0 /\ MaxChanges \in Nat
      /\ MaxCodes \in Nat /\ CodesPerSetup \in Nat
  BY SessionBounds
<1>3. UserGood
  <2>1. CASE Registered
    BY <1>1, <1>2, <2>1 DEF Registered, UserGood, GoodUser, NewUser, UserRecord
  <2>2. CASE Verified
    <3>1. user = [NewUser EXCEPT !.verified = TRUE] /\ minted = 0
      BY <2>2 DEF Verified
    <3>2. user \in UserRecord /\ user.version = 0 /\ user.codes = {}
      BY <3>1 DEF NewUser, UserRecord
    <3>3. QED
      BY <1>1, <1>2, <3>1, <3>2 DEF UserGood, GoodUser
  <2>3. CASE Enrolled
    <3>1. 1..CodesPerSetup \subseteq Codes /\ minted = CodesPerSetup /\ CodesPerSetup <= MaxCodes
      BY <1>2, <2>3 DEF Enrolled, Codes
    <3>2. user \in UserRecord /\ user.version = 0 /\ user.codes = 1..minted
      BY <2>3, <3>1 DEF Enrolled, NewUser, UserRecord
    <3>3. QED
      BY <1>1, <1>2, <3>1, <3>2 DEF UserGood, GoodUser
  <2>4. QED
    BY <2>1, <2>2, <2>3 DEF Init
<1>4. SessionsGood
  BY <1>1, <1>2 DEF SessionsGood, NoSession, SessionRecord, NoToken, Tokens
<1>5. LinksGood
  <2>1. NoLink \in LinkRecord /\ NoLink.status = "none"
    BY DEF NoLink, LinkRecord
  <2>2. PICK first : first = [NoLink EXCEPT !.status = IF user.verified THEN "used" ELSE "unused"]
    OBVIOUS
  <2>3. first \in LinkRecord /\ first.status # "none"
    BY <2>2 DEF NoLink, LinkRecord
  <2>4. link = [l \in Links |-> IF l = 1 THEN first ELSE NoLink]
    BY <1>1, <2>2
  <2>5. QED
    BY <1>1, <1>2, <2>1, <2>3, <2>4 DEF LinksGood, Links
<1>6. ClientGood
  BY <1>1, <1>2 DEF ClientGood, ClientRecord, Links
<1>7. RequestsGood
  <2>1. GoodRequest(Idle, born, mailed, minted, changes)
    BY <1>1, <1>3, IdleGood DEF Counts, UserGood
  <2>2. QED
    BY <1>1, <2>1 DEF RequestsGood
<1>8. CountsGood
  <2>1. Pending = {}
    BY <1>1 DEF Pending, Idle, Unread, Writing
  <2>2. Cardinality(Pending) = 0
    BY <2>1, FS_EmptySet
  <2>3. QED
    BY <1>1, <1>2, <2>2 DEF CountsGood
<1>9. QED
  BY <1>3, <1>4, <1>5, <1>6, <1>7, <1>8 DEF Shape

LEMMA Shaped ==
  ASSUME IsFiniteSet(Requests)
  PROVE  Spec => []Shape
<1>1. Init => Shape
  BY InitShape
<1>2. Shape /\ [Next]_vars => Shape'
  BY KeepsShape
<1>3. QED
  BY <1>1, <1>2, PTL DEF Spec

\* Every variable keeps its shape: no token without its session, no link without its row, no
\* answer for a token never minted, no more changes of the password than were begun.
THEOREM SessionsTypes ==
  ASSUME IsFiniteSet(Requests)
  PROVE  Spec => []SessionsTypeOK
<1>1. Shape => SessionsTypeOK
  <2>1. SUFFICES ASSUME Shape
                 PROVE  SessionsTypeOK
    OBVIOUS
  <2>2. Cardinality(Pending) \in Nat /\ changes \in Nat /\ begun \in Nat
    BY <2>1, Waiting DEF Shape, CountsGood, UserGood
  <2>3. changes <= begun /\ begun <= MaxChanges
    BY <2>1, <2>2, SessionBounds DEF Shape, CountsGood
  <2>4. user \in [version : 0..MaxChanges, verified : BOOLEAN, google : BOOLEAN,
                  twofa : {"off", "pending", "on"}, codes : SUBSET (1..minted)]
    BY <2>1, <2>2, <2>3, SessionBounds DEF Shape, UserGood, GoodUser, UserRecord
  <2>5. ASSUME NEW j \in Tokens
        PROVE  /\ session[j].status \in {"none", "live", "revoked"}
               /\ session[j].status = "none" <=> j > born
               /\ session[j].parent \in 0..(j - 1)
               /\ session[j].epoch <= changes
    BY <2>1, SessionBounds DEF Shape, SessionsGood, SessionRecord, Tokens, NoToken
  <2>6. ASSUME NEW l \in Links
        PROVE  link[l].status \in {"none", "unused", "used"} /\ (link[l].status = "none" <=> l > mailed)
    BY <2>1 DEF Shape, LinksGood, LinkRecord
  <2>7. client.refresh \subseteq 1..born /\ client.inbox \subseteq 1..mailed
    BY <2>1 DEF Shape, ClientGood
  <2>8. QED
    BY <2>3, <2>4, <2>5, <2>6, <2>7 DEF SessionsTypeOK
<1>2. QED
  BY <1>1, Shaped, PTL

-----------------------------------------------------------------------------
(* What a round trip leaves of its request *)

Trip(r) ==
    \/ ReadUser(r) \/ ReadSession(r) \/ ReadLink(r) \/ UseLink(r) \/ Spend(r) \/ Save(r)
    \/ Supersede(r) \/ Mail(r) \/ RevokeAll(r) \/ Issue(r) \/ Retire(r) \/ LoseRequest(r)

Continues(r, y) ==
    /\ req[r].todo # <<>>
    /\ Becomes(r, y)
    /\ y.todo # <<>> =>
         /\ y.op = req[r].op /\ y.token = req[r].token
         /\ y.todo = <<"mail", "save">> => Head(req[r].todo) = "supersede"
         /\ y.todo \in Writing => req[r].todo \in Writing \/ Head(req[r].todo) = "user"
         /\ y.todo \in Rotating => req[r].todo \in Rotating \/ Head(req[r].todo) = "session"
         /\ Head(req[r].todo) \notin {"user", "spend", "save"} =>
              y.copy = req[r].copy /\ y.epoch = req[r].epoch

LEMMA ContinuesIdle ==
  ASSUME NEW r \in Requests, req[r].todo # <<>>, Refuse(r)
  PROVE  Continues(r, Idle)
BY DEF Refuse, Continues, Idle

LEMMA ContinuesTail ==
  ASSUME Shape, NEW r \in Requests, req[r].todo # <<>>, NEW y, Becomes(r, y),
         y.op = req[r].op, y.token = req[r].token, y.todo = Tail(req[r].todo),
         Head(req[r].todo) \notin {"user", "spend", "save"} =>
           y.copy = req[r].copy /\ y.epoch = req[r].epoch
  PROVE  Continues(r, y)
<1>1. Onward(req[r].todo)
  BY Within, NextStage
<1>2. QED
  BY <1>1 DEF Onward, Continues

LEMMA ContinuesProceed ==
  ASSUME Shape, NEW r \in Requests, req[r].todo # <<>>, Proceed(r)
  PROVE  Continues(r, [req[r] EXCEPT !.todo = Tail(@)])
<1>1. PICK y : y = [req[r] EXCEPT !.todo = Tail(@)]
  OBVIOUS
<1>2. /\ y.op = req[r].op /\ y.token = req[r].token /\ y.todo = Tail(req[r].todo)
      /\ y.copy = req[r].copy /\ y.epoch = req[r].epoch
  BY <1>1, Within DEF RequestRecord
<1>3. Becomes(r, y)
  BY <1>1 DEF Proceed
<1>4. Continues(r, y)
  BY <1>2, <1>3, ContinuesTail
<1>5. QED
  BY <1>1, <1>4

\* As a handler goes on from the user, skipping a round trip or none.
LEMMA ContinuesUser ==
  ASSUME Shape, NEW r \in Requests, ReadUser(r), Admitted(r),
         NEW y, y = [req[r] EXCEPT !.copy = user, !.epoch = changes, !.todo = AfterUser(r)]
  PROVE  Continues(r, y)
<1> DEFINE s == req[r].todo
<1>1. Becomes(r, y) /\ s # <<>> /\ Head(s) = "user"
  BY DEF ReadUser, At
<1>2. Onward(s) /\ NextTrip(s) /\ Placed(req[r].op, s)
  BY <1>1, Within, NextStage DEF GoodRequest
<1>3. Tail(s) \in Stages /\ Tail(s) # <<>>
  BY <1>1, <1>2 DEF Onward, NextTrip
<1>4. Onward(Tail(s)) /\ NextTrip(Tail(s)) /\ Head(s) # "session" /\ Head(s) # "supersede"
  BY <1>1, <1>3, NextStage
<1>5. y.op = req[r].op /\ y.token = req[r].token /\ y.todo = AfterUser(r)
  BY Within DEF RequestRecord
<1>6. y.todo = <<"mail", "save">> => Head(s) = "supersede"
  <2>1. CASE y.todo = <<"use_link">>
    BY <2>1
  <2>2. CASE Skipped(r) /\ y.todo = Tail(Tail(s))
    <3>1. y.todo = <<"mail", "save">> => s \in Mailing
      BY <1>2, <1>4, <2>2 DEF Onward, Mailing
    <3>2. s \notin Mailing
      BY <1>2, <2>2 DEF Placed, Skipped, ByCode
    <3>3. QED
      BY <3>1, <3>2
  <2>3. CASE y.todo = Tail(s)
    BY <1>2, <2>3 DEF Onward
  <2>4. QED
    BY <1>5, <2>1, <2>2, <2>3 DEF AfterUser, Skipped, ByCode
<1>7. y.todo \in Rotating => s \in Rotating
  <2>1. CASE y.todo = <<"use_link">>
    BY <2>1 DEF Rotating
  <2>2. CASE Skipped(r) /\ y.todo = Tail(Tail(s))
    <3>1. y.todo \in Rotating => Tail(s) \in Rotating \/ Head(Tail(s)) = "session"
      BY <1>4, <2>2 DEF Onward
    <3>2. Head(Tail(s)) = "session" => s \in Leaving \/ Tail(s) \in Rotating
      BY <1>2, <1>4 DEF Onward, NextTrip
    <3>3. s \notin Leaving
      BY <1>2, <2>2 DEF Placed, Skipped, ByCode
    <3>4. QED
      BY <1>1, <1>2, <3>1, <3>2, <3>3 DEF Onward
  <2>3. CASE y.todo = Tail(s)
    BY <1>1, <1>2, <2>3 DEF Onward
  <2>4. QED
    BY <1>5, <2>1, <2>2, <2>3 DEF AfterUser, Skipped, ByCode
<1>8. QED
  BY <1>1, <1>5, <1>6, <1>7 DEF Continues

LEMMA Continuing ==
  ASSUME Shape, NEW r \in Requests, Trip(r)
  PROVE  \E y : Continues(r, y)
<1>1. CASE ReadUser(r)
  <2>1. CASE Admitted(r)
    BY <1>1, <2>1, ContinuesUser
  <2>2. CASE ~Admitted(r)
    BY <1>1, <2>2, ContinuesIdle DEF ReadUser, At
  <2>3. QED
    BY <2>1, <2>2
<1>2. CASE ReadSession(r)
  <2>1. CASE Refuse(r)
    BY <1>2, <2>1, ContinuesIdle DEF ReadSession, At
  <2>2. CASE Proceed(r)
    BY <1>2, <2>2, ContinuesProceed DEF ReadSession, At
  <2>3. CASE Becomes(r, [req[r] EXCEPT !.todo = <<"revoke_all">>])
    <3>1. PICK y : y = [req[r] EXCEPT !.todo = <<"revoke_all">>]
      OBVIOUS
    <3>2. /\ y.op = req[r].op /\ y.token = req[r].token /\ y.todo = <<"revoke_all">>
          /\ y.copy = req[r].copy /\ y.epoch = req[r].epoch
      BY <3>1, Within DEF RequestRecord
    <3>3. <<"revoke_all">> # <<"mail", "save">> /\ <<"revoke_all">> \notin Writing \cup Rotating
      BY DEF Writing, Rotating
    <3>4. Continues(r, y)
      BY <1>2, <2>3, <3>1, <3>2, <3>3 DEF Continues, ReadSession, At
    <3>5. QED
      BY <3>4
  <2>4. QED
    BY <1>2, <2>1, <2>2, <2>3, Presented DEF ReadSession
<1>3. CASE ReadLink(r)
  BY <1>3, ContinuesIdle, ContinuesProceed DEF ReadLink, At
<1>4. CASE UseLink(r)
  BY <1>4, ContinuesProceed DEF UseLink, At
<1>5. CASE Spend(r)
  <2>1. PICK y : y = [req[r] EXCEPT !.copy = [req[r].copy EXCEPT !.codes = @ \ {req[r].code}],
                                    !.todo = Tail(@)]
    OBVIOUS
  <2>2. y.op = req[r].op /\ y.token = req[r].token /\ y.todo = Tail(req[r].todo)
    BY <2>1, Within DEF RequestRecord
  <2>3. Becomes(r, y) /\ req[r].todo # <<>> /\ Head(req[r].todo) = "spend"
    BY <1>5, <2>1 DEF Spend, At
  <2>4. QED
    BY <2>2, <2>3, ContinuesTail
<1>6. CASE Save(r)
  <2>1. PICK y : y = [req[r] EXCEPT !.copy = Updated(r), !.todo = Tail(@),
                        !.epoch = IF req[r].op \in NewPassword THEN changes + 1 ELSE @]
    OBVIOUS
  <2>2. y.op = req[r].op /\ y.token = req[r].token /\ y.todo = Tail(req[r].todo)
    BY <2>1, Within DEF RequestRecord
  <2>3. Becomes(r, y) /\ req[r].todo # <<>> /\ Head(req[r].todo) = "save"
    BY <1>6, <2>1 DEF Save, At
  <2>4. QED
    BY <2>2, <2>3, ContinuesTail
<1>7. CASE Supersede(r)
  BY <1>7, ContinuesProceed DEF Supersede, At
<1>8. CASE Mail(r)
  <2>1. PICK y : y = [req[r] EXCEPT !.link = mailed + 1, !.todo = Tail(@)]
    OBVIOUS
  <2>2. /\ y.op = req[r].op /\ y.token = req[r].token /\ y.todo = Tail(req[r].todo)
        /\ y.copy = req[r].copy /\ y.epoch = req[r].epoch
    BY <2>1, Within DEF RequestRecord
  <2>3. Becomes(r, y) /\ req[r].todo # <<>>
    BY <1>8, <2>1 DEF Mail, At
  <2>4. QED
    BY <2>2, <2>3, ContinuesTail
<1>9. CASE RevokeAll(r)
  BY <1>9, ContinuesProceed DEF RevokeAll, At
<1>10. CASE Issue(r)
  <2>1. CASE Refuse(r)
    BY <1>10, <2>1, ContinuesIdle DEF Issue, At
  <2>2. CASE Becomes(r, [req[r] EXCEPT !.new = born + 1, !.todo = Tail(@)])
    <3>1. PICK y : y = [req[r] EXCEPT !.new = born + 1, !.todo = Tail(@)]
      OBVIOUS
    <3>2. /\ y.op = req[r].op /\ y.token = req[r].token /\ y.todo = Tail(req[r].todo)
          /\ y.copy = req[r].copy /\ y.epoch = req[r].epoch
      BY <3>1, Within DEF RequestRecord
    <3>3. Becomes(r, y) /\ req[r].todo # <<>>
      BY <1>10, <2>2, <3>1 DEF Issue, At
    <3>4. QED
      BY <3>2, <3>3, ContinuesTail
  <2>3. QED
    BY <1>10, <2>1, <2>2 DEF Issue, Hand
<1>11. CASE Retire(r)
  BY <1>11, ContinuesIdle DEF Retire, At
<1>12. CASE LoseRequest(r)
  BY <1>12, ContinuesIdle DEF LoseRequest
<1>13. QED
  BY <1>1, <1>2, <1>3, <1>4, <1>5, <1>6, <1>7, <1>8, <1>9, <1>10, <1>11, <1>12 DEF Trip

\* Only a live token goes on to be rotated, and only when its session is read.
LEMMA LiveGoesOn ==
  ASSUME Shape, NEW r \in Requests, ReadSession(r), NEW y, Continues(r, y), y.todo \in Rotating
  PROVE  req[r].token \in Tokens /\ session[req[r].token].status = "live"
<1>1. DOMAIN req = Requests /\ <<>> \notin Rotating /\ <<"revoke_all">> \notin Rotating
  BY Within DEF Rotating
<1>2. req'[r] = y
  BY <1>1, OneMoves DEF Continues
<1>3. ~Refuse(r)
  BY <1>1, <1>2, OneMoves DEF Refuse, Idle
<1>4. ~Becomes(r, [req[r] EXCEPT !.todo = <<"revoke_all">>])
  <2>1. PICK z : z = [req[r] EXCEPT !.todo = <<"revoke_all">>]
    OBVIOUS
  <2>2. z.todo = <<"revoke_all">>
    BY <2>1, Within DEF RequestRecord
  <2>3. ~Becomes(r, z)
    BY <1>1, <1>2, <2>2, OneMoves
  <2>4. QED
    BY <2>1, <2>3
<1>5. QED
  BY <1>3, <1>4, Presented DEF ReadSession

LEMMA NoSessionRead ==
  ASSUME Shape, NEW r \in Requests, Trip(r), ~ReadSession(r), NEW y, Continues(r, y),
         y.todo \in Rotating
  PROVE  req[r].todo \in Rotating
<1>1. CASE LoseRequest(r)
  <2>1. DOMAIN req = Requests /\ <<>> \notin Rotating /\ Idle.todo = <<>>
    BY Within DEF Rotating, Idle
  <2>2. req'[r] = y /\ y.todo # <<>>
    BY <2>1, OneMoves DEF Continues
  <2>3. req'[r] = Idle
    BY <1>1, <2>1, OneMoves DEF LoseRequest, Refuse
  <2>4. QED
    BY <2>1, <2>2, <2>3
<1>2. CASE ~LoseRequest(r)
  <2>1. Head(req[r].todo) # "session"
    BY <1>2
       DEF Trip, ReadUser, ReadLink, UseLink, Spend, Save, Supersede, Mail, RevokeAll, Issue,
           Retire, At
  <2>2. QED
    BY <2>1 DEF Continues, Rotating
<1>3. QED
  BY <1>1, <1>2

\* A step is the start of a request, a round trip of one, or an expiry.
LEMMA StepKinds ==
  ASSUME Next
  PROVE  \/ \E r \in Requests, op \in Ops : Begin(r, op)
         \/ \E r \in Requests : Trip(r)
         \/ Expire
BY DEF Next, Trip

\* A request begins with a copy of nothing, and with nothing to save, mail or retire at once.
BeginsWith(r, op, x) ==
    /\ Becomes(r, x) /\ x.todo # <<>> /\ op \in Happens
    /\ x.op = op /\ x.copy = NewUser /\ x.epoch = 0
    /\ x.todo \notin Writing /\ (op = "refresh" => x.todo \notin Rotating) /\ x.todo # <<"mail", "save">>
    /\ op \notin {"refresh", "logout"} => x.token = NoToken

LEMMA Beginning ==
  ASSUME NEW r \in Requests, NEW op \in Ops, Begin(r, op)
  PROVE  \E x : BeginsWith(r, op, x)
<1>1. PICK j \in IF op \in {"refresh", "logout"} THEN client.refresh ELSE {NoToken},
           l \in IF op \in ByLink THEN {k \in client.inbox : link[k].purpose = Purpose[op]} ELSE {0},
           c \in IF op \in ByCode THEN {Totp} \cup 1..minted ELSE {Totp},
           a \in IF op \in Authenticated THEN {t.version : t \in client.access} ELSE {0} :
        Becomes(r, [Idle EXCEPT !.op = op, !.todo = Script[op], !.token = j, !.link = l,
                                !.code = c, !.access = a])
  BY DEF Begin
<1>2. PICK x : x = [Idle EXCEPT !.op = op, !.todo = Script[op], !.token = j, !.link = l,
                                !.code = c, !.access = a]
  OBVIOUS
<1>3. x.op = op /\ x.todo = Script[op] /\ x.copy = NewUser /\ x.epoch = 0 /\ x.token = j
  BY <1>2 DEF Idle
<1>4. Script[op] \in Unread /\ Script[op] # <<>> /\ (op = "refresh" => Script[op] \notin Rotating)
  BY Scripts
<1>5. Script[op] \notin Writing /\ Script[op] # <<"mail", "save">>
  BY Scripts DEF Writing
<1>6. Becomes(r, x) /\ op \in Happens
  BY <1>1, <1>2 DEF Begin, Event
<1>7. BeginsWith(r, op, x)
  BY <1>1, <1>3, <1>4, <1>5, <1>6 DEF BeginsWith
<1>8. QED
  BY <1>7

LEMMA BeganStep ==
  ASSUME Shape, Began, [Next]_vars
  PROVE  Began'
<1>1. DOMAIN req = Requests
  BY DEF Shape, RequestsGood
<1>2. ASSUME NEW r \in Requests, NEW y, Becomes(r, y),
             y.todo # <<>> => y.op \in Happens \/ y.op = "login"
      PROVE  Began'
  <2>1. req'[r] = (IF y.todo = <<>> THEN Idle ELSE y) /\ \A q \in Requests \ {r} : req'[q] = req[q]
    BY <1>1, <1>2, OneMoves
  <2>2. QED
    BY <1>2, <2>1 DEF Began, Idle
<1>3. ASSUME NEW r \in Requests, NEW op \in Ops, Begin(r, op)
      PROVE  Began'
  BY <1>2, <1>3, Beginning DEF BeginsWith
<1>4. ASSUME NEW r \in Requests, Trip(r)
      PROVE  Began'
  BY <1>2, <1>4, Continuing DEF Continues, Began
<1>5. CASE Expire
  BY <1>5 DEF Expire, Began
<1>6. CASE UNCHANGED vars
  BY <1>6 DEF vars, Began
<1>7. QED
  BY <1>3, <1>4, <1>5, <1>6, StepKinds

-----------------------------------------------------------------------------
(* Versions: what is signed in was signed in since the last change *)

\* At the save of a new password no other request has read the user and is still to save it.
LEMMA NoOtherWriter ==
  ASSUME IsFiniteSet(Requests), OneByOne \/ OneChange, Shape, Began,
         NEW r \in Requests, req[r].op \in NewPassword, req[r].todo \in Writing,
         NEW q \in Requests, req[q].todo \in Writing
  PROVE  q = r
<1>1. CASE OneByOne
  BY <1>1 DEF OneByOne
<1>2. CASE OneChange
  <2>1. SUFFICES ASSUME q # r
                 PROVE  FALSE
    OBVIOUS
  <2>2. req[q].op \in Writers
    BY Within DEF GoodRequest, Placed, WillWrite
  <2>3. req[q].op \in Happens \/ req[q].op = "login"
    BY DEF Began, Writing
  <2>4. req[q].op \in NewPassword
    BY <1>2, <2>2, <2>3 DEF OneChange, Writers
  <2>5. {r, q} \subseteq Pending
    BY <2>4 DEF Pending
  <2>6. IsFiniteSet(Pending) /\ Cardinality(Pending) \in Nat
    BY Waiting
  <2>7. Cardinality({r, q}) = 2
    <3>1. IsFiniteSet({r}) /\ Cardinality({r}) = 1
      BY FS_Singleton
    <3>2. Cardinality({r} \cup {q}) = 2
      <4> DEFINE S == {r}
      <4>1. IsFiniteSet(S) /\ Cardinality(S) = 1 /\ q \notin S
        BY <2>1, <3>1
      <4> HIDE DEF S
      <4>2. Cardinality(S \cup {q}) = Cardinality(S) + 1
        BY <4>1, FS_AddElement
      <4>3. Cardinality(S \cup {q}) = 2
        BY <4>1, <4>2
      <4>4. QED
        BY <4>3 DEF S
    <3>3. {r, q} = {r} \cup {q}
      OBVIOUS
    <3>4. QED
      BY <3>2, <3>3
  <2>8. 2 <= Cardinality(Pending)
    BY <2>5, <2>6, <2>7, FS_Subset
  <2>9. begun \in Nat /\ begun <= 1 /\ changes \in Nat
    BY <1>2, SessionBounds DEF Shape, CountsGood, UserGood, OneChange
  <2>10. QED
    BY <2>6, <2>8, <2>9 DEF Shape, CountsGood
<1>3. QED
  BY <1>1, <1>2

\* The request that moves has a true copy, and nothing changed for the others.
LEMMA CopyMoves ==
  ASSUME Shape, CopiesTrue, NEW r \in Requests, NEW y, Becomes(r, y),
         y.todo # <<>> => y.copy.version = y.epoch /\ (y.todo \in Writing => y.epoch = changes'),
         \A q \in Requests \ {r} : req[q].todo \in Writing => changes' = changes
  PROVE  CopiesTrue'
<1>1. req'[r] = (IF y.todo = <<>> THEN Idle ELSE y) /\ \A q \in Requests \ {r} : req'[q] = req[q]
  BY OneMoves DEF Shape, RequestsGood
<1>2. Idle.copy.version = 0 /\ Idle.epoch = 0 /\ Idle.todo \notin Writing
  BY DEF Idle, NewUser, Writing
<1>3. QED
  BY <1>1, <1>2 DEF CopiesTrue

\* A step that reads and saves no user.
LEMMA CopyStays ==
  ASSUME Shape, CopiesTrue, NEW r \in Requests, Trip(r), ~ReadUser(r), ~Spend(r), ~Save(r)
  PROVE  CopiesTrue'
<1>1. changes' = changes
  BY DEF Trip, ReadSession, ReadLink, UseLink, Supersede, Mail, RevokeAll, Issue, Retire,
     LoseRequest, ghosts
<1>2. CASE LoseRequest(r)
  BY <1>1, <1>2, CopyMoves DEF LoseRequest, Refuse, Idle
<1>3. CASE ~LoseRequest(r)
  <2>1. PICK y : Continues(r, y)
    BY Continuing
  <2>2. Head(req[r].todo) \notin {"user", "spend", "save"}
    BY <1>3
       DEF Trip, ReadSession, ReadLink, UseLink, Supersede, Mail, RevokeAll, Issue, Retire, At
  <2>3. QED
    BY <1>1, <2>1, <2>2, CopyMoves DEF Continues, CopiesTrue
<1>4. QED
  BY <1>2, <1>3

LEMMA SpendVersion ==
  ASSUME Shape, CopiesTrue, user.version = changes, NEW r \in Requests, Spend(r)
  PROVE  user'.version = changes' /\ CopiesTrue'
<1>1. PICK left : left = [req[r].copy EXCEPT !.codes = @ \ {req[r].code}]
  OBVIOUS
<1>2. PICK y : y = [req[r] EXCEPT !.copy = left, !.todo = Tail(@)]
  OBVIOUS
<1>3. Becomes(r, y) /\ user' = left /\ changes' = changes /\ At(r, "spend")
  BY <1>1, <1>2 DEF Spend
<1>4. req[r].todo \in Writing
  BY <1>3, Within, NextStage DEF At, NextTrip
<1>5. req[r].copy.version = req[r].epoch /\ req[r].epoch = changes
  BY <1>4 DEF CopiesTrue
<1>6. left.version = req[r].copy.version
  BY <1>1, Within DEF UserRecord
<1>7. y.copy = left /\ y.epoch = req[r].epoch
  BY <1>2, Within DEF RequestRecord
<1>8. CopiesTrue'
  BY <1>3, <1>5, <1>6, <1>7, CopyMoves
<1>9. QED
  BY <1>3, <1>5, <1>6, <1>8

LEMMA SaveVersion ==
  ASSUME IsFiniteSet(Requests), OneByOne \/ OneChange, Shape, Began, CopiesTrue,
         NEW r \in Requests, Save(r)
  PROVE  user'.version = changes' /\ CopiesTrue'
<1>1. PICK y : y = [req[r] EXCEPT !.copy = Updated(r), !.todo = Tail(@),
                      !.epoch = IF req[r].op \in NewPassword THEN changes + 1 ELSE @]
  OBVIOUS
<1>2. /\ Becomes(r, y) /\ user' = Updated(r) /\ At(r, "save")
      /\ changes' = IF req[r].op \in NewPassword THEN changes + 1 ELSE changes
  BY <1>1 DEF Save
<1>3. NextTrip(req[r].todo) /\ req[r].todo \in Writing /\ Tail(req[r].todo) \notin Writing
  BY <1>2, Within, NextStage DEF At, NextTrip
<1>4. req[r].copy.version = req[r].epoch /\ req[r].epoch = changes
  BY <1>3 DEF CopiesTrue
<1>5. Updated(r).version = changes'
  BY <1>2, <1>4 DEF Updated
<1>6. /\ y.copy = Updated(r) /\ y.todo = Tail(req[r].todo)
      /\ y.epoch = IF req[r].op \in NewPassword THEN changes + 1 ELSE req[r].epoch
  BY <1>1, Within DEF RequestRecord
<1>7. ASSUME NEW q \in Requests \ {r}, req[q].todo \in Writing
      PROVE  changes' = changes
  BY <1>2, <1>3, <1>7, NoOtherWriter
<1>8. CopiesTrue'
  BY <1>2, <1>3, <1>4, <1>5, <1>6, <1>7, CopyMoves
<1>9. QED
  BY <1>2, <1>5, <1>8

LEMMA ReadUserVersion ==
  ASSUME Shape, CopiesTrue, user.version = changes, NEW r \in Requests, ReadUser(r)
  PROVE  user'.version = changes' /\ CopiesTrue'
<1>1. user' = user /\ changes' = changes
  BY DEF ReadUser, ghosts
<1>2. CASE Refuse(r)
  BY <1>1, <1>2, CopyMoves DEF Refuse, Idle
<1>3. CASE Becomes(r, [req[r] EXCEPT !.copy = user, !.epoch = changes, !.todo = AfterUser(r)])
  <2>1. PICK y : y = [req[r] EXCEPT !.copy = user, !.epoch = changes, !.todo = AfterUser(r)]
    OBVIOUS
  <2>2. y.copy = user /\ y.epoch = changes
    BY <2>1, Within DEF RequestRecord
  <2>3. Becomes(r, y)
    BY <1>3, <2>1
  <2>4. QED
    BY <1>1, <2>2, <2>3, CopyMoves
<1>4. QED
  BY <1>2, <1>3 DEF ReadUser

LEMMA BeginVersion ==
  ASSUME Shape, CopiesTrue, user.version = changes, NEW r \in Requests, NEW op \in Ops, Begin(r, op)
  PROVE  user'.version = changes' /\ CopiesTrue'
<1>1. user' = user /\ changes' = changes
  BY DEF Begin, ghosts
<1>2. PICK x : BeginsWith(r, op, x)
  BY Beginning
<1>3. Becomes(r, x) /\ x.copy.version = x.epoch /\ x.todo \notin Writing
  BY <1>2 DEF BeginsWith, NewUser
<1>4. QED
  BY <1>1, <1>3, CopyMoves

\* The claims of a new pair are those of the request that is answered with it.
LEMMA AnswerClaims ==
  ASSUME CopiesTrue, ClaimsTrue, NEW r \in Requests, NEW j, Shape, Answer(r, j, req[r].copy.version)
  PROVE  \A a \in client'.access : a.version = a.epoch
<1>1. req[r].copy.version = req[r].epoch
  BY DEF CopiesTrue
<1>2. CASE client' = client
  BY <1>2 DEF ClaimsTrue
<1>3. CASE client' = [client EXCEPT !.refresh = @ \cup {j},
                        !.access = @ \cup {[version |-> req[r].copy.version, epoch |-> req[r].epoch]}]
  <2>1. client'.access = client.access \cup {[version |-> req[r].copy.version, epoch |-> req[r].epoch]}
    BY <1>3 DEF Shape, ClientGood, ClientRecord
  <2>2. QED
    BY <1>1, <2>1 DEF ClaimsTrue
<1>4. QED
  BY <1>2, <1>3 DEF Answer

\* Sessions only end: they are revoked, or expire.
Fading ==
    \A j \in Tokens : /\ session'[j].version = session[j].version /\ session'[j].epoch = session[j].epoch
                      /\ session'[j].status = "live" => session[j].status = "live"
                      /\ session'[j].status = "revoked" \/ session'[j].status = session[j].status
                      /\ session[j].expired => session'[j].expired

LEMMA FadingSteps ==
  ASSUME Shape, [Next]_vars, ~(\E r \in Requests : Issue(r))
  PROVE  Fading
<1>1. session \in [Tokens -> SessionRecord]
  BY DEF Shape, SessionsGood
<1>2. CASE UNCHANGED session
  BY <1>2 DEF Fading
<1>3. ASSUME NEW r \in Requests, Retire(r)
      PROVE  Fading
  <2>1. session' = [session EXCEPT ![req[r].token].status = "revoked"]
    BY <1>3 DEF Retire
  <2>2. QED
    BY <1>1, <2>1 DEF Fading, SessionRecord
<1>4. ASSUME NEW r \in Requests, RevokeAll(r)
      PROVE  Fading
  <2>1. session' = [j \in Tokens |-> IF session[j].status = "live"
                                      THEN [session[j] EXCEPT !.status = "revoked"] ELSE session[j]]
    BY <1>4 DEF RevokeAll
  <2>2. QED
    BY <1>1, <2>1 DEF Fading, SessionRecord
<1>5. CASE Expire
  BY <1>1, <1>2, <1>5 DEF Expire, Fading, SessionRecord
<1>6. ASSUME NEW r \in Requests, Trip(r), ~Retire(r), ~RevokeAll(r)
      PROVE  UNCHANGED session
  BY <1>6
     DEF Trip, ReadUser, ReadSession, ReadLink, UseLink, Spend, Save, Supersede, Mail, LoseRequest
<1>7. ASSUME NEW r \in Requests, NEW op \in Ops, Begin(r, op)
      PROVE  UNCHANGED session
  BY <1>7 DEF Begin
<1>8. UNCHANGED vars => UNCHANGED session
  BY DEF vars
<1>9. QED
  BY <1>2, <1>3, <1>4, <1>5, <1>6, <1>7, <1>8, StepKinds

LEMMA IssueClaims ==
  ASSUME Shape, CopiesTrue, ClaimsTrue, NEW r \in Requests, Issue(r)
  PROVE  ClaimsTrue'
<1>1. /\ Hand(r) /\ born < MaxTokens
      /\ session' = [session EXCEPT ![born + 1] =
                       [NoSession EXCEPT !.status = "live", !.version = req[r].copy.version,
                                         !.epoch = req[r].epoch, !.parent = req[r].token]]
  BY DEF Issue, Mint
<1>2. req[r].copy.version = req[r].epoch /\ session \in [Tokens -> SessionRecord]
  BY DEF CopiesTrue, Shape, SessionsGood
<1>3. ASSUME NEW j \in Tokens
      PROVE  session'[j].version = session'[j].epoch
  <2>1. PICK row : row = [NoSession EXCEPT !.status = "live", !.version = req[r].copy.version,
                                           !.epoch = req[r].epoch, !.parent = req[r].token]
    OBVIOUS
  <2>2. row.version = row.epoch
    BY <1>2, <2>1 DEF NoSession
  <2>3. session' = [session EXCEPT ![born + 1] = row]
    BY <1>1, <2>1
  <2>4. QED
    BY <1>2, <2>2, <2>3 DEF ClaimsTrue
<1>4. \A a \in client'.access : a.version = a.epoch
  <2>1. CASE UNCHANGED <<client, given, events>>
    BY <2>1 DEF ClaimsTrue
  <2>2. CASE Answer(r, born + 1, req[r].copy.version)
    BY <2>2, AnswerClaims
  <2>3. QED
    BY <1>1, <2>1, <2>2 DEF Hand
<1>5. QED
  BY <1>3, <1>4 DEF ClaimsTrue

LEMMA ClaimsStay ==
  ASSUME Shape, CopiesTrue, ClaimsTrue, [Next]_vars
  PROVE  ClaimsTrue'
<1>1. ASSUME NEW r \in Requests, Issue(r)
      PROVE  ClaimsTrue'
  BY <1>1, IssueClaims
<1>2. CASE ~(\E r \in Requests : Issue(r))
  <2>1. \A j \in Tokens : session'[j].version = session'[j].epoch
    BY <1>2, FadingSteps DEF Fading, ClaimsTrue
  <2>2. ASSUME client'.access = client.access
        PROVE  \A a \in client'.access : a.version = a.epoch
    BY <2>2 DEF ClaimsTrue
  <2>3. ASSUME NEW r \in Requests, NEW op \in Ops, Begin(r, op)
        PROVE  client'.access = client.access
    BY <2>3 DEF Begin
  <2>4. ASSUME NEW r \in Requests, Trip(r), ~Retire(r), ~Issue(r)
        PROVE  client'.access = client.access
    <3>1. \/ client' = client
          \/ client' = [client EXCEPT !.challenge = TRUE]
          \/ client' = [client EXCEPT !.inbox = @ \cup {req[r].link}]
          \/ client' = [client EXCEPT !.inbox = @ \cup {mailed + 1}]
      BY <2>4
         DEF Trip, ReadUser, ReadSession, ReadLink, UseLink, Spend, Save, Supersede, Mail,
             RevokeAll, LoseRequest
    <3>2. QED
      BY <3>1 DEF Shape, ClientGood, ClientRecord
  <2>5. ASSUME NEW r \in Requests, Retire(r)
        PROVE  \A a \in client'.access : a.version = a.epoch
    BY <2>2, <2>5, AnswerClaims DEF Retire
  <2>6. Expire \/ UNCHANGED vars => client'.access = client.access
    BY DEF Expire, vars
  <2>7. \A a \in client'.access : a.version = a.epoch
    BY <1>2, <2>2, <2>3, <2>4, <2>5, <2>6, StepKinds
  <2>8. QED
    BY <2>1, <2>7 DEF ClaimsTrue
<1>3. QED
  BY <1>1, <1>2

LEMMA VersionStep ==
  ASSUME IsFiniteSet(Requests), OneByOne \/ OneChange, Shape, Began, VersionInv, [Next]_vars
  PROVE  VersionInv'
<1>1. user.version = changes /\ CopiesTrue /\ ClaimsTrue
  BY DEF VersionInv
<1>2. ClaimsTrue'
  BY <1>1, ClaimsStay
<1>3. user'.version = changes' /\ CopiesTrue'
  <2>1. ASSUME NEW r \in Requests, NEW op \in Ops, Begin(r, op)
        PROVE  user'.version = changes' /\ CopiesTrue'
    BY <1>1, <2>1, BeginVersion
  <2>2. ASSUME NEW r \in Requests, Trip(r)
        PROVE  user'.version = changes' /\ CopiesTrue'
    <3>1. CASE ReadUser(r)
      BY <1>1, <3>1, ReadUserVersion
    <3>2. CASE Spend(r)
      BY <1>1, <3>2, SpendVersion
    <3>3. CASE Save(r)
      BY <1>1, <3>3, SaveVersion
    <3>4. CASE ~ReadUser(r) /\ ~Spend(r) /\ ~Save(r)
      <4>1. user' = user /\ changes' = changes
        BY <2>2, <3>4
           DEF Trip, ReadSession, ReadLink, UseLink, Supersede, Mail, RevokeAll, Issue, Retire,
               LoseRequest, ghosts
      <4>2. QED
        BY <1>1, <2>2, <3>4, <4>1, CopyStays
    <3>5. QED
      BY <3>1, <3>2, <3>3, <3>4
  <2>3. CASE UNCHANGED <<user, req, changes>>
    BY <1>1, <2>3 DEF CopiesTrue
  <2>4. Expire \/ UNCHANGED vars => UNCHANGED <<user, req, changes>>
    BY DEF Expire, vars, ghosts
  <2>5. QED
    BY <2>1, <2>2, <2>3, <2>4, StepKinds
<1>4. QED
  BY <1>2, <1>3 DEF VersionInv

LEMMA InitVersion ==
  ASSUME IsFiniteSet(Requests), Init
  PROVE  Began /\ VersionInv
<1>1. /\ session = [j \in Tokens |-> NoSession] /\ client.access = {}
      /\ req = [r \in Requests |-> Idle] /\ changes = 0
  BY DEF Init
<1>2. user.version = 0
  <2>1. NewUser.version = 0 /\ [NewUser EXCEPT !.verified = TRUE].version = 0
    BY DEF NewUser
  <2>2. [NewUser EXCEPT !.verified = TRUE, !.twofa = "on", !.codes = 1..CodesPerSetup].version = 0
    BY DEF NewUser
  <2>3. QED
    BY <2>1, <2>2, Zenon DEF Init, Registered, Verified, Enrolled
<1>3. QED
  BY <1>1, <1>2 DEF Began, VersionInv, CopiesTrue, ClaimsTrue, Idle, NewUser, NoSession, Writing

LEMMA Versioned ==
  ASSUME IsFiniteSet(Requests), OneByOne \/ OneChange
  PROVE  Spec => [](Shape /\ Began /\ VersionInv)
<1>1. Init => Shape /\ Began /\ VersionInv
  BY InitShape, InitVersion
<1>2. Shape /\ Began /\ VersionInv /\ [Next]_vars => (Shape /\ Began /\ VersionInv)'
  BY KeepsShape, BeganStep, VersionStep
<1>3. QED
  BY <1>1, <1>2, PTL DEF Spec

\* Whatever is signed in read the user after the last change of its password: with every request
\* served one at a time, and while one change runs alongside requests that save no user.
THEOREM ChangeSignsOutAlways ==
  ASSUME IsFiniteSet(Requests), OneByOne \/ OneChange
  PROVE  Spec => []ChangeSignsOut
<1>1. VersionInv => ChangeSignsOut
  BY DEF VersionInv, ClaimsTrue, ChangeSignsOut, Works
<1>2. QED
  BY <1>1, Versioned, PTL

\* The count of changes never falls.
LEMMA ChangesGrow ==
  ASSUME Shape, [Next]_vars
  PROVE  changes \in Nat /\ changes' \in Nat /\ changes <= changes'
<1>1. changes \in Nat
  BY DEF Shape, UserGood
<1>2. ASSUME NEW r \in Requests, Trip(r)
      PROVE  changes' = changes \/ changes' = changes + 1
  BY <1>2
     DEF Trip, ReadUser, ReadSession, ReadLink, UseLink, Spend, Save, Supersede, Mail, RevokeAll,
         Issue, Retire, LoseRequest, ghosts
<1>3. ASSUME NEW r \in Requests, NEW op \in Ops, Begin(r, op)
      PROVE  changes' = changes
  BY <1>3 DEF Begin, ghosts
<1>4. Expire \/ UNCHANGED vars => changes' = changes
  BY DEF Expire, vars, ghosts
<1>5. QED
  BY <1>1, <1>2, <1>3, <1>4, StepKinds

\* No step lets a refresh token work that did not work before.
LEMMA StaysOutStep ==
  ASSUME Shape, VersionInv, VersionInv', [Next]_vars, NEW j \in 1..born, Works(j)'
  PROVE  Works(j)
<1>1. j \in Tokens /\ j # born + 1 /\ session \in [Tokens -> SessionRecord]
  BY SessionBounds DEF Shape, SessionsGood, Tokens
<1>2. session[j].version \in Nat /\ session[j].version <= changes /\ session[j].expired \in BOOLEAN
  BY <1>1 DEF Shape, SessionsGood, SessionRecord
<1>3. /\ session'[j].status = "live" /\ ~session'[j].expired /\ session'[j].version = user'.version
  BY DEF Works
<1>4. /\ session'[j].version = session[j].version
      /\ session'[j].status = "live" => session[j].status = "live"
      /\ session[j].expired => session'[j].expired
  <2>1. CASE \E r \in Requests : Issue(r)
    <3>1. session'[j] = session[j]
      BY <1>1, <2>1 DEF Issue, Mint
    <3>2. QED
      BY <3>1
  <2>2. CASE ~(\E r \in Requests : Issue(r))
    BY <1>1, <2>2, FadingSteps DEF Fading
  <2>3. QED
    BY <2>1, <2>2
<1>5. session[j].version = changes'
  BY <1>3, <1>4 DEF VersionInv
<1>6. session[j].version = user.version
  BY <1>2, <1>5, ChangesGrow DEF VersionInv
<1>7. QED
  BY <1>2, <1>3, <1>4, <1>6 DEF Works

\* A token that stopped working, by rotation, logout, change or reset, never works again.
THEOREM StaysSignedOutEver ==
  ASSUME IsFiniteSet(Requests), OneByOne \/ OneChange
  PROVE  Spec => StaysSignedOut
<1>1. Shape /\ VersionInv /\ VersionInv' /\ [Next]_vars => [\A j \in 1..born : Works(j)' => Works(j)]_vars
  BY StaysOutStep
<1>2. QED
  BY <1>1, Versioned, PTL DEF Spec, StaysSignedOut

-----------------------------------------------------------------------------
(* Links: only the newest of its purpose is unused *)

LEMMA TheOne ==
  ASSUME OneByOne, NEW r \in Requests, NEW q \in Requests
  PROVE  q = r
BY DEF OneByOne

OnlyUsed(l) ==
    /\ link'[l].purpose = link[l].purpose
    /\ link'[l].status = "unused" => link[l].status = "unused"

\* Links are only used up, and a request that is going to make one was going to before.
LEMMA LinksUsedUp ==
  ASSUME LinksInv, mailed' = mailed,
         \A l \in Links : OnlyUsed(l),
         \A q \in Requests : req'[q].todo = <<"mail", "save">> =>
            req[q].todo = <<"mail", "save">> /\ req[q].op = req'[q].op,
         mailed \in 1..MaxLinks
  PROVE  LinksInv'
<1>1. \A l \in Links : \A k \in (l + 1)..mailed : k \in Links
  BY SessionBounds DEF Links
<1>2. NewestLinkOnly'
  BY <1>1 DEF LinksInv, NewestLinkOnly, OnlyUsed
<1>3. QED
  BY <1>2 DEF LinksInv, OnlyUsed

LEMMA SupersedeLinks ==
  ASSUME OneByOne, Shape, LinksInv, NEW r \in Requests, Supersede(r)
  PROVE  LinksInv'
<1>1. /\ mailed' = mailed
      /\ link' = [l \in Links |->
                    IF link[l].purpose = Purpose[req[r].op] /\ link[l].status = "unused"
                      THEN [link[l] EXCEPT !.status = "used"] ELSE link[l]]
      /\ At(r, "supersede") /\ Proceed(r)
  BY DEF Supersede
<1>2. link \in [Links -> LinkRecord] /\ mailed \in 1..MaxLinks
  BY DEF Shape, LinksGood
<1>3. ASSUME NEW l \in Links
      PROVE  /\ link'[l].purpose = link[l].purpose
             /\ link'[l].status = "unused" => link[l].status = "unused"
             /\ link'[l].purpose = Purpose[req[r].op] => link'[l].status # "unused"
  BY <1>1, <1>2 DEF LinkRecord
<1>4. \A l \in Links : \A k \in (l + 1)..mailed : k \in Links
  BY <1>2, SessionBounds DEF Links
<1>5. NewestLinkOnly'
  BY <1>1, <1>3, <1>4 DEF LinksInv, NewestLinkOnly
<1>6. req'[r].todo = <<"mail", "save">> => req'[r].op = req[r].op
  <2>1. PICK y : y = [req[r] EXCEPT !.todo = Tail(@)]
    OBVIOUS
  <2>2. y.op = req[r].op
    BY <2>1, Within DEF RequestRecord
  <2>3. Becomes(r, y)
    BY <1>1, <2>1 DEF Proceed
  <2>4. QED
    <3>1. SUFFICES ASSUME req'[r].todo = <<"mail", "save">>
                   PROVE  req'[r].op = req[r].op
      OBVIOUS
    <3>2. DOMAIN req = Requests /\ req'[r].todo # <<>>
      BY <3>1, Within
    <3>3. QED
      BY <2>2, <2>3, <3>2, StillGoing
<1>7. QED
  BY <1>3, <1>5, <1>6, TheOne DEF LinksInv

LEMMA MailLinks ==
  ASSUME OneByOne, Shape, LinksInv, NEW r \in Requests, Mail(r)
  PROVE  LinksInv'
<1>1. PICK row : row = [NoLink EXCEPT !.purpose = Purpose[req[r].op], !.status = "unused"]
  OBVIOUS
<1>2. row.purpose = Purpose[req[r].op]
  BY <1>1 DEF NoLink
<1>3. /\ At(r, "mail") /\ mailed' = mailed + 1 /\ mailed < MaxLinks
      /\ link' = [link EXCEPT ![mailed + 1] = row]
  BY <1>1 DEF Mail
<1>4. req[r].todo = <<"mail", "save">>
  BY <1>3, Within, NextStage DEF At, NextTrip
<1>5. link \in [Links -> LinkRecord] /\ mailed \in 1..MaxLinks /\ mailed + 1 \in Links
  BY <1>3, SessionBounds DEF Shape, LinksGood, Links
<1>6. ASSUME NEW l \in Links, link'[l].status = "unused", NEW k \in (l + 1)..mailed'
      PROVE  link'[k].purpose # link'[l].purpose
  <2>1. l \in Nat /\ l # mailed + 1 /\ link'[l] = link[l]
    BY <1>3, <1>5, <1>6, SessionBounds DEF Links
  <2>2. CASE k = mailed + 1
    BY <1>2, <1>3, <1>4, <1>5, <1>6, <2>1, <2>2 DEF LinksInv
  <2>3. CASE k # mailed + 1
    <3>1. k \in (l + 1)..mailed /\ link'[k] = link[k]
      BY <1>3, <1>5, <2>1, <2>3, SessionBounds DEF Links
    <3>2. QED
      BY <1>6, <2>1, <3>1 DEF LinksInv, NewestLinkOnly
  <2>4. QED
    BY <2>2, <2>3
<1>7. NewestLinkOnly'
  BY <1>6 DEF NewestLinkOnly
<1>8. req'[r].todo # <<"mail", "save">>
  <2>1. PICK y : Continues(r, y)
    BY Continuing DEF Trip
  <2>2. QED
    <3>1. SUFFICES ASSUME req'[r].todo = <<"mail", "save">>
                   PROVE  FALSE
      OBVIOUS
    <3>2. DOMAIN req = Requests /\ req'[r].todo # <<>>
      BY <3>1, Within
    <3>3. req'[r] = y /\ y.todo # <<>>
      BY <2>1, <3>2, StillGoing DEF Continues
    <3>4. QED
      BY <1>3, <2>1, <3>1, <3>3 DEF Continues, At
<1>9. QED
  BY <1>7, <1>8, TheOne DEF LinksInv

LEMMA LinksStep ==
  ASSUME OneByOne, Shape, LinksInv, [Next]_vars
  PROVE  LinksInv'
<1>1. link \in [Links -> LinkRecord] /\ mailed \in 1..MaxLinks /\ DOMAIN req = Requests
  BY DEF Shape, LinksGood, RequestsGood
<1>2. ASSUME NEW r \in Requests, NEW op \in Ops, Begin(r, op)
      PROVE  LinksInv'
  <2>1. PICK x : BeginsWith(r, op, x)
    BY <1>2, Beginning
  <2>2. req'[r].todo # <<"mail", "save">>
    BY <1>1, <2>1, OneMoves DEF BeginsWith
  <2>3. UNCHANGED <<link, mailed>>
    BY <1>2 DEF Begin
  <2>4. QED
    BY <1>1, <2>2, <2>3, TheOne, LinksUsedUp DEF OnlyUsed
<1>3. ASSUME NEW r \in Requests, Trip(r)
      PROVE  LinksInv'
  <2>1. CASE Supersede(r)
    BY <2>1, SupersedeLinks
  <2>2. CASE Mail(r)
    BY <2>2, MailLinks
  <2>3. CASE ~Supersede(r) /\ ~Mail(r)
    <3>1. /\ mailed' = mailed
          /\ link' = link \/ link' = [link EXCEPT ![req[r].link].status = "used"]
      BY <1>3, <2>3
         DEF Trip, ReadUser, ReadSession, ReadLink, UseLink, Spend, Save, RevokeAll, Issue,
             Retire, LoseRequest
    <3>2. \A l \in Links : OnlyUsed(l)
      BY <1>1, <3>1 DEF LinkRecord, OnlyUsed
    <3>3. req'[r].todo # <<"mail", "save">>
      <4>1. CASE LoseRequest(r)
        BY <1>1, <4>1, OneMoves DEF LoseRequest, Refuse, Idle
      <4>2. CASE ~LoseRequest(r)
        <5>1. PICK y : Continues(r, y)
          BY <1>3, Continuing
        <5>2. Head(req[r].todo) # "supersede"
          BY <1>3, <2>3, <4>2
             DEF Trip, ReadUser, ReadSession, ReadLink, UseLink, Spend, Save, RevokeAll, Issue,
                 Retire, At
        <5>3. QED
          BY <1>1, <5>1, <5>2, StillGoing DEF Continues
      <4>3. QED
        BY <4>1, <4>2
    <3>4. QED
      BY <1>1, <3>1, <3>2, <3>3, TheOne, LinksUsedUp
  <2>4. QED
    BY <2>1, <2>2, <2>3
<1>4. CASE Expire
  <2>1. UNCHANGED <<mailed, req>> /\ \/ link' = link
                                     \/ \E l \in 1..mailed : link' = [link EXCEPT ![l].expired = TRUE]
    BY <1>4 DEF Expire
  <2>2. \A l \in Links : OnlyUsed(l)
    BY <1>1, <2>1 DEF LinkRecord, OnlyUsed
  <2>3. QED
    BY <1>1, <2>1, <2>2, LinksUsedUp
<1>5. CASE UNCHANGED vars
  BY <1>1, <1>5, LinksUsedUp DEF vars, OnlyUsed
<1>6. QED
  BY <1>2, <1>3, <1>4, <1>5, StepKinds

\* With requests served one at a time, only the newest link of a purpose can be used.
THEOREM NewestLinkAlways ==
  ASSUME IsFiniteSet(Requests), OneByOne
  PROVE  Spec => []NewestLinkOnly
<1>1. Init => LinksInv
  <2>1. SUFFICES ASSUME Init
                 PROVE  LinksInv
    OBVIOUS
  <2>2. mailed = 1 /\ req = [r \in Requests |-> Idle]
    BY <2>1 DEF Init
  <2>3. \A l \in Links : (l + 1)..mailed = {}
    BY <2>2, SessionBounds DEF Links
  <2>4. QED
    BY <2>2, <2>3 DEF LinksInv, NewestLinkOnly, Idle
<1>2. Shape /\ LinksInv /\ [Next]_vars => LinksInv'
  BY LinksStep
<1>3. LinksInv => NewestLinkOnly
  BY DEF LinksInv
<1>4. QED
  BY <1>1, <1>2, <1>3, Shaped, PTL DEF Spec

-----------------------------------------------------------------------------
(* Backup codes: one lets its owner in once *)

\* The one request goes on with the codes of the document, if it is still to save it.
LEMMA CodesMove ==
  ASSUME OneByOne, Shape, NEW r \in Requests, NEW y, Becomes(r, y),
         y.todo \in Writing => y.copy.codes = user'.codes,
         \A c \in Codes : accepted'[c] <= 1 /\ (c \in user'.codes \/ c > minted' => accepted'[c] = 0)
  PROVE  CodesInv'
<1>1. <<>> \notin Writing /\ DOMAIN req = Requests
  BY Within DEF Writing
<1>2. req'[r].todo \in Writing => req'[r].copy.codes = user'.codes
  BY <1>1, StillGoing
<1>3. QED
  BY <1>2, TheOne DEF CodesInv, CodeOnce

LEMMA SpendCodes ==
  ASSUME OneByOne, Shape, CodesInv, NEW r \in Requests, Spend(r)
  PROVE  CodesInv'
<1> DEFINE code == req[r].code
<1>1. PICK left : left = [req[r].copy EXCEPT !.codes = @ \ {req[r].code}]
  OBVIOUS
<1>2. PICK y : y = [req[r] EXCEPT !.copy = left, !.todo = Tail(@)]
  OBVIOUS
<1>3. /\ Becomes(r, y) /\ user' = left /\ minted' = minted /\ At(r, "spend")
      /\ accepted' = [accepted EXCEPT ![req[r].code] = @ + 1]
  BY <1>1, <1>2 DEF Spend
<1>4. req[r].todo \in Writing /\ req[r].todo \in Spending
  BY <1>3, Within, NextStage DEF At, NextTrip
<1>5. left.codes = req[r].copy.codes \ {code} /\ y.copy = left
  BY <1>1, <1>2, Within DEF UserRecord, RequestRecord
<1>6. /\ req[r].copy.codes = user.codes /\ code \in user.codes
      /\ user.codes \subseteq 1..minted /\ minted \in 0..MaxCodes /\ accepted \in [Codes -> Nat]
  BY <1>4, Within DEF CodesInv, GoodRequest, Holding, Shape, UserGood, GoodUser, CountsGood
<1>7. code \in Codes /\ code <= minted /\ accepted[code] = 0
  BY <1>6, SessionBounds DEF CodesInv, Codes
<1>8. ASSUME NEW c \in Codes
      PROVE  accepted'[c] <= 1 /\ (c \in user'.codes \/ c > minted' => accepted'[c] = 0)
  <2>1. CASE c = code
    BY <1>3, <1>5, <1>6, <1>7, <2>1
  <2>2. CASE c # code
    BY <1>3, <1>5, <1>6, <2>2 DEF CodesInv, CodeOnce
  <2>3. QED
    BY <2>1, <2>2
<1>9. QED
  BY <1>3, <1>5, <1>8, CodesMove

LEMMA SaveCodes ==
  ASSUME OneByOne, Shape, CodesInv, NEW r \in Requests, Save(r)
  PROVE  CodesInv'
<1>1. PICK y : y = [req[r] EXCEPT !.copy = Updated(r), !.todo = Tail(@),
                      !.epoch = IF req[r].op \in NewPassword THEN changes + 1 ELSE @]
  OBVIOUS
<1>2. /\ Becomes(r, y) /\ user' = Updated(r) /\ accepted' = accepted /\ At(r, "save")
      /\ minted' = IF req[r].op = "enable_2fa" THEN minted + CodesPerSetup ELSE minted
  BY <1>1 DEF Save
<1>3. req[r].todo \in Writing /\ Tail(req[r].todo) \notin Writing
  BY <1>2, Within, NextStage DEF At, NextTrip
<1>4. y.todo \notin Writing
  BY <1>1, <1>3, Within DEF RequestRecord
<1>5. req[r].copy.codes = user.codes /\ minted \in Nat /\ CodesPerSetup \in Nat
  BY <1>3, SessionBounds DEF CodesInv, Shape, UserGood
<1>6. ASSUME NEW c \in Codes, c \in user'.codes \/ c > minted'
      PROVE  c \in user.codes \/ c > minted
  <2>1. c \in Nat
    BY SessionBounds DEF Codes
  <2>2. CASE req[r].op = "enable_2fa"
    BY <1>2, <1>5, <1>6, <2>1, <2>2 DEF Updated
  <2>3. CASE req[r].op # "enable_2fa"
    BY <1>2, <1>5, <1>6, <2>3 DEF Updated
  <2>4. QED
    BY <2>2, <2>3
<1>7. QED
  BY <1>2, <1>4, <1>6, CodesMove DEF CodesInv, CodeOnce

LEMMA CodesStep ==
  ASSUME OneByOne, Shape, CodesInv, [Next]_vars
  PROVE  CodesInv'
<1>1. Idle.todo \notin Writing
  BY DEF Idle, Writing
<1>2. ASSUME NEW r \in Requests, NEW op \in Ops, Begin(r, op)
      PROVE  CodesInv'
  <2>1. PICK x : BeginsWith(r, op, x)
    BY <1>2, Beginning
  <2>2. UNCHANGED <<user, minted, accepted>>
    BY <1>2 DEF Begin, ghosts
  <2>3. QED
    BY <2>1, <2>2, CodesMove DEF BeginsWith, CodesInv, CodeOnce
<1>3. ASSUME NEW r \in Requests, Trip(r)
      PROVE  CodesInv'
  <2>1. CASE Spend(r)
    BY <2>1, SpendCodes
  <2>2. CASE Save(r)
    BY <2>2, SaveCodes
  <2>3. CASE ReadUser(r)
    <3>1. UNCHANGED <<user, minted, accepted>>
      BY <2>3 DEF ReadUser, ghosts
    <3>2. CASE Refuse(r)
      BY <1>1, <3>1, <3>2, CodesMove DEF Refuse, CodesInv, CodeOnce
    <3>3. CASE Becomes(r, [req[r] EXCEPT !.copy = user, !.epoch = changes, !.todo = AfterUser(r)])
      <4>1. PICK y : y = [req[r] EXCEPT !.copy = user, !.epoch = changes, !.todo = AfterUser(r)]
        OBVIOUS
      <4>2. y.copy = user
        BY <4>1, Within DEF RequestRecord
      <4>3. Becomes(r, y)
        BY <3>3, <4>1
      <4>4. QED
        BY <3>1, <4>2, <4>3, CodesMove DEF CodesInv, CodeOnce
    <3>4. QED
      BY <2>3, <3>2, <3>3 DEF ReadUser
  <2>4. CASE LoseRequest(r)
    <3>1. UNCHANGED <<user, minted, accepted>> /\ Refuse(r)
      BY <2>4 DEF LoseRequest, ghosts
    <3>2. QED
      BY <1>1, <3>1, CodesMove DEF Refuse, CodesInv, CodeOnce
  <2>5. CASE ~ReadUser(r) /\ ~Spend(r) /\ ~Save(r) /\ ~LoseRequest(r)
    <3>1. UNCHANGED <<user, minted, accepted>> /\ Head(req[r].todo) \notin {"user", "spend", "save"}
      BY <1>3, <2>5
         DEF Trip, ReadSession, ReadLink, UseLink, Supersede, Mail, RevokeAll, Issue, Retire,
             ghosts, At
    <3>2. PICK y : Continues(r, y)
      BY <1>3, Continuing
    <3>3. y.todo \in Writing => y.copy.codes = user.codes
      BY <3>1, <3>2 DEF Continues, CodesInv, Writing
    <3>4. QED
      BY <3>1, <3>2, <3>3, CodesMove DEF Continues, CodesInv, CodeOnce
  <2>6. QED
    BY <2>1, <2>2, <2>3, <2>4, <2>5
<1>4. CASE UNCHANGED <<user, minted, accepted, req>>
  BY <1>4 DEF CodesInv, CodeOnce
<1>5. Expire \/ UNCHANGED vars => UNCHANGED <<user, minted, accepted, req>>
  BY DEF Expire, vars, ghosts
<1>6. QED
  BY <1>2, <1>3, <1>4, <1>5, StepKinds

\* With requests served one at a time, a backup code lets its owner in once.
THEOREM CodeOnceAlways ==
  ASSUME IsFiniteSet(Requests), OneByOne
  PROVE  Spec => []CodeOnce
<1>1. Init => CodesInv
  <2>1. SUFFICES ASSUME Init
                 PROVE  CodesInv
    OBVIOUS
  <2>2. req = [r \in Requests |-> Idle] /\ accepted = [c \in Codes |-> 0]
    BY <2>1 DEF Init
  <2>3. Idle.todo \notin Writing
    BY DEF Idle, Writing
  <2>4. QED
    BY <2>2, <2>3 DEF CodesInv, CodeOnce
<1>2. Shape /\ CodesInv /\ [Next]_vars => CodesInv'
  BY CodesStep
<1>3. CodesInv => CodeOnce
  BY DEF CodesInv
<1>4. QED
  BY <1>1, <1>2, <1>3, Shaped, PTL DEF Spec

-----------------------------------------------------------------------------
(* Rotation: a token is exchanged for a pair once *)

\* The one request rotates a token that was never exchanged.
LEMMA RotatesMove ==
  ASSUME OneByOne, Shape, NEW r \in Requests, NEW y, Becomes(r, y),
         y.op = "refresh" /\ y.todo \in Rotating => given'[y.token] = 0,
         \A j \in Tokens : given'[j] <= 1 /\ (given'[j] > 0 => session'[j].status = "revoked")
  PROVE  RotatesInv'
<1>1. <<>> \notin Rotating /\ DOMAIN req = Requests
  BY Within DEF Rotating
<1>2. req'[r].op = "refresh" /\ req'[r].todo \in Rotating => given'[req'[r].token] = 0
  BY <1>1, StillGoing
<1>3. QED
  BY <1>2, TheOne DEF RotatesInv, RotatedOnce

\* What a token that was exchanged keeps.
LEMMA ExchangedStays ==
  ASSUME Shape, RotatesInv, given' = given, Fading
  PROVE  \A j \in Tokens : given'[j] <= 1 /\ (given'[j] > 0 => session'[j].status = "revoked")
BY DEF RotatesInv, RotatedOnce, Fading

LEMMA IssueRotates ==
  ASSUME OneByOne, Shape, RotatesInv, NEW r \in Requests, Issue(r)
  PROVE  RotatesInv'
<1>1. /\ At(r, "issue") /\ Hand(r) /\ born < MaxTokens
      /\ session' = [session EXCEPT ![born + 1] =
                       [NoSession EXCEPT !.status = "live", !.version = req[r].copy.version,
                                         !.epoch = req[r].epoch, !.parent = req[r].token]]
  BY DEF Issue, Mint
<1>2. /\ session \in [Tokens -> SessionRecord] /\ given \in [Tokens -> Nat]
      /\ born + 1 \in Tokens /\ session[born + 1].status = "none"
  BY <1>1, SessionBounds DEF Shape, SessionsGood, CountsGood, Tokens
<1>3. given' = given
  BY <1>1 DEF Hand, Answer
<1>4. ASSUME NEW j \in Tokens
      PROVE  given'[j] <= 1 /\ (given'[j] > 0 => session'[j].status = "revoked")
  BY <1>1, <1>2, <1>3 DEF RotatesInv, RotatedOnce
<1>5. PICK y : Continues(r, y)
  BY Continuing DEF Trip
<1>6. y.op = "refresh" /\ y.todo \in Rotating => given'[y.token] = 0
  BY <1>1, <1>3, <1>5 DEF Continues, At, Rotating, RotatesInv
<1>7. QED
  BY <1>4, <1>5, <1>6, RotatesMove DEF Continues

LEMMA RetireRotates ==
  ASSUME OneByOne, Shape, RotatesInv, NEW r \in Requests, Retire(r)
  PROVE  RotatesInv'
<1>1. /\ At(r, "retire") /\ Refuse(r)
      /\ session' = [session EXCEPT ![req[r].token].status = "revoked"]
      /\ \/ given' = given
         \/ req[r].op = "refresh" /\ given' = [given EXCEPT ![req[r].token] = @ + 1]
  BY DEF Retire, Answer
<1>2. req[r].todo = <<"retire">>
  BY <1>1, Within, NextStage DEF At, NextTrip
<1>3. session \in [Tokens -> SessionRecord] /\ given \in [Tokens -> Nat]
  BY DEF Shape, SessionsGood, CountsGood
<1>4. ASSUME NEW j \in Tokens
      PROVE  given'[j] <= 1 /\ (given'[j] > 0 => session'[j].status = "revoked")
  <2>1. CASE j = req[r].token
    <3>1. session'[j].status = "revoked"
      BY <1>1, <1>3, <2>1 DEF SessionRecord
    <3>2. req[r].op = "refresh" => given[j] = 0
      BY <1>2, <2>1 DEF RotatesInv, Rotating
    <3>3. given'[j] <= 1
      BY <1>1, <1>3, <2>1, <3>2 DEF RotatesInv, RotatedOnce
    <3>4. QED
      BY <3>1, <3>3
  <2>2. CASE j # req[r].token
    <3>1. given'[j] = given[j] /\ session'[j] = session[j]
      BY <1>1, <1>3, <2>2
    <3>2. QED
      BY <3>1 DEF RotatesInv, RotatedOnce
  <2>3. QED
    BY <2>1, <2>2
<1>5. <<>> \notin Rotating
  BY DEF Rotating
<1>6. QED
  BY <1>1, <1>4, <1>5, RotatesMove DEF Refuse, Idle

LEMMA ReadSessionRotates ==
  ASSUME OneByOne, Shape, RotatesInv, NEW r \in Requests, ReadSession(r)
  PROVE  RotatesInv'
<1>1. given' = given /\ session' = session
  BY DEF ReadSession, ghosts
<1>2. \A j \in Tokens : given'[j] <= 1 /\ (given'[j] > 0 => session'[j].status = "revoked")
  BY <1>1 DEF RotatesInv, RotatedOnce
<1>3. <<>> \notin Rotating /\ <<"revoke_all">> \notin Rotating
  BY DEF Rotating
<1>4. CASE Refuse(r)
  BY <1>2, <1>3, <1>4, RotatesMove DEF Refuse, Idle
<1>5. CASE Becomes(r, [req[r] EXCEPT !.todo = <<"revoke_all">>])
  <2>1. PICK y : y = [req[r] EXCEPT !.todo = <<"revoke_all">>]
    OBVIOUS
  <2>2. y.todo = <<"revoke_all">> /\ Becomes(r, y)
    BY <1>5, <2>1, Within DEF RequestRecord
  <2>3. QED
    BY <1>2, <1>3, <2>2, RotatesMove
<1>6. CASE session[req[r].token].status = "live" /\ Proceed(r)
  <2>1. PICK y : y = [req[r] EXCEPT !.todo = Tail(@)]
    OBVIOUS
  <2>2. y.token = req[r].token /\ Becomes(r, y)
    BY <1>6, <2>1, Within DEF RequestRecord, Proceed
  <2>3. given[req[r].token] = 0
    BY <1>6, Presented DEF RotatesInv, Shape, CountsGood
  <2>4. QED
    BY <1>1, <1>2, <2>2, <2>3, RotatesMove
<1>7. QED
  BY <1>4, <1>5, <1>6, Presented DEF ReadSession

LEMMA RotatesStep ==
  ASSUME OneByOne, Shape, RotatesInv, [Next]_vars
  PROVE  RotatesInv'
<1>1. <<>> \notin Rotating
  BY DEF Rotating
<1>2. ASSUME NEW r \in Requests, NEW op \in Ops, Begin(r, op)
      PROVE  RotatesInv'
  <2>1. PICK x : BeginsWith(r, op, x)
    BY <1>2, Beginning
  <2>2. UNCHANGED <<session, given>>
    BY <1>2 DEF Begin, ghosts
  <2>3. QED
    BY <2>1, <2>2, RotatesMove DEF BeginsWith, RotatesInv, RotatedOnce
<1>3. ASSUME NEW r \in Requests, Trip(r)
      PROVE  RotatesInv'
  <2>1. CASE Issue(r)
    BY <2>1, IssueRotates
  <2>2. CASE Retire(r)
    BY <2>2, RetireRotates
  <2>3. CASE ReadSession(r)
    BY <2>3, ReadSessionRotates
  <2>4. CASE LoseRequest(r)
    <3>1. UNCHANGED <<session, given>> /\ Refuse(r)
      BY <2>4 DEF LoseRequest, ghosts
    <3>2. QED
      BY <1>1, <3>1, RotatesMove DEF Refuse, Idle, RotatesInv, RotatedOnce
  <2>5. CASE ~Issue(r) /\ ~Retire(r) /\ ~ReadSession(r) /\ ~LoseRequest(r)
    <3>1. given' = given /\ Head(req[r].todo) \notin {"issue", "session"}
      BY <1>3, <2>5
         DEF Trip, ReadUser, ReadLink, UseLink, Spend, Save, Supersede, Mail, RevokeAll, ghosts,
             At
    <3>2. ~(\E q \in Requests : Issue(q))
      BY <2>5, TheOne
    <3>3. \A j \in Tokens : given'[j] <= 1 /\ (given'[j] > 0 => session'[j].status = "revoked")
      BY <3>1, <3>2, FadingSteps, ExchangedStays
    <3>4. PICK y : Continues(r, y)
      BY <1>3, Continuing
    <3>5. y.op = "refresh" /\ y.todo \in Rotating => given'[y.token] = 0
      BY <1>1, <3>1, <3>4 DEF Continues, RotatesInv
    <3>6. QED
      BY <3>3, <3>4, <3>5, RotatesMove DEF Continues
  <2>6. QED
    BY <2>1, <2>2, <2>3, <2>4, <2>5
<1>4. CASE Expire \/ UNCHANGED vars
  <2>1. UNCHANGED <<given, req>>
    BY <1>4 DEF Expire, vars, ghosts
  <2>2. CASE Expire
    <3>1. ~(\E r \in Requests : Issue(r)) \/ session' = session
      <4>1. SUFFICES ASSUME NEW r \in Requests, Issue(r)
                     PROVE  FALSE
        OBVIOUS
      <4>2. born' = born + 1 /\ born' = born /\ born \in Nat
        BY <2>2, <4>1 DEF Issue, Mint, Expire, Shape, SessionsGood
      <4>3. QED
        BY <4>2
    <3>2. Fading
      BY <3>1, FadingSteps DEF Fading
    <3>3. QED
      BY <2>1, <3>2, ExchangedStays DEF RotatesInv, RotatedOnce
  <2>3. CASE UNCHANGED vars
    BY <2>3 DEF vars, RotatesInv, RotatedOnce
  <2>4. QED
    BY <1>4, <2>2, <2>3
<1>5. QED
  BY <1>2, <1>3, <1>4, StepKinds

\* With requests served one at a time, however they fail and repeat, a refresh token is exchanged
\* for a pair once.
THEOREM RotatedOnceAlways ==
  ASSUME IsFiniteSet(Requests), OneByOne
  PROVE  Spec => []RotatedOnce
<1>1. Init => RotatesInv
  BY DEF Init, RotatesInv, RotatedOnce, Idle, Rotating
<1>2. Shape /\ RotatesInv /\ [Next]_vars => RotatesInv'
  BY RotatesStep
<1>3. RotatesInv => RotatedOnce
  BY DEF RotatesInv
<1>4. QED
  BY <1>1, <1>2, <1>3, Shaped, PTL DEF Spec

-----------------------------------------------------------------------------
(* Reuse: what a stolen token led to works no more *)

\* S is apart from the tokens presented again: it holds those that live and those that are being
\* rotated, with the tokens they were obtained from.
Apart(S) ==
    /\ S \subseteq Tokens /\ Descent(S) /\ S \cap reused = {}
    /\ \A j \in Tokens : session[j].status = "live" => j \in S
    /\ \A r \in Requests : \/ req[r].op = "logout" \/ req[r].token = NoToken
                           \/ req[r].op = "refresh" /\ (req[r].todo \in Rotating => req[r].token \in S)
FamilyInv == reused \subseteq 0..born /\ \E S \in SUBSET Tokens : Apart(S)

\* The same set serves after a step, as the one request goes on and sessions only end.
LEMMA StaysApart ==
  ASSUME OneByOne, Shape, NEW S \in SUBSET Tokens, Apart(S), Fading, reused' = reused,
         \A j \in Tokens : session'[j].parent = session[j].parent,
         NEW r \in Requests, NEW y, Becomes(r, y),
         y.todo # <<>> => \/ y.op = "logout" \/ y.token = NoToken
                          \/ y.op = "refresh" /\ (y.todo \in Rotating => y.token \in S)
  PROVE  Apart(S)'
<1>1. DOMAIN req = Requests /\ Idle.token = NoToken
  BY Within DEF Idle
<1>2. req'[r] = (IF y.todo = <<>> THEN Idle ELSE y)
  BY <1>1, OneMoves
<1>3. \/ req'[r].op = "logout" \/ req'[r].token = NoToken
      \/ req'[r].op = "refresh" /\ (req'[r].todo \in Rotating => req'[r].token \in S)
  BY <1>1, <1>2
<1>4. \A j \in S : session'[j].parent \in S \cup {NoToken}
  BY DEF Apart, Descent
<1>5. QED
  BY <1>3, <1>4, TheOne DEF Apart, Descent, Fading

LEMMA IssueFamily ==
  ASSUME OneByOne, Shape, FamilyInv, NEW r \in Requests, Issue(r)
  PROVE  FamilyInv'
<1>1. PICK S \in SUBSET Tokens : Apart(S)
  BY DEF FamilyInv
<1>2. PICK row : row = [NoSession EXCEPT !.status = "live", !.version = req[r].copy.version,
                                         !.epoch = req[r].epoch, !.parent = req[r].token]
  OBVIOUS
<1>3. /\ At(r, "issue") /\ born < MaxTokens /\ born' = born + 1 /\ reused' = reused
      /\ session' = [session EXCEPT ![born + 1] = row]
  BY <1>2 DEF Issue, Mint
<1>4. row.parent = req[r].token
  BY <1>2 DEF NoSession
<1>5. session \in [Tokens -> SessionRecord] /\ born \in Nat /\ born + 1 \in Tokens
  BY <1>3, SessionBounds DEF Shape, SessionsGood, Tokens
<1>6. req[r].token \in S \cup {NoToken}
  <2>1. req[r].todo # <<>> /\ Head(req[r].todo) = "issue" /\ Placed(req[r].op, req[r].todo)
    BY <1>3, Within DEF At, GoodRequest
  <2>2. req[r].op # "logout"
    BY <2>1 DEF Placed, Leaving
  <2>3. req[r].op = "refresh" => req[r].todo \in Rotating
    BY <2>1 DEF Placed
  <2>4. QED
    BY <1>1, <2>2, <2>3 DEF Apart
<1>7. PICK T \in SUBSET Tokens : T = S \cup {born + 1}
  BY <1>5
<1>8. reused \subseteq 0..born /\ reused' \subseteq 0..born'
  BY <1>3, <1>5 DEF FamilyInv
<1>9. ASSUME NEW j \in T
      PROVE  session'[j].parent \in T \cup {NoToken}
  <2>1. CASE j = born + 1
    BY <1>3, <1>4, <1>5, <1>6, <1>7, <2>1
  <2>2. CASE j # born + 1
    BY <1>1, <1>3, <1>5, <1>7, <2>2 DEF Apart, Descent
  <2>3. QED
    BY <2>1, <2>2
<1>10. T \cap reused' = {}
  BY <1>1, <1>3, <1>5, <1>7, <1>8 DEF Apart
<1>11. ASSUME NEW j \in Tokens, session'[j].status = "live"
       PROVE  j \in T
  BY <1>1, <1>3, <1>5, <1>7, <1>11 DEF Apart
<1>12. \/ req'[r].op = "logout" \/ req'[r].token = NoToken
       \/ req'[r].op = "refresh" /\ (req'[r].todo \in Rotating => req'[r].token \in T)
  <2>1. PICK y : Continues(r, y)
    BY Continuing DEF Trip
  <2>2. req'[r] = (IF y.todo = <<>> THEN Idle ELSE y)
    BY <2>1, OneMoves, Within DEF Continues
  <2>3. CASE y.todo = <<>>
    BY <2>2, <2>3 DEF Idle
  <2>4. CASE y.todo # <<>>
    <3>1. req'[r].op = req[r].op /\ req'[r].token = req[r].token
      BY <2>1, <2>2, <2>4 DEF Continues
    <3>2. QED
      BY <1>1, <1>6, <1>7, <3>1 DEF Apart
  <2>5. QED
    BY <2>3, <2>4
<1>13. Apart(T)'
  BY <1>9, <1>10, <1>11, <1>12, TheOne DEF Apart, Descent
<1>14. QED
  BY <1>8, <1>13 DEF FamilyInv

\* With every session ended no token lives, and the request that ended them rotates none.
LEMMA RevokeAllFamily ==
  ASSUME OneByOne, Shape, FamilyInv, NEW r \in Requests, RevokeAll(r)
  PROVE  FamilyInv'
<1>1. /\ At(r, "revoke_all") /\ Proceed(r) /\ born' = born
      /\ session' = [j \in Tokens |-> IF session[j].status = "live"
                                        THEN [session[j] EXCEPT !.status = "revoked"] ELSE session[j]]
      /\ reused' = IF req[r].op = "refresh" THEN reused \cup {req[r].token} ELSE reused
  BY DEF RevokeAll
<1>2. req[r].token \in 0..born
  BY Within DEF GoodRequest, Holding
<1>3. reused' \subseteq 0..born'
  BY <1>1, <1>2 DEF FamilyInv
<1>4. ASSUME NEW j \in Tokens
      PROVE  session'[j].status # "live"
  BY <1>1 DEF Shape, SessionsGood, SessionRecord
<1>5. PICK y : y = [req[r] EXCEPT !.todo = Tail(@)]
  OBVIOUS
<1>6. Becomes(r, y) /\ y.op = req[r].op /\ y.token = req[r].token /\ y.todo = Tail(req[r].todo)
  BY <1>1, <1>5, Within DEF Proceed, RequestRecord
<1>7. req[r].op = "refresh" => y.todo = <<>>
  <2>1. req[r].todo # <<>> /\ Head(req[r].todo) = "revoke_all" /\ Placed(req[r].op, req[r].todo)
    BY <1>1, Within DEF At, GoodRequest
  <2>2. req[r].op = "refresh" => req[r].todo = <<"revoke_all">>
    BY <2>1 DEF Placed, Rotating
  <2>3. Tail(<<"revoke_all">>) = <<>>
    OBVIOUS
  <2>4. QED
    BY <1>6, <2>2, <2>3
<1>8. \/ req'[r].op = "logout" \/ req'[r].token = NoToken
  <2>1. req'[r] = (IF y.todo = <<>> THEN Idle ELSE y)
    BY <1>6, OneMoves, Within
  <2>2. req[r].op = "logout" \/ req[r].token = NoToken \/ req[r].op = "refresh"
    BY DEF FamilyInv, Apart
  <2>3. CASE y.todo = <<>>
    BY <2>1, <2>3 DEF Idle
  <2>4. CASE y.todo # <<>>
    BY <1>6, <1>7, <2>1, <2>2, <2>4
  <2>5. QED
    BY <2>3, <2>4
<1>9. Apart({})'
  BY <1>4, <1>8, TheOne DEF Apart, Descent
<1>10. QED
  BY <1>3, <1>9 DEF FamilyInv

LEMMA FamilyStep ==
  ASSUME OneByOne, Shape, FamilyInv, [Next]_vars
  PROVE  FamilyInv'
<1>1. PICK S \in SUBSET Tokens : Apart(S)
  BY DEF FamilyInv
<1>2. reused \subseteq 0..born /\ session \in [Tokens -> SessionRecord]
  BY DEF FamilyInv, Shape, SessionsGood
<1>3. ASSUME NEW r \in Requests, NEW y, Becomes(r, y), UNCHANGED <<born, reused>>,
             y.todo # <<>> => \/ y.op = "logout" \/ y.token = NoToken
                              \/ y.op = "refresh" /\ (y.todo \in Rotating => y.token \in S),
             ~(\E q \in Requests : Issue(q)),
             \A j \in Tokens : session'[j].parent = session[j].parent
      PROVE  FamilyInv'
  <2>1. Apart(S)'
    BY <1>1, <1>3, FadingSteps, StaysApart
  <2>2. QED
    BY <1>2, <1>3, <2>1 DEF FamilyInv
<1>4. ASSUME NEW r \in Requests, NEW op \in Ops, Begin(r, op)
      PROVE  FamilyInv'
  <2>1. PICK x : BeginsWith(r, op, x)
    BY <1>4, Beginning
  <2>2. UNCHANGED <<session, born, reused>>
    BY <1>4 DEF Begin, ghosts
  <2>3. Fading
    BY <2>2 DEF Fading
  <2>4. Apart(S)'
    BY <1>1, <2>1, <2>2, <2>3, StaysApart DEF BeginsWith
  <2>5. QED
    BY <1>2, <2>2, <2>4 DEF FamilyInv
<1>5. ASSUME NEW r \in Requests, Trip(r)
      PROVE  FamilyInv'
  <2>1. CASE Issue(r)
    BY <2>1, IssueFamily
  <2>2. CASE RevokeAll(r)
    BY <2>2, RevokeAllFamily
  <2>3. CASE ~Issue(r) /\ ~RevokeAll(r)
    <3>1. /\ UNCHANGED <<born, reused>>
          /\ session' = session \/ session' = [session EXCEPT ![req[r].token].status = "revoked"]
      BY <1>5, <2>3
         DEF Trip, ReadUser, ReadSession, ReadLink, UseLink, Spend, Save, Supersede, Mail, Retire,
             LoseRequest, ghosts
    <3>2. \A j \in Tokens : session'[j].parent = session[j].parent
      BY <1>2, <3>1 DEF SessionRecord
    <3>3. ~(\E q \in Requests : Issue(q))
      BY <2>3, TheOne
    <3>4. PICK y : Continues(r, y)
      BY <1>5, Continuing
    <3>5. y.todo # <<>> => \/ y.op = "logout" \/ y.token = NoToken
                           \/ y.op = "refresh" /\ (y.todo \in Rotating => y.token \in S)
      <4>1. SUFFICES ASSUME y.todo # <<>>
                     PROVE  \/ y.op = "logout" \/ y.token = NoToken
                            \/ y.op = "refresh" /\ (y.todo \in Rotating => y.token \in S)
        OBVIOUS
      <4>2. y.op = req[r].op /\ y.token = req[r].token
        BY <3>4, <4>1 DEF Continues
      <4>3. \/ req[r].op = "logout" \/ req[r].token = NoToken
            \/ req[r].op = "refresh" /\ (req[r].todo \in Rotating => req[r].token \in S)
        BY <1>1 DEF Apart
      <4>4. CASE ReadSession(r)
        <5>1. y.todo \in Rotating => req[r].token \in S
          BY <1>1, <3>4, <4>1, <4>4, LiveGoesOn DEF Apart
        <5>2. QED
          BY <4>2, <4>3, <5>1
      <4>5. CASE ~ReadSession(r)
        <5>1. y.todo \in Rotating => req[r].todo \in Rotating
          BY <1>5, <2>3, <3>4, <4>1, <4>5, NoSessionRead
        <5>2. QED
          BY <4>2, <4>3, <5>1
      <4>6. QED
        BY <4>4, <4>5
    <3>6. QED
      BY <1>3, <3>1, <3>2, <3>3, <3>4, <3>5 DEF Continues
  <2>4. QED
    BY <2>1, <2>2, <2>3
<1>6. CASE Expire \/ UNCHANGED vars
  <2>1. UNCHANGED <<born, reused, req>>
    BY <1>6 DEF Expire, vars, ghosts
  <2>2. \/ session' = session
        \/ \E j \in 1..born : session' = [session EXCEPT ![j].expired = TRUE]
    BY <1>6 DEF Expire, vars
  <2>3. ASSUME NEW j \in Tokens
        PROVE  session'[j].parent = session[j].parent /\ session'[j].status = session[j].status
    BY <1>2, <2>2 DEF SessionRecord
  <2>4. \A j \in S : session'[j].parent \in S \cup {NoToken}
    BY <1>1, <2>3 DEF Apart, Descent
  <2>5. Apart(S)'
    BY <1>1, <2>1, <2>3, <2>4 DEF Apart, Descent
  <2>6. QED
    BY <1>2, <2>1, <2>5 DEF FamilyInv
<1>7. QED
  BY <1>4, <1>5, <1>6, StepKinds

\* With requests served one at a time, once a rotated token was presented again nothing obtained
\* from it works, also what a rotation lost halfway left behind.
THEOREM ReuseEndsFamilyAlways ==
  ASSUME IsFiniteSet(Requests), OneByOne
  PROVE  Spec => []ReuseEndsFamily
<1>1. Init => FamilyInv
  <2>1. SUFFICES ASSUME Init
                 PROVE  FamilyInv
    OBVIOUS
  <2>2. reused = {} /\ req = [r \in Requests |-> Idle] /\ session = [j \in Tokens |-> NoSession]
    BY <2>1 DEF Init
  <2>3. Apart({})
    BY <2>2 DEF Apart, Descent, Idle, NoSession
  <2>4. QED
    BY <2>2, <2>3 DEF FamilyInv
<1>2. Shape /\ FamilyInv /\ [Next]_vars => FamilyInv'
  BY FamilyStep
<1>3. FamilyInv => ReuseEndsFamily
  <2>1. SUFFICES ASSUME FamilyInv, NEW j \in Tokens, Works(j)
                 PROVE  Ancestry(j) \cap reused = {}
    BY DEF ReuseEndsFamily
  <2>2. PICK S \in SUBSET Tokens : Apart(S)
    BY <2>1 DEF FamilyInv
  <2>3. j \in S
    BY <2>1, <2>2 DEF Works, Apart
  <2>4. Ancestry(j) \subseteq S
    BY <2>2, <2>3 DEF Ancestry, Apart
  <2>5. QED
    BY <2>2, <2>4 DEF Apart
<1>4. QED
  BY <1>1, <1>2, <1>3, Shaped, PTL DEF Spec


=============================================================================
