-------------------------- MODULE Accounts_proofs --------------------------
(***************************************************************************)
(* Proofs about Accounts: for any number of goroutines, identities, keys   *)
(* and browsers, whatever tables and cookies the process starts with.      *)
(* RequestMoves says once what a step does to the request of its goroutine *)
(* and that it leaves the others alone; each theorem then looks only at    *)
(* the few places its invariant speaks of.                                 *)
(***************************************************************************)
EXTENDS Accounts, FiniteSetTheorems, TLAPS

----------------------------------------------------------------------------
(* How a request moves.                                                    *)

ReqType == req \in [Procs -> Request]
Only(p) == \A q \in Procs : q # p => req'[q] = req[q]

\* The places that the invariants below speak of; a step to any other place
\* is quiet.
Spoken == {"resolved", "DeleteExpiredUserSessions", "InsertUserSession", "GetOwner", "admitted",
           "InsertUserIdentity", "CommitUser",
           "DeleteUserSessionsByUser", "DeleteUser", "CommitDelete"}
Moves(p) == ReqType' /\ Only(p)
Quiet(p) == Moves(p) /\ req'[p].at \notin Spoken

LEMMA CookieTypes ==
  ASSUME now \in Nat
  PROVE  /\ NoCookie \in Cookie /\ Cleared \in Cookie
         /\ \A id \in Nat : StateCookie(id) \in Cookie /\ SessionCookie(id) \in Cookie
<1>1. NoCookie \in Cookie
  BY DEF NoCookie, Cookie
<1>2. Cleared \in Cookie
  BY <1>1 DEF Cleared, Cookie
<1>3. ASSUME NEW id \in Nat PROVE StateCookie(id) \in Cookie /\ SessionCookie(id) \in Cookie
  BY TimesToLive DEF StateCookie, SessionCookie, Cookie
<1> QED  BY <1>1, <1>2, <1>3

LEMMA IdleType == Idle \in Request
  BY DEF Idle, Request, NoCookie, Cookie, Places, Sources

LEMMA Assigned ==
  ASSUME ReqType, NEW p \in Procs, NEW r \in Request, req' = [req EXCEPT ![p] = r]
  PROVE  Moves(p) /\ req'[p] = r
  BY DEF ReqType, Moves, Only

LEMMA GoMoves ==
  ASSUME ReqType, NEW p \in Procs, NEW at \in Places, Go(p, at)
  PROVE  /\ Moves(p) /\ req'[p] = [req[p] EXCEPT !.at = at]
  BY DEF ReqType, Moves, Only, Go, Request

LEMMA ReplyMoves ==
  ASSUME TypeOK, NEW p \in Procs, NEW c \in Cookie, Reply(p, c)
  PROVE  Quiet(p)
<1> DEFINE r == [Idle EXCEPT !.at = "respond", !.via = req[p].via, !.set = c]
<1>1. req[p].via \in Sources
  BY DEF TypeOK, Request
<1>3. r \in Request /\ r.at = "respond"
  BY <1>1, IdleType DEF Request, Places
<1>2. req' = [req EXCEPT ![p] = r]
  BY DEF Reply
<1> QED  BY <1>2, <1>3, Assigned DEF Quiet, Spoken, TypeOK, ReqType

LEMMA AnswerMoves ==
  ASSUME TypeOK, NEW p \in Procs, Answer(p)
  PROVE  Quiet(p)
<1>1. CASE req[p].set = NoCookie
  <2>1. req' = [req EXCEPT ![p] = Idle]
    BY <1>1 DEF Answer
  <2>2. Idle.at = "idle"
    BY DEF Idle
  <2> QED  BY <2>1, <2>2, IdleType, Assigned DEF Quiet, Spoken, TypeOK, ReqType
<1>2. CASE req[p].set # NoCookie
  <2>1. req[p].set \in Cookie
    BY DEF TypeOK, Request
  <2> QED  BY <1>2, <2>1, ReplyMoves DEF Answer
<1> QED  BY <1>1, <1>2

LEMMA ResolvedMoves ==
  ASSUME TypeOK, NEW p \in Procs, NEW u \in Nat, NEW admin \in BOOLEAN, NEW lost \in BOOLEAN,
         Resolved(p, u, admin, lost)
  PROVE  /\ Moves(p)
         /\ req'[p].at \in {"resolved", "DeleteExpiredUserSessions"}
         /\ req'[p].who = u /\ req'[p].admin = admin /\ req'[p].lost = lost
<1> DEFINE at == IF req[p].op = "callback" THEN "DeleteExpiredUserSessions" ELSE "resolved"
           clock == IF req[p].op = "callback" THEN now ELSE 0
           r == [req[p] EXCEPT !.at = at, !.who = u, !.admin = admin, !.lost = lost, !.clock = clock]
<1>1. req[p] \in Request /\ ReqType
  BY DEF TypeOK, ReqType
<1>2. at \in Places /\ at \in {"resolved", "DeleteExpiredUserSessions"} /\ clock \in Nat
  BY DEF Places, TypeOK
<1> HIDE DEF at, clock
<1>3. r \in Request /\ r.at = at /\ r.who = u /\ r.admin = admin /\ r.lost = lost
  BY <1>1, <1>2 DEF Request
<1>4. req' = [req EXCEPT ![p] = r]
  BY <1>1 DEF Resolved, at, clock
<1> QED  BY <1>1, <1>2, <1>3, <1>4, Assigned

LEMMA BegunMoves ==
  ASSUME TypeOK, NEW p \in Procs, NEW r \in Request, r.at \notin Spoken, Begin(p, r)
  PROVE  Quiet(p)
  BY Assigned DEF Begin, Quiet, TypeOK, ReqType

LEMMA TargetMoves ==
  ASSUME TypeOK, NEW p \in Procs, NEW at \in Places, NEW t \in Nat,
         req' = [req EXCEPT ![p].at = at, ![p].target = t]
  PROVE  Moves(p) /\ req'[p].at = at /\ req'[p].target = t /\ req'[p].identity = req[p].identity
<1> DEFINE r == [req[p] EXCEPT !.at = at, !.target = t]
<1>1. req[p] \in Request /\ ReqType
  BY DEF TypeOK, ReqType
<1>2. r \in Request /\ r.at = at /\ r.target = t /\ r.identity = req[p].identity
  BY <1>1 DEF Request
<1>3. req' = [req EXCEPT ![p] = r]
  BY <1>1
<1> QED  BY <1>1, <1>2, <1>3, Assigned

----------------------------------------------------------------------------
(* The quiet steps.                                                        *)

LEMMA ArrivesQuietly ==
  ASSUME TypeOK, NEW p \in Procs, Arrives(p)
  PROVE  Quiet(p)
<1> USE IdleType
<1>0. config.asked \subseteq Operations /\ jar \in [Browsers -> Cookie]
  BY KnownConfigs DEF TypeOK
<1>1. CASE BeginWithIdentity(p)
  <2>1. PICK i \in Identities, op \in Operations :
          Begin(p, [Idle EXCEPT !.at = "GetUserByIdentity", !.op = op, !.identity = i])
    BY <1>0, <1>1 DEF BeginWithIdentity
  <2>2. [Idle EXCEPT !.at = "GetUserByIdentity", !.op = op, !.identity = i] \in Request
    BY DEF Request, Places
  <2>3. [Idle EXCEPT !.at = "GetUserByIdentity", !.op = op, !.identity = i].at = "GetUserByIdentity"
    BY DEF Request
  <2> QED  BY <2>1, <2>2, <2>3, BegunMoves DEF Spoken
<1>2. CASE BeginWithCookie(p)
  <2>1. PICK b \in Browsers, op \in Operations :
          Begin(p, [Idle EXCEPT !.at = "TouchUserSession", !.op = op, !.via = b, !.cookie = jar[b],
                         !.clock = now])
    BY <1>0, <1>2 DEF BeginWithCookie
  <2> DEFINE r == [Idle EXCEPT !.at = "TouchUserSession", !.op = op, !.via = b, !.cookie = jar[b],
                               !.clock = now]
  <2>2. r \in Request /\ r.at = "TouchUserSession"
    BY <1>0 DEF Request, Places, Sources, TypeOK
  <2> QED  BY <2>1, <2>2, BegunMoves DEF Spoken
<1>3. CASE BeginLogin(p)
  <2>1. PICK b \in Browsers : Begin(p, [Idle EXCEPT !.at = "login", !.op = "login", !.via = b])
    BY <1>3 DEF BeginLogin
  <2> DEFINE r == [Idle EXCEPT !.at = "login", !.op = "login", !.via = b]
  <2>2. r \in Request /\ r.at = "login"
    BY DEF Request, Places, Operations, Sources
  <2> QED  BY <2>1, <2>2, BegunMoves DEF Spoken
<1>4. CASE Callback(p)
  <2>0. req[p].at = "idle" /\ req \in [Procs -> Request]
    BY <1>4 DEF Callback, TypeOK
  <2>1. CASE req' = req
    BY <2>0, <2>1 DEF Quiet, Moves, Only, ReqType, Spoken
  <2>2. CASE req' # req
    <3>1. PICK b \in Sources, i \in Identities :
            req' = [req EXCEPT ![p] = [Idle EXCEPT !.at = "GetUserByIdentity", !.op = "callback",
                                                   !.identity = i, !.via = b]]
      BY <1>4, <2>2 DEF Callback, TypeOK, Rows
    <3> DEFINE r == [Idle EXCEPT !.at = "GetUserByIdentity", !.op = "callback",
                                 !.identity = i, !.via = b]
    <3>2. r \in Request /\ r.at = "GetUserByIdentity"
      BY DEF Request, Places, Operations, Sources
    <3> QED  BY <2>0, <3>1, <3>2, Assigned DEF Quiet, Spoken, ReqType
  <2> QED  BY <2>1, <2>2
<1>5. CASE BeginLogout(p)
  <2>1. PICK b \in Browsers :
          Begin(p, [Idle EXCEPT !.at = "DeleteUserSession", !.op = "logout", !.via = b, !.cookie = jar[b]])
    BY <1>5 DEF BeginLogout
  <2> DEFINE r == [Idle EXCEPT !.at = "DeleteUserSession", !.op = "logout", !.via = b, !.cookie = jar[b]]
  <2>2. r \in Request /\ r.at = "DeleteUserSession"
    BY <1>0 DEF Request, Places, Operations, Sources
  <2> QED  BY <2>1, <2>2, BegunMoves DEF Spoken
<1>6. CASE BeginGateway(p)
  <2>1. PICK t \in Tokens : Begin(p, [Idle EXCEPT !.at = "GetApiKeyByKey", !.op = "gateway", !.via = t])
    BY <1>6 DEF BeginGateway
  <2> DEFINE r == [Idle EXCEPT !.at = "GetApiKeyByKey", !.op = "gateway", !.via = t]
  <2>2. r \in Request /\ r.at = "GetApiKeyByKey"
    BY DEF Request, Places, Operations, Sources
  <2> QED  BY <2>1, <2>2, BegunMoves DEF Spoken
<1>7. CASE BeginCommand(p)
  <2>1. PICK op \in {"setAdmin", "bindIdentity"}, u \in Ids, i \in Identities :
          Begin(p, [Idle EXCEPT !.at = op, !.op = op, !.target = u, !.identity = i])
    BY <1>7 DEF BeginCommand
  <2> DEFINE r == [Idle EXCEPT !.at = op, !.op = op, !.target = u, !.identity = i]
  <2>2. op \in Places /\ op \in Operations /\ op \notin Spoken /\ u \in Nat
    BY DEF Places, Operations, Ids, Spoken
  <2>3. r \in Request /\ r.at = op
    BY <2>2 DEF Request
  <2> QED  BY <2>1, <2>2, <2>3, BegunMoves
<1> QED  BY <1>1, <1>2, <1>3, <1>4, <1>5, <1>6, <1>7 DEF Arrives

LEMMA LogsInQuietly ==
  ASSUME TypeOK, NEW p \in Procs,
         Login(p) \/ InsertUserSession(p) \/ DeleteUserSession(p) \/ Respond(p)
  PROVE  Quiet(p)
<1>0. now \in Nat /\ last.state + 1 \in Nat /\ last.sess + 1 \in Nat
  BY DEF TypeOK
<1>1. CASE Login(p)
  BY <1>0, <1>1, CookieTypes, ReplyMoves DEF Login
<1>2. CASE InsertUserSession(p)
  BY <1>0, <1>2, CookieTypes, ReplyMoves DEF InsertUserSession
<1>3. CASE DeleteUserSession(p)
  BY <1>0, <1>3, CookieTypes, ReplyMoves DEF DeleteUserSession
<1>4. CASE Respond(p)
  BY <1>4, IdleType, Assigned DEF Respond, Idle, Quiet, Spoken, TypeOK, ReqType
<1> QED  BY <1>1, <1>2, <1>3, <1>4

LEMMA ImpersonateQuietly ==
  ASSUME TypeOK, NEW p \in Procs, Impersonate(p)
  PROVE  Quiet(p)
<1>0. req[p] \in Request /\ ReqType
  BY DEF TypeOK, ReqType
<1>1. CASE req' = [req EXCEPT ![p] = Idle]
  <2>1. Idle.at = "idle"
    BY DEF Idle
  <2> QED  BY <1>0, <1>1, <2>1, IdleType, Assigned DEF Quiet, Spoken
<1>2. CASE req' # [req EXCEPT ![p] = Idle]
  <2>1. PICK u \in 1..MaxId :
          /\ u \in DOMAIN users
          /\ req' = [req EXCEPT ![p].at = "impersonating", ![p].who = u, ![p].admin = users[u].admin]
    BY <1>2 DEF Impersonate, Q!GetUserByID
  <2> DEFINE r == [req[p] EXCEPT !.at = "impersonating", !.who = u, !.admin = users[u].admin]
  <2>2. users[u].admin \in BOOLEAN /\ u \in Nat
    BY <2>1 DEF TypeOK, User, Rows
  <2>3. r \in Request /\ r.at = "impersonating"
    BY <1>0, <2>2 DEF Request, Places
  <2>4. req' = [req EXCEPT ![p] = r]
    BY <1>0, <2>1
  <2> QED  BY <1>0, <2>3, <2>4, Assigned DEF Quiet, Spoken
<1> QED  BY <1>1, <1>2

LEMMA AdministersQuietly ==
  ASSUME TypeOK, NEW p \in Procs,
         \/ CreateUser(p) \/ DisableCreated(p) \/ UpdateUser(p) \/ CommitDelete(p)
         \/ GetUserByID(p) \/ CreateUserIdentity(p)
         \/ GetUserIdentityByID(p) \/ UpdateUserIdentity(p) \/ DeleteUserIdentity(p)
  PROVE  Quiet(p)
<1>0. req[p] \in Request /\ ReqType /\ last.user \in Nat
  BY DEF TypeOK, ReqType
<1>1. CASE CreateUser(p)
  <2>1. CASE Answer(p)
    BY <2>1, AnswerMoves
  <2>2. CASE ~Answer(p)
    <3>1. PICK admin \in BOOLEAN : req' = [req EXCEPT ![p].at = "UpdateUser",
                                             ![p].target = last.user + 1, ![p].admin = admin]
      BY <1>1, <2>2 DEF CreateUser
    <3> DEFINE t == last.user + 1
               r == [req[p] EXCEPT !.at = "UpdateUser", !.target = t, !.admin = admin]
    <3>0. t \in Nat /\ "UpdateUser" \in Places
      BY <1>0 DEF Places
    <3> HIDE DEF t
    <3>2. r \in Request /\ r.at = "UpdateUser"
      BY <1>0, <3>0 DEF Request
    <3>3. req' = [req EXCEPT ![p] = r]
      BY <1>0, <3>1 DEF t
    <3> QED  BY <1>0, <3>2, <3>3, Assigned DEF Quiet, Spoken
  <2> QED  BY <2>1, <2>2
<1>2. CASE GetUserByID(p)
  <2>1. CASE Answer(p)
    BY <2>1, AnswerMoves
  <2>2. CASE ~Answer(p)
    <3>1. PICK u \in Ids, i \in Identities :
            req' = [req EXCEPT ![p].at = "CreateUserIdentity", ![p].target = u, ![p].identity = i]
      BY <1>2, <2>2 DEF GetUserByID
    <3>0. u \in Nat /\ "CreateUserIdentity" \in Places
      BY DEF Ids, Places
    <3> DEFINE r == [req[p] EXCEPT !.at = "CreateUserIdentity", !.target = u, !.identity = i]
    <3>2. r \in Request /\ r.at = "CreateUserIdentity"
      BY <1>0, <3>0 DEF Request
    <3>3. req' = [req EXCEPT ![p] = r]
      BY <1>0, <3>1
    <3> QED  BY <1>0, <3>2, <3>3, Assigned DEF Quiet, Spoken
  <2> QED  BY <2>1, <2>2
<1>3. CASE GetUserIdentityByID(p)
  <2>1. CASE Answer(p)
    BY <2>1, AnswerMoves
  <2>2. CASE ~Answer(p)
    <3> DEFINE at == IF req[p].op = "updateIdentity" THEN "UpdateUserIdentity" ELSE "DeleteUserIdentity"
    <3>1. PICK r \in Ids : req' = [req EXCEPT ![p].at = at, ![p].target = r]
      BY <1>3, <2>2 DEF GetUserIdentityByID
    <3>2. at \in Places /\ at \notin Spoken
      BY DEF Places, Spoken
    <3>3. r \in Nat
      BY DEF Ids
    <3> HIDE DEF at
    <3>4. Moves(p) /\ req'[p].at = at
      BY <3>1, <3>2, <3>3, TargetMoves
    <3> QED  BY <3>2, <3>4 DEF Quiet
  <2> QED  BY <2>1, <2>2
<1>4. CASE \/ DisableCreated(p) \/ UpdateUser(p) \/ CommitDelete(p)
           \/ CreateUserIdentity(p) \/ UpdateUserIdentity(p) \/ DeleteUserIdentity(p)
  <2>1. Answer(p)
    BY <1>4 DEF DisableCreated, UpdateUser, CommitDelete,
                CreateUserIdentity, UpdateUserIdentity, DeleteUserIdentity
  <2> QED  BY <2>1, AnswerMoves
<1> QED  BY <1>1, <1>2, <1>3, <1>4

LEMMA GoesQuietly ==
  ASSUME TypeOK, NEW p \in Procs, NEW at \in Places \ Spoken, Go(p, at)
  PROVE  Quiet(p)
  BY GoMoves DEF TypeOK, ReqType, Request, Quiet

LEMMA OthersQuietly ==
  ASSUME TypeOK, NEW p \in Procs,
         \/ Owns(p) \/ Fails(p) \/ Admitted(p)
         \/ SetAdmin(p) \/ BindIdentityUser(p) \/ GetUserIdentity(p) \/ BindIdentity(p) \/ RebindIdentity(p)
  PROVE  Quiet(p)
<1>1. Answer(p) \/ Go(p, "GetUserIdentity") \/ Go(p, "BindIdentity") \/ Go(p, "RebindIdentity")
  BY DEF Owns, Refuse, GetMe, CreateApiKey, UpdateApiKey, DeleteApiKey, UpsertUserSetting,
         DeleteUserSetting, Fails, Admitted, SetAdmin, BindIdentityUser, GetUserIdentity,
         BindIdentity, RebindIdentity
<1>2. {"GetUserIdentity", "BindIdentity", "RebindIdentity"} \subseteq Places \ Spoken
  BY DEF Places, Spoken
<1> QED  BY <1>1, <1>2, AnswerMoves, GoesQuietly

----------------------------------------------------------------------------
(* The others.                                                             *)

\* The request goes on as a user whose row is there, and as that row says.
TakesUser(p) == /\ req'[p].who \in DOMAIN users
                /\ req'[p].admin = users[req'[p].who].admin
LoggedIn == {"resolved", "DeleteExpiredUserSessions"}

LEMMA TouchMoves ==
  ASSUME TypeOK, NEW p \in Procs, TouchUserSession(p)
  PROVE  \/ Quiet(p)
         \/ /\ Moves(p) /\ req'[p].at = "resolved"
            /\ TakesUser(p) /\ ~users[req'[p].who].disabled
<1>1. CASE Answer(p)
  BY <1>1, AnswerMoves
<1>2. CASE ~Answer(p)
  <2> DEFINE s == req[p].cookie.id
  <2>1. PICK u \in DOMAIN users :
          /\ ~users[u].disabled
          /\ req' = [req EXCEPT ![p].at = "resolved", ![p].who = u, ![p].admin = users[u].admin,
                                ![p].set = SessionCookie(s), ![p].clock = 0]
    BY <1>2 DEF TouchUserSession, Q!TouchedUser
  <2> DEFINE r == [req[p] EXCEPT !.at = "resolved", !.who = u, !.admin = users[u].admin,
                                 !.set = SessionCookie(s), !.clock = 0]
  <2>2. req[p] \in Request /\ ReqType /\ now \in Nat
    BY DEF TypeOK, ReqType
  <2>3. u \in Nat /\ users[u].admin \in BOOLEAN /\ "resolved" \in Places
    BY DEF TypeOK, User, Places, Rows
  <2>4. SessionCookie(s) \in Cookie
    BY <2>2, CookieTypes DEF Request, Cookie
  <2>5. r \in Request /\ r.at = "resolved" /\ r.who = u /\ r.admin = users[u].admin
    BY <2>2, <2>3, <2>4 DEF Request
  <2>6. req' = [req EXCEPT ![p] = r]
    BY <2>1, <2>2
  <2>7. Moves(p) /\ req'[p] = r
    BY <2>2, <2>5, <2>6, Assigned
  <2> QED  BY <2>1, <2>5, <2>7 DEF TakesUser
<1> QED  BY <1>1, <1>2

LEMMA UserTypes ==
  ASSUME TypeOK
  PROVE  \A u \in DOMAIN users : u \in Nat /\ users[u].admin \in BOOLEAN
  BY DEF TypeOK, User, Rows

LEMMA GetUserMoves ==
  ASSUME TypeOK, NEW p \in Procs, GetUserByIdentity(p)
  PROVE  \/ Quiet(p)
         \/ /\ Moves(p) /\ req'[p].at \in LoggedIn
            /\ TakesUser(p) /\ ~users[req'[p].who].disabled
<1>1. CASE Answer(p)
  BY <1>1, AnswerMoves
<1>2. CASE Go(p, "InsertUser")
  BY <1>2, GoesQuietly DEF Places, Spoken
<1>3. CASE ~Answer(p) /\ ~Go(p, "InsertUser")
  <2>1. PICK u \in DOMAIN users : ~users[u].disabled /\ Resolved(p, u, users[u].admin, FALSE)
    BY <1>3 DEF GetUserByIdentity, UsersOf, Q!GetUserByIdentity
  <2>2. PICK admin \in BOOLEAN, lost \in BOOLEAN : admin = users[u].admin /\ lost = FALSE
    BY UserTypes
  <2>3. u \in Nat /\ Resolved(p, u, admin, lost)
    BY <2>1, <2>2, UserTypes
  <2>4. /\ Moves(p) /\ req'[p].at \in {"resolved", "DeleteExpiredUserSessions"}
        /\ req'[p].who = u /\ req'[p].admin = users[u].admin
    BY <2>2, <2>3, ResolvedMoves
  <2> QED  BY <2>1, <2>4 DEF TakesUser, LoggedIn
<1> QED  BY <1>1, <1>2, <1>3

LEMMA LoserMoves ==
  ASSUME TypeOK, NEW p \in Procs, NEW u \in Nat, NEW admin \in BOOLEAN, Resolved(p, u, admin, TRUE)
  PROVE  /\ Moves(p) /\ req'[p].at \in LoggedIn
         /\ req'[p].who = u /\ req'[p].admin = admin /\ req'[p].lost
<1> DEFINE at == IF req[p].op = "callback" THEN "DeleteExpiredUserSessions" ELSE "resolved"
           clock == IF req[p].op = "callback" THEN now ELSE 0
           r == [req[p] EXCEPT !.at = at, !.who = u, !.admin = admin, !.lost = TRUE, !.clock = clock]
<1>1. req[p] \in Request /\ ReqType
  BY DEF TypeOK, ReqType
<1>2. at \in Places /\ at \in LoggedIn /\ clock \in Nat
  BY DEF Places, LoggedIn, TypeOK
<1> HIDE DEF at, clock
<1>3. r \in Request /\ r.at = at /\ r.who = u /\ r.admin = admin /\ r.lost
  BY <1>1, <1>2 DEF Request
<1>4. req' = [req EXCEPT ![p] = r]
  BY <1>1 DEF Resolved, at, clock
<1> QED  BY <1>1, <1>2, <1>3, <1>4, Assigned

LEMMA RereadMoves ==
  ASSUME TypeOK, NEW p \in Procs, Reread(p)
  PROVE  \/ Quiet(p)
         \/ Moves(p) /\ req'[p].at \in LoggedIn /\ TakesUser(p) /\ req'[p].lost
<1>1. CASE Answer(p)
  BY <1>1, AnswerMoves
<1>2. CASE ~Answer(p)
  <2>1. PICK u \in DOMAIN users : Resolved(p, u, users[u].admin, TRUE)
    BY <1>2 DEF Reread, UsersOf, Q!GetUserByIdentity
  <2>2. PICK admin \in BOOLEAN : admin = users[u].admin
    BY UserTypes
  <2>3. u \in Nat /\ Resolved(p, u, admin, TRUE)
    BY <2>1, <2>2, UserTypes
  <2>4. /\ Moves(p) /\ req'[p].at \in LoggedIn
        /\ req'[p].who = u /\ req'[p].admin = users[u].admin /\ req'[p].lost
    BY <2>2, <2>3, LoserMoves
  <2> QED  BY <2>1, <2>4 DEF TakesUser
<1> QED  BY <1>1, <1>2

LEMMA CommitUserMoves ==
  ASSUME TypeOK, NEW p \in Procs, CommitUser(p)
  PROVE  /\ Moves(p) /\ req'[p].at \in LoggedIn
         /\ req'[p].who = req[p].target
         /\ req'[p].admin = (config.provider = "single-user-mode")
<1>1. req[p].target \in Nat
  BY DEF TypeOK, Request
<1>2. Resolved(p, req[p].target, config.provider = "single-user-mode", FALSE)
  BY DEF CommitUser
<1>3. (config.provider = "single-user-mode") \in BOOLEAN /\ FALSE \in BOOLEAN
  OBVIOUS
<1> QED  BY <1>1, <1>2, <1>3, ResolvedMoves, Zenon DEF LoggedIn

LEMMA InsertUserMoves ==
  ASSUME TypeOK, NEW p \in Procs, InsertUser(p)
  PROVE  /\ Moves(p) /\ req'[p].at = "InsertUserIdentity"
         /\ req'[p].target = last.user + 1 /\ req'[p].identity = req[p].identity
<1>1. last.user + 1 \in Nat /\ "InsertUserIdentity" \in Places
  BY DEF TypeOK, Places
<1>2. PICK t \in Nat : t = last.user + 1
  BY <1>1
<1>3. req' = [req EXCEPT ![p].at = "InsertUserIdentity", ![p].target = t]
  BY <1>2 DEF InsertUser
<1> QED  BY <1>1, <1>2, <1>3, TargetMoves

LEMMA GoKeeps ==
  ASSUME TypeOK, NEW p \in Procs, NEW at \in Places, Go(p, at)
  PROVE  /\ Moves(p) /\ req'[p].at = at /\ req'[p].who = req[p].who /\ req'[p].target = req[p].target
         /\ req'[p].identity = req[p].identity /\ req'[p].rows = req[p].rows
<1>1. ReqType /\ req[p] \in Request
  BY DEF TypeOK, ReqType
<1>2. Moves(p) /\ req'[p] = [req[p] EXCEPT !.at = at]
  BY <1>1, GoMoves
<1> QED  BY <1>1, <1>2 DEF Request

LEMMA InsertUserIdentityMoves ==
  ASSUME TypeOK, NEW p \in Procs, InsertUserIdentity(p)
  PROVE  \/ Quiet(p)
         \/ /\ Moves(p) /\ req'[p].at = "CommitUser"
            /\ req'[p].target = req[p].target /\ req'[p].identity = req[p].identity
            /\ Binds(req[p].identity) = {}
<1>1. CASE Go(p, "Reread")
  BY <1>1, GoesQuietly DEF Places, Spoken
<1>2. CASE ~Go(p, "Reread")
  <2>1. Go(p, "CommitUser") /\ Binds(req[p].identity) = {} /\ "CommitUser" \in Places
    BY <1>2 DEF InsertUserIdentity, Places
  <2> QED  BY <2>1, GoKeeps
<1> QED  BY <1>1, <1>2

LEMMA DeleteExpiredMoves ==
  ASSUME TypeOK, NEW p \in Procs, DeleteExpiredUserSessions(p)
  PROVE  Moves(p) /\ req'[p].at = "InsertUserSession" /\ req'[p].who = req[p].who
<1>1. PICK clock \in req[p].clock..now :
        req' = [req EXCEPT ![p].at = "InsertUserSession", ![p].clock = clock]
  BY DEF DeleteExpiredUserSessions
<1> DEFINE r == [req[p] EXCEPT !.at = "InsertUserSession", !.clock = clock]
<1>2. req[p] \in Request /\ ReqType /\ clock \in Nat
  BY DEF TypeOK, ReqType, Request
<1>3. r \in Request /\ r.at = "InsertUserSession" /\ r.who = req[p].who
  BY <1>2 DEF Request, Places
<1>4. req' = [req EXCEPT ![p] = r]
  BY <1>1, <1>2
<1> QED  BY <1>2, <1>3, <1>4, Assigned

LEMMA DeleteUserIdentitiesMoves ==
  ASSUME TypeOK, NEW p \in Procs, DeleteUserIdentities(p)
  PROVE  /\ Moves(p) /\ req'[p].at = "DeleteUserSessionsByUser"
         /\ req'[p].rows \subseteq DOMAIN idents
         /\ \A r \in req'[p].rows : idents[r].user = req'[p].target
<1>1. PICK u \in Ids, rows \in SUBSET DOMAIN idents :
        /\ \A r \in rows : idents[r].user = u
        /\ req' = [req EXCEPT ![p].at = "DeleteUserSessionsByUser", ![p].target = u, ![p].rows = rows]
  BY DEF DeleteUserIdentities, Q!DeleteUserIdentitiesByUser
<1> DEFINE r == [req[p] EXCEPT !.at = "DeleteUserSessionsByUser", !.target = u, !.rows = rows]
<1>2. req[p] \in Request /\ ReqType /\ rows \in SUBSET Nat
  BY DEF TypeOK, ReqType, Rows
<1>3. u \in Nat /\ "DeleteUserSessionsByUser" \in Places
  BY DEF Ids, Places
<1>4. r \in Request /\ r.at = "DeleteUserSessionsByUser" /\ r.target = u /\ r.rows = rows
  BY <1>2, <1>3 DEF Request
<1>5. req' = [req EXCEPT ![p] = r]
  BY <1>1, <1>2
<1>6. Moves(p) /\ req'[p] = r
  BY <1>2, <1>4, <1>5, Assigned
<1> QED  BY <1>1, <1>4, <1>6

LEMMA DeleteUserSessionsMoves ==
  ASSUME TypeOK, NEW p \in Procs, DeleteUserSessions(p)
  PROVE  /\ Moves(p) /\ req'[p].at = "DeleteUser"
         /\ req'[p].rows = req[p].rows /\ req'[p].target = req[p].target
<1>1. PICK mine \in SUBSET DOMAIN sess :
        req' = [req EXCEPT ![p].at = "DeleteUser", ![p].sessions = mine]
  BY DEF DeleteUserSessions, Q!DeleteUserSessionsByUser
<1> DEFINE r == [req[p] EXCEPT !.at = "DeleteUser", !.sessions = mine]
<1>2. req[p] \in Request /\ ReqType /\ mine \in SUBSET Nat /\ "DeleteUser" \in Places
  BY DEF TypeOK, ReqType, Places, Rows
<1>3. r \in Request /\ r.at = "DeleteUser" /\ r.target = req[p].target /\ r.rows = req[p].rows
  BY <1>2 DEF Request
<1>4. req' = [req EXCEPT ![p] = r]
  BY <1>1, <1>2
<1> QED  BY <1>2, <1>3, <1>4, Assigned

LEMMA DeleteUserMoves ==
  ASSUME TypeOK, NEW p \in Procs, DeleteUser(p)
  PROVE  /\ Moves(p) /\ req'[p].at = "CommitDelete"
         /\ req'[p].rows = req[p].rows /\ req'[p].target = req[p].target
<1>1. "CommitDelete" \in Places /\ Go(p, "CommitDelete")
  BY DEF Places, DeleteUser
<1> QED  BY <1>1, GoKeeps

LEMMA GetKeyMoves ==
  ASSUME TypeOK, NEW p \in Procs, GetApiKeyByKey(p)
  PROVE  \/ Quiet(p)
         \/ /\ Moves(p) /\ req'[p].at = "GetOwner"
            /\ <<req'[p].via, req'[p].who>> \in EnabledKeys
<1>1. CASE Answer(p)
  BY <1>1, AnswerMoves
<1>2. CASE ~Answer(p)
  <2>1. PICK k \in DOMAIN keys :
          /\ keys[k].token = req[p].via /\ ~keys[k].disabled
          /\ req' = [req EXCEPT ![p].at = "GetOwner", ![p].who = keys[k].user]
    BY <1>2 DEF GetApiKeyByKey, Q!GetApiKeyByKey
  <2> DEFINE r == [req[p] EXCEPT !.at = "GetOwner", !.who = keys[k].user]
  <2>2. req[p] \in Request /\ ReqType /\ "GetOwner" \in Places
    BY DEF TypeOK, ReqType, Places
  <2>3. keys[k].user \in Nat
    BY DEF TypeOK, ApiKey, Rows
  <2>4. r \in Request /\ r.at = "GetOwner" /\ r.via = req[p].via /\ r.who = keys[k].user
    BY <2>2, <2>3 DEF Request
  <2>5. req' = [req EXCEPT ![p] = r]
    BY <2>1, <2>2
  <2>6. Moves(p) /\ req'[p] = r
    BY <2>2, <2>4, <2>5, Assigned
  <2>7. <<keys[k].token, keys[k].user>> \in EnabledKeys
    BY <2>1 DEF EnabledKeys
  <2> QED  BY <2>1, <2>4, <2>6, <2>7
<1> QED  BY <1>1, <1>2

LEMMA GetOwnerMoves ==
  ASSUME TypeOK, NEW p \in Procs, GetOwner(p)
  PROVE  \/ Quiet(p)
         \/ /\ Moves(p) /\ req'[p].at = "admitted"
            /\ TakesUser(p) /\ ~users[req'[p].who].disabled
            /\ req'[p].via = req[p].via /\ req'[p].who = req[p].who
<1>1. CASE Answer(p)
  BY <1>1, AnswerMoves
<1>2. CASE ~Answer(p)
  <2> DEFINE u == req[p].who
             r == [req[p] EXCEPT !.at = "admitted", !.admin = users[u].admin]
  <2>1. /\ u \in DOMAIN users /\ ~users[u].disabled
        /\ req' = [req EXCEPT ![p].at = "admitted", ![p].admin = users[u].admin]
    BY <1>2 DEF GetOwner, Q!GetUserByID
  <2>2. req[p] \in Request /\ ReqType /\ "admitted" \in Places
    BY DEF TypeOK, ReqType, Places
  <2>3. users[u].admin \in BOOLEAN
    BY <2>1, UserTypes
  <2>4. r \in Request /\ r.at = "admitted" /\ r.via = req[p].via /\ r.who = u /\ r.admin = users[u].admin
    BY <2>2, <2>3 DEF Request
  <2>5. req' = [req EXCEPT ![p] = r]
    BY <2>1, <2>2
  <2>6. Moves(p) /\ req'[p] = r
    BY <2>2, <2>4, <2>5, Assigned
  <2> QED  BY <2>1, <2>4, <2>6 DEF TakesUser
<1> QED  BY <1>1, <1>2

LEMMA RequestMoves ==
  ASSUME TypeOK, NEW p \in Procs, Arrives(p) \/ Serves(p)
  PROVE  Moves(p)
<1>1. CASE Arrives(p)
  BY <1>1, ArrivesQuietly DEF Quiet
<1>2. CASE Resolves(p)
  BY <1>2, TouchMoves, GetUserMoves, InsertUserMoves, InsertUserIdentityMoves, CommitUserMoves,
     RereadMoves, ImpersonateQuietly DEF Resolves, Quiet
<1>3. CASE LogsIn(p)
  BY <1>3, LogsInQuietly, DeleteExpiredMoves DEF LogsIn, Quiet
<1>4. CASE Administers(p)
  BY <1>4, AdministersQuietly, DeleteUserIdentitiesMoves, DeleteUserSessionsMoves, DeleteUserMoves
     DEF Administers, Quiet
<1>5. CASE Owns(p) \/ Passes(p) \/ Fails(p)
  BY <1>5, OthersQuietly, GetKeyMoves, GetOwnerMoves DEF Passes, Quiet
<1> QED  BY <1>1, <1>2, <1>3, <1>4, <1>5 DEF Serves

----------------------------------------------------------------------------
(* What the statements do to a table.                                      *)

LEMMA PutRows ==
  ASSUME NEW t, NEW ids, NEW more, NEW Row, Rows(t, ids, Row), ids \subseteq more,
         NEW x \in more, NEW row \in Row
  PROVE  /\ Rows(Q!Put(t, x, row), more, Row)
         /\ DOMAIN Q!Put(t, x, row) = DOMAIN t \cup {x} /\ Q!Put(t, x, row)[x] = row
         /\ \A y \in DOMAIN t : y # x => Q!Put(t, x, row)[y] = t[y]
  BY DEF Rows, Q!Put

LEMMA WithoutRows ==
  ASSUME NEW t, NEW ids, NEW Row, Rows(t, ids, Row), NEW S
  PROVE  /\ Rows(Q!Without(t, S), ids, Row)
         /\ DOMAIN Q!Without(t, S) = DOMAIN t \ S
         /\ \A y \in DOMAIN t \ S : Q!Without(t, S)[y] = t[y]
  BY DEF Rows, Q!Without

LEMMA SetUsers ==
  ASSUME NEW t, NEW ids, Rows(t, ids, User), NEW u, NEW admin \in BOOLEAN, NEW disabled \in BOOLEAN
  PROVE  /\ Rows(Q!UpdateUser(t, u, admin, disabled), ids, User)
         /\ DOMAIN Q!UpdateUser(t, u, admin, disabled) = DOMAIN t
         /\ Rows(Q!UpdateUserAdmin(t, u, admin), ids, User)
         /\ DOMAIN Q!UpdateUserAdmin(t, u, admin) = DOMAIN t
  BY DEF Rows, Q!UpdateUser, Q!UpdateUserAdmin, Q!Set, User

LEMMA SetKeys ==
  ASSUME NEW t, NEW ids, Rows(t, ids, ApiKey), NEW k, NEW u, NEW token \in Tokens, NEW disabled \in BOOLEAN
  PROVE  Rows(Q!UpdateApiKey(t, k, u, token, disabled), ids, ApiKey)
  BY DEF Rows, Q!UpdateApiKey, Q!Set, ApiKey

LEMMA SetSessions ==
  ASSUME NEW t, NEW ids, Rows(t, ids, UserSession), NEW s, NEW time, NEW expires \in Int
  PROVE  LET u == Q!TouchUserSession(t, s, time, expires)
         IN /\ Rows(u, ids, UserSession) /\ DOMAIN u = DOMAIN t
            /\ \A x \in DOMAIN t : u[x].user = t[x].user
            /\ \A x \in DOMAIN t : u[x] # t[x] => x = s /\ t[x].expires > time
  BY DEF Rows, Q!TouchUserSession, Q!Set, UserSession

LEMMA SetIdentities ==
  ASSUME NEW t, NEW ids, Rows(t, ids, UserIdentity), NEW r, NEW i \in Identities \cup {Nobody}, NEW u \in Nat
  PROVE  /\ Rows(Q!UpdateUserIdentity(t, r, i), ids, UserIdentity)
         /\ Rows(Q!UpdateUserIdentityUser(t, i, u), ids, UserIdentity)
  BY DEF Rows, Q!UpdateUserIdentity, Q!UpdateUserIdentityUser, Q!Set, UserIdentity

----------------------------------------------------------------------------
(* Types.                                                                  *)

\* TypeOK in two parts, and ReqType is the third: the tables, and the rest.
RowsType == /\ last \in [user : Nat, ident : Nat, key : Nat, sess : Nat, state : Nat]
            /\ Rows(users, Nat, User)
            /\ Rows(idents, 1..last.ident, UserIdentity)
            /\ Rows(keys, 1..last.key, ApiKey)
            /\ Rows(sess, 1..last.sess, UserSession)

LEMMA SameRows ==
  ASSUME TypeOK, UNCHANGED tables
  PROVE  RowsType'
  BY DEF TypeOK, tables, RowsType

LEMMA UsersTyped ==
  ASSUME TypeOK, NEW p \in Procs,
         \/ InsertUser(p) \/ CommitUser(p) \/ CreateUser(p) \/ DisableCreated(p) \/ UpdateUser(p)
         \/ CommitDelete(p) \/ SetAdmin(p)
  PROVE  RowsType'
<1>0. RowsType /\ req[p] \in Request
  BY DEF TypeOK, RowsType
<1>1. CASE InsertUser(p)
  BY <1>0, <1>1 DEF RowsType, InsertUser
<1>2. CASE CommitUser(p)
  <2> DEFINE u == req[p].target
  <2>1. u \in Nat /\ req[p].identity \in Identities \cup {Nobody}
    BY <1>0 DEF Request
  <2>2. [user |-> u, identity |-> req[p].identity] \in UserIdentity
    BY <2>1 DEF UserIdentity
  <2>3. PICK row \in User : users' = Q!Put(users, u, row)
    BY <1>2 DEF CommitUser, Q!InsertUser, User
  <2>4. Rows(users', Nat, User)
    BY <1>0, <2>1, <2>3, PutRows DEF RowsType
  <2>5. last'.ident = last.ident + 1 /\ last' \in [user : Nat, ident : Nat, key : Nat, sess : Nat, state : Nat]
        /\ last'.key = last.key /\ last'.sess = last.sess
    BY <1>0, <1>2 DEF CommitUser, RowsType
  <2>6. 1..last.ident \subseteq 1..last'.ident /\ last.ident + 1 \in 1..last'.ident
    BY <1>0, <2>5 DEF RowsType
  <2>7. Rows(idents', 1..last'.ident, UserIdentity)
    <3>1. CASE idents' = idents
      BY <1>0, <2>6, <3>1 DEF RowsType, Rows
    <3>2. CASE idents' # idents
      <4>1. idents' = Q!Put(idents, last.ident + 1, [user |-> u, identity |-> req[p].identity])
        BY <1>2, <3>2 DEF CommitUser, Q!InsertUserIdentity
      <4> QED  BY <1>0, <2>2, <2>6, <4>1, PutRows DEF RowsType
    <3> QED  BY <3>1, <3>2
  <2> QED  BY <1>0, <1>2, <2>4, <2>5, <2>7 DEF CommitUser, RowsType
<1>3. CASE CreateUser(p)
  <2>1. last' = [last EXCEPT !.user = @ + 1] /\ UNCHANGED <<idents, keys, sess>>
    BY <1>3 DEF CreateUser, UserChange
  <2>2. PICK admin \in BOOLEAN : users' = Q!Put(users, last.user + 1, [admin |-> admin, disabled |-> FALSE])
    BY <1>3 DEF CreateUser, Q!InsertUser
  <2>3. [admin |-> admin, disabled |-> FALSE] \in User /\ last.user + 1 \in Nat
    BY <1>0 DEF User, RowsType
  <2>4. Rows(users', Nat, User)
    BY <1>0, <2>2, <2>3, PutRows DEF RowsType
  <2> QED  BY <1>0, <2>1, <2>4 DEF RowsType
<1>4. CASE DisableCreated(p)
  <2>1. UNCHANGED <<last, idents, keys, sess>> /\ users' = Q!UpdateUser(users, req[p].target, req[p].admin, TRUE)
    BY <1>4 DEF DisableCreated, UserChange
  <2>2. req[p].admin \in BOOLEAN
    BY <1>0 DEF Request
  <2>3. Rows(users', Nat, User)
    BY <1>0, <2>1, <2>2, SetUsers DEF RowsType
  <2> QED  BY <1>0, <2>1, <2>3 DEF RowsType
<1>5. CASE UpdateUser(p)
  <2>1. UNCHANGED <<last, idents, keys, sess>>
    BY <1>5 DEF UpdateUser, UserChange
  <2>2. PICK u \in Ids, admin \in BOOLEAN, disabled \in BOOLEAN : users' = Q!UpdateUser(users, u, admin, disabled)
    BY <1>5 DEF UpdateUser
  <2>3. Rows(users', Nat, User)
    BY <1>0, <2>2, SetUsers DEF RowsType
  <2> QED  BY <1>0, <2>1, <2>3 DEF RowsType
<1>6. CASE CommitDelete(p)
  <2>1. /\ UNCHANGED <<last, keys>> /\ users' = Q!Without(users, {req[p].target})
        /\ idents' = Q!Without(idents, req[p].rows) /\ sess' = Q!Without(sess, req[p].sessions)
    BY <1>6 DEF CommitDelete, Q!DeleteUser
  <2> QED  BY <1>0, <2>1, WithoutRows DEF RowsType
<1>7. CASE SetAdmin(p)
  <2>1. UNCHANGED <<last, idents, keys, sess>> /\ users' = Q!UpdateUserAdmin(users, req[p].target, TRUE)
    BY <1>7 DEF SetAdmin, UserChange
  <2>2. Rows(users', Nat, User)
    BY <1>0, <2>1, SetUsers DEF RowsType
  <2> QED  BY <1>0, <2>1, <2>2 DEF RowsType
<1> QED  BY <1>1, <1>2, <1>3, <1>4, <1>5, <1>6, <1>7

LEMMA IdentsTyped ==
  ASSUME TypeOK, NEW p \in Procs,
         \/ CreateUserIdentity(p) \/ UpdateUserIdentity(p) \/ DeleteUserIdentity(p)
         \/ BindIdentity(p) \/ RebindIdentity(p)
  PROVE  RowsType'
<1>0. RowsType /\ req[p] \in Request
  BY DEF TypeOK, RowsType
<1>1. CASE CreateUserIdentity(p) \/ BindIdentity(p)
  <2> DEFINE row == [user |-> req[p].target, identity |-> req[p].identity]
  <2>1. row \in UserIdentity
    BY <1>0 DEF Request, UserIdentity
  <2>2. last' = [last EXCEPT !.ident = @ + 1] /\ UNCHANGED <<users, keys, sess>>
    BY <1>1 DEF CreateUserIdentity, BindIdentity, IdentityChange
  <2>3. 1..last.ident \subseteq 1..last'.ident /\ last.ident + 1 \in 1..last'.ident
    BY <1>0, <2>2 DEF RowsType
  <2>4. idents' = idents \/ idents' = Q!Put(idents, last.ident + 1, row)
    BY <1>1 DEF CreateUserIdentity, BindIdentity, Q!CreateUserIdentity, Q!InsertUserIdentity
  <2>5. Rows(idents', 1..last'.ident, UserIdentity)
    <3>1. CASE idents' = idents
      BY <1>0, <2>3, <3>1 DEF RowsType, Rows
    <3>2. CASE idents' = Q!Put(idents, last.ident + 1, row)
      BY <1>0, <2>1, <2>3, <3>2, PutRows DEF RowsType
    <3> QED  BY <2>4, <3>1, <3>2
  <2> QED  BY <1>0, <2>2, <2>5 DEF RowsType
<1>2. CASE UpdateUserIdentity(p)
  <2>1. UNCHANGED <<last, users, keys, sess>>
    BY <1>2 DEF UpdateUserIdentity, IdentityChange
  <2>2. PICK i \in Identities : idents' = Q!UpdateUserIdentity(idents, req[p].target, i)
    BY <1>2 DEF UpdateUserIdentity
  <2>3. Rows(idents', 1..last.ident, UserIdentity)
    BY <1>0, <2>2, SetIdentities DEF RowsType
  <2> QED  BY <1>0, <2>1, <2>3 DEF RowsType
<1>3. CASE DeleteUserIdentity(p)
  <2>1. UNCHANGED <<last, users, keys, sess>> /\ idents' = Q!Without(idents, {req[p].target})
    BY <1>3 DEF DeleteUserIdentity, IdentityChange, Q!DeleteUserIdentity
  <2> QED  BY <1>0, <2>1, WithoutRows DEF RowsType
<1>4. CASE RebindIdentity(p)
  <2>1. UNCHANGED <<last, users, keys, sess>>
        /\ idents' = Q!UpdateUserIdentityUser(idents, req[p].identity, req[p].target)
    BY <1>4 DEF RebindIdentity, IdentityChange
  <2>2. req[p].identity \in Identities \cup {Nobody} /\ req[p].target \in Nat
    BY <1>0 DEF Request
  <2>3. Rows(idents', 1..last.ident, UserIdentity)
    BY <1>0, <2>1, <2>2, SetIdentities DEF RowsType
  <2> QED  BY <1>0, <2>1, <2>3 DEF RowsType
<1> QED  BY <1>1, <1>2, <1>3, <1>4

LEMMA OwnedTyped ==
  ASSUME TypeOK, NEW p \in Procs,
         \/ TouchUserSession(p) \/ DeleteExpiredUserSessions(p) \/ InsertUserSession(p)
         \/ DeleteUserSession(p) \/ Login(p) \/ Owns(p)
  PROVE  RowsType'
<1> DEFINE clock == req[p].clock
<1>0. RowsType /\ req[p] \in Request /\ clock \in Int /\ clock + SessionTTL \in Int
  BY TimesToLive DEF TypeOK, RowsType, Request
<1>1. CASE TouchUserSession(p)
  <2>1. UNCHANGED <<last, users, idents, keys>>
        /\ sess' = Q!TouchUserSession(sess, req[p].cookie.id, clock, clock + SessionTTL)
    BY <1>1 DEF TouchUserSession
  <2>2. PICK expires \in Int : expires = clock + SessionTTL
    BY <1>0
  <2>3. Rows(sess', 1..last.sess, UserSession)
    BY <1>0, <2>1, <2>2, SetSessions DEF RowsType
  <2> QED  BY <1>0, <2>1, <2>3 DEF RowsType
<1>2. CASE DeleteExpiredUserSessions(p)
  <2>1. UNCHANGED <<last, users, idents, keys>>
    BY <1>2 DEF DeleteExpiredUserSessions
  <2>3. PICK S : sess' = sess \/ sess' = Q!Without(sess, S)
    BY <1>2 DEF DeleteExpiredUserSessions
  <2>4. Rows(sess', 1..last.sess, UserSession)
    <3>1. CASE sess' = sess
      BY <1>0, <3>1 DEF RowsType, Rows
    <3>2. CASE sess' = Q!Without(sess, S)
      BY <1>0, <3>2, WithoutRows DEF RowsType
    <3> QED  BY <2>3, <3>1, <3>2
  <2> QED  BY <1>0, <2>1, <2>4 DEF RowsType
<1>3. CASE InsertUserSession(p)
  <2>1. PICK row : /\ row = [user |-> req[p].who, expires |-> clock + SessionTTL]
                   /\ sess' = Q!Put(sess, last.sess + 1, row)
    BY <1>3 DEF InsertUserSession, Q!InsertUserSession
  <2>2. row \in UserSession
    BY <1>0, <2>1 DEF Request, UserSession
  <2>3. last' = [last EXCEPT !.sess = last.sess + 1] /\ UNCHANGED <<users, idents, keys>>
    BY <1>3 DEF InsertUserSession
  <2>4. 1..last.sess \subseteq 1..last'.sess /\ last.sess + 1 \in 1..last'.sess
    BY <1>0, <2>3 DEF RowsType
  <2>5. Rows(sess', 1..last'.sess, UserSession)
    BY <1>0, <2>1, <2>2, <2>4, PutRows DEF RowsType
  <2> QED  BY <1>0, <2>3, <2>5 DEF RowsType
<1>4. CASE DeleteUserSession(p)
  <2>1. UNCHANGED <<last, users, idents, keys>>
    BY <1>4 DEF DeleteUserSession
  <2>2. PICK S : sess' = Q!Without(sess, S)
    BY <1>4 DEF DeleteUserSession, Q!DeleteUserSession
  <2>3. Rows(sess', 1..last.sess, UserSession)
    BY <1>0, <2>2, WithoutRows DEF RowsType
  <2> QED  BY <1>0, <2>1, <2>3 DEF RowsType
<1>5. CASE Login(p)
  BY <1>0, <1>5 DEF Login, RowsType
<1>6. CASE CreateApiKey(p)
  <2>1. last' = [last EXCEPT !.key = @ + 1] /\ UNCHANGED <<users, idents, sess>>
    BY <1>6 DEF CreateApiKey, KeyChange
  <2>2. 1..last.key \subseteq 1..last'.key /\ last.key + 1 \in 1..last'.key
    BY <1>0, <2>1 DEF RowsType
  <2>3. PICK t \in Tokens, d \in BOOLEAN : keys' = Q!InsertApiKey(keys, last.key + 1, t, req[p].who, d)
    BY <1>6 DEF CreateApiKey
  <2>4. PICK row \in ApiKey : row = [token |-> t, user |-> req[p].who, disabled |-> d]
    BY <1>0 DEF Request, ApiKey
  <2>5. keys' = keys \/ keys' = Q!Put(keys, last.key + 1, row)
    BY <2>3, <2>4 DEF Q!InsertApiKey
  <2>6. Rows(keys', 1..last'.key, ApiKey)
    <3>1. CASE keys' = keys
      BY <1>0, <2>2, <3>1 DEF RowsType, Rows
    <3>2. CASE keys' = Q!Put(keys, last.key + 1, row)
      BY <1>0, <2>2, <3>2, PutRows DEF RowsType
    <3> QED  BY <2>5, <3>1, <3>2
  <2> QED  BY <1>0, <2>1, <2>6 DEF RowsType
<1>7. CASE UpdateApiKey(p) \/ DeleteApiKey(p)
  <2>1. UNCHANGED <<last, users, idents, sess>>
    BY <1>7 DEF UpdateApiKey, DeleteApiKey, KeyChange
  <2>2. Rows(keys', 1..last.key, ApiKey)
    <3>1. CASE UpdateApiKey(p)
      <4>1. PICK k \in Ids, t \in Tokens, d \in BOOLEAN : keys' = Q!UpdateApiKey(keys, k, req[p].who, t, d)
        BY <3>1 DEF UpdateApiKey
      <4>2. PICK u : u = req[p].who
        OBVIOUS
      <4> QED  BY <1>0, <4>1, <4>2, SetKeys DEF RowsType
    <3>2. CASE DeleteApiKey(p)
      <4>1. PICK S : keys' = Q!Without(keys, S)
        BY <3>2 DEF DeleteApiKey, Q!DeleteApiKey
      <4> QED  BY <1>0, <4>1, WithoutRows DEF RowsType
    <3> QED  BY <1>7, <3>1, <3>2
  <2> QED  BY <1>0, <2>1, <2>2 DEF RowsType
<1>8. CASE Refuse(p) \/ GetMe(p) \/ UpsertUserSetting(p) \/ DeleteUserSetting(p)
  BY <1>0, <1>8 DEF Refuse, GetMe, UpsertUserSetting, DeleteUserSetting, Reads, tables, RowsType
<1> QED  BY <1>1, <1>2, <1>3, <1>4, <1>5, <1>6, <1>7, <1>8 DEF Owns

\* The steps that change no table.
Asks(p) ==
    \/ Arrives(p) \/ Respond(p) \/ Fails(p)
    \/ GetUserByIdentity(p) \/ InsertUserIdentity(p) \/ Reread(p) \/ Impersonate(p)
    \/ DeleteUserIdentities(p) \/ DeleteUserSessions(p) \/ DeleteUser(p)
    \/ GetUserByID(p) \/ GetUserIdentityByID(p)
    \/ GetApiKeyByKey(p) \/ GetOwner(p) \/ Admitted(p) \/ BindIdentityUser(p) \/ GetUserIdentity(p)

LEMMA AsksLeave ==
  ASSUME NEW p \in Procs, Asks(p)
  PROVE  UNCHANGED <<tables, history>>
<1>1. CASE Arrives(p)
  BY <1>1 DEF Arrives, BeginWithIdentity, BeginWithCookie, BeginLogin, Callback, BeginLogout,
              BeginGateway, BeginCommand, Begin
<1>2. CASE ~Arrives(p)
  BY <1>2 DEF Asks, Respond, Fails, GetUserByIdentity, InsertUserIdentity, Reread, Impersonate,
     DeleteUserIdentities, DeleteUserSessions, DeleteUser, GetUserByID, GetUserIdentityByID,
     GetApiKeyByKey, GetOwner, Admitted, BindIdentityUser, GetUserIdentity, Reads
<1> QED  BY <1>1, <1>2

LEMMA ServesIsOne ==
  ASSUME NEW p \in Procs, Arrives(p) \/ Serves(p)
  PROVE  \/ Asks(p) \/ Owns(p)
         \/ TouchUserSession(p) \/ InsertUser(p) \/ CommitUser(p)
         \/ Login(p) \/ DeleteExpiredUserSessions(p) \/ InsertUserSession(p) \/ DeleteUserSession(p)
         \/ CreateUser(p) \/ DisableCreated(p) \/ UpdateUser(p) \/ CommitDelete(p) \/ SetAdmin(p)
         \/ CreateUserIdentity(p) \/ UpdateUserIdentity(p) \/ DeleteUserIdentity(p)
         \/ BindIdentity(p) \/ RebindIdentity(p)
  BY DEF Asks, Serves, Resolves, LogsIn, Administers, Passes

RestType == /\ config \in Configs /\ now \in Nat
            /\ Rows(trips, 1..last.state, Sources) /\ jar \in [Browsers -> Cookie]

LEMMA RestTyped ==
  ASSUME TypeOK, NEW p \in Procs, Arrives(p) \/ Serves(p)
  PROVE  RestType'
<1>0. RestType /\ req[p] \in Request /\ last \in [user : Nat, ident : Nat, key : Nat, sess : Nat, state : Nat]
  BY DEF TypeOK, RestType
<1>1. CASE UNCHANGED <<config, now, trips, jar>> /\ last'.state = last.state
  BY <1>0, <1>1 DEF RestType
<1>2. CASE Login(p)
  <2>1. req[p].via \in Sources
    BY <1>0 DEF Request
  <2>2. last'.state = last.state + 1 /\ UNCHANGED <<config, now, jar>>
    BY <1>0, <1>2 DEF Login
  <2>3. 1..last.state \subseteq 1..last'.state /\ last.state + 1 \in 1..last'.state
    BY <1>0, <2>2
  <2>4. PICK b \in Sources : b = req[p].via
    BY <2>1
  <2>5. trips' = Q!Put(trips, last.state + 1, b)
    BY <1>2, <2>4 DEF Login
  <2>6. Rows(trips', 1..last'.state, Sources)
    BY <1>0, <2>3, <2>5, PutRows DEF RestType
  <2> QED  BY <1>0, <2>2, <2>6 DEF RestType
<1>3. CASE Callback(p)
  <2>1. UNCHANGED <<config, now, jar, last>>
    BY <1>3 DEF Callback, tables
  <2>2. PICK S : trips' = Q!Without(trips, S)
    BY <1>3 DEF Callback
  <2>3. Rows(trips', 1..last.state, Sources)
    BY <1>0, <2>2, WithoutRows DEF RestType
  <2> QED  BY <1>0, <2>1, <2>3 DEF RestType
<1>4. CASE Respond(p)
  <2>1. UNCHANGED <<config, now, trips, last>> /\ jar' = [jar EXCEPT ![req[p].via] = req[p].set]
    BY <1>4 DEF Respond, tables
  <2>2. req[p].set \in Cookie
    BY <1>0 DEF Request
  <2> QED  BY <1>0, <2>1, <2>2 DEF RestType
<1>5. CASE Arrives(p) /\ ~Callback(p)
  BY <1>0, <1>5 DEF Arrives, BeginWithIdentity, BeginWithCookie, BeginLogin, BeginLogout, BeginGateway,
                    BeginCommand, Begin, tables, browser, RestType
<1>6. CASE Serves(p) /\ ~Login(p) /\ ~Respond(p)
  <2>1. CASE Resolves(p)
    BY <1>0, <2>1 DEF Resolves, TouchUserSession, GetUserByIdentity, InsertUser, InsertUserIdentity,
                      CommitUser, Reread, Impersonate, Reads, Here, tables, browser, RestType
  <2>2. CASE LogsIn(p)
    BY <1>0, <1>6, <2>2 DEF LogsIn, DeleteExpiredUserSessions, InsertUserSession, DeleteUserSession,
                            Here, browser, RestType
  <2>3. CASE Administers(p)
    BY <1>0, <2>3 DEF Administers, CreateUser, DisableCreated, UpdateUser, DeleteUserIdentities,
       DeleteUserSessions, DeleteUser, CommitDelete, GetUserByID, CreateUserIdentity,
       GetUserIdentityByID, UpdateUserIdentity, DeleteUserIdentity,
       UserChange, IdentityChange, Reads, Here, tables, browser, RestType
  <2>4. CASE Owns(p) \/ Fails(p)
    BY <1>0, <2>4 DEF Owns, Refuse, GetMe, CreateApiKey, UpdateApiKey, DeleteApiKey, UpsertUserSetting,
       DeleteUserSetting, Fails, KeyChange, Reads, Here, tables, browser, RestType
  <2>5. CASE Passes(p)
    BY <1>0, <2>5 DEF Passes, GetApiKeyByKey, GetOwner, Admitted, SetAdmin, BindIdentityUser,
       GetUserIdentity, BindIdentity, RebindIdentity,
       UserChange, IdentityChange, Reads, Here, tables, browser, RestType
  <2> QED  BY <1>6, <2>1, <2>2, <2>3, <2>4, <2>5 DEF Serves
<1> QED  BY <1>2, <1>3, <1>4, <1>5, <1>6

LEMMA TypeStep ==
  ASSUME TypeOK, [Next]_vars
  PROVE  TypeOK'
<1>1. CASE UNCHANGED vars
  BY <1>1 DEF TypeOK, vars, tables, browser
<1>2. CASE Tick
  BY <1>2 DEF TypeOK, Tick, tables, browser
<1>3. ASSUME NEW p \in Procs, Arrives(p) \/ Serves(p)
      PROVE  TypeOK'
  <2>1. ReqType'
    BY <1>3, RequestMoves DEF Moves
  <2>2. RestType'
    BY <1>3, RestTyped
  <2>3. RowsType'
    BY <1>3, ServesIsOne, AsksLeave, SameRows, UsersTyped, IdentsTyped, OwnedTyped
  <2> QED  BY <2>1, <2>2, <2>3 DEF TypeOK, ReqType, RestType, RowsType
<1> QED  BY <1>1, <1>2, <1>3 DEF Next

LEMMA FirstSequence ==
  ASSUME NEW Row, NEW t \in Seq(Row)
  PROVE  Cardinality(DOMAIN t) = Len(t) /\ Len(t) \in Nat /\ Rows(t, 1..Len(t), Row)
<1>1. DOMAIN t = 1..Len(t) /\ Len(t) \in Nat /\ t \in [1..Len(t) -> Row]
  OBVIOUS
<1>2. Cardinality(1..Len(t)) = Len(t)
  BY <1>1, FS_Interval
<1> QED  BY <1>1, <1>2 DEF Rows

LEMMA TypeInit == Init => TypeOK
<1> SUFFICES ASSUME Init PROVE TypeOK
  OBVIOUS
<1>1. /\ Rows(users, 1..last.user, User) /\ Rows(idents, 1..last.ident, UserIdentity)
      /\ Rows(keys, 1..last.key, ApiKey) /\ Rows(sess, 1..last.sess, UserSession)
      /\ last \in [user : Nat, ident : Nat, key : Nat, sess : Nat, state : Nat]
  BY FirstTables, FirstSequence DEF Init
<1>2. Rows(users, Nat, User)
  BY <1>1 DEF Rows
<1>3. Rows(trips, 1..last.state, Sources)
  BY DEF Init, Rows
<1> QED  BY <1>1, <1>2, <1>3, IdleType, FirstTables DEF Init, TypeOK

\* Every statement of pkg/auth, the administration and the commands leaves
\* its table, the cookies and its request with their types.
THEOREM AccountsTypeCorrect == Spec => []TypeOK
  BY TypeInit, TypeStep, PTL DEF Spec

----------------------------------------------------------------------------
(* Whoever is let in was enabled.                                          *)

\* What a request has been told of its user is remembered as having been so;
\* between the row of a key and the row of its owner only the key is known.
AdmitInv(p) ==
    /\ req[p].at \in LoggedIn /\ ~req[p].lost => <<req[p].who, req[p].admin>> \in seen[p].users
    /\ req[p].at = "GetOwner" => <<req[p].via, req[p].who>> \in seen[p].keys
    /\ req[p].at = "admitted" => /\ <<req[p].who, req[p].admin>> \in seen[p].users
                               /\ <<req[p].via, req[p].who>> \in seen[p].keys

LEMMA SeenGrows ==
  ASSUME Watch, NEW p \in Procs, req'[p].at # "idle"
  PROVE  /\ seen'[p].users = seen[p].users \cup EnabledUsers \cup EnabledUsers'
         /\ seen'[p].keys = seen[p].keys \cup EnabledKeys \cup EnabledKeys'
  BY DEF Watch

LEMMA AdmitStays ==
  ASSUME Watch, NEW p \in Procs, AdmitInv(p), req'[p] = req[p]
  PROVE  AdmitInv(p)'
  BY SeenGrows DEF AdmitInv, LoggedIn

LEMMA TakenWasEnabled ==
  ASSUME NEW p \in Procs, TakesUser(p), ~users[req'[p].who].disabled
  PROVE  <<req'[p].who, req'[p].admin>> \in EnabledUsers
  BY DEF TakesUser, EnabledUsers

LEMMA CreatedIsEnabled ==
  ASSUME TypeOK, NEW p \in Procs, CommitUser(p)
  PROVE  <<req'[p].who, req'[p].admin>> \in EnabledUsers'
<1> DEFINE u == req[p].target
           admin == config.provider = "single-user-mode"
           row == [admin |-> admin, disabled |-> FALSE]
<1>1. users' = Q!Put(users, u, row)
  BY DEF CommitUser, Q!InsertUser
<1>2. u \in DOMAIN users' /\ users'[u] = row
  BY <1>1 DEF Q!Put
<1>3. ~row.disabled /\ row.admin = admin
  OBVIOUS
<1>4. <<u, admin>> \in EnabledUsers'
  BY <1>2, <1>3 DEF EnabledUsers
<1> QED  BY <1>4, CommitUserMoves

LEMMA AdmitStep ==
  ASSUME TypeOK, Watch, NEW p \in Procs, Arrives(p) \/ Serves(p), AdmitInv(p)
  PROVE  AdmitInv(p)'
<1>1. ASSUME Quiet(p) PROVE AdmitInv(p)'
  BY <1>1 DEF Quiet, Spoken, AdmitInv, LoggedIn
<1>2. ASSUME req'[p].at \in LoggedIn, <<req'[p].who, req'[p].admin>> \in EnabledUsers \cup EnabledUsers'
      PROVE  AdmitInv(p)'
  BY <1>2, SeenGrows DEF AdmitInv, LoggedIn
<1>3. ASSUME req'[p].at \in Spoken \ {"resolved", "DeleteExpiredUserSessions", "GetOwner", "admitted"}
      PROVE  AdmitInv(p)'
  BY <1>3 DEF AdmitInv, LoggedIn, Spoken
<1>4. CASE Arrives(p)
  BY <1>1, <1>4, ArrivesQuietly
<1>5. CASE Resolves(p)
  <2>1. CASE TouchUserSession(p) \/ GetUserByIdentity(p)
    BY <1>1, <1>2, <2>1, TouchMoves, GetUserMoves, TakenWasEnabled DEF LoggedIn
  <2>2. CASE CommitUser(p)
    BY <1>2, <2>2, CommitUserMoves, CreatedIsEnabled
  <2>3. CASE Reread(p)
    BY <1>1, <2>3, RereadMoves DEF AdmitInv, LoggedIn
  <2>4. CASE InsertUser(p) \/ InsertUserIdentity(p)
    BY <1>1, <1>3, <2>4, InsertUserMoves, InsertUserIdentityMoves DEF Spoken
  <2>5. CASE Impersonate(p)
    BY <1>1, <2>5, ImpersonateQuietly
  <2> QED  BY <1>5, <2>1, <2>2, <2>3, <2>4, <2>5 DEF Resolves
<1>6. CASE LogsIn(p)
  BY <1>1, <1>3, <1>6, LogsInQuietly, DeleteExpiredMoves DEF LogsIn, Spoken
<1>7. CASE Administers(p)
  BY <1>1, <1>3, <1>7, AdministersQuietly, DeleteUserIdentitiesMoves, DeleteUserSessionsMoves,
     DeleteUserMoves DEF Administers, Spoken
<1>8. CASE GetApiKeyByKey(p)
  BY <1>1, <1>8, GetKeyMoves, SeenGrows DEF AdmitInv, LoggedIn
<1>9. CASE GetOwner(p)
  <2>1. CASE Quiet(p)
    BY <1>1, <2>1
  <2>2. CASE ~Quiet(p)
    <3>1. /\ req'[p].at = "admitted" /\ req'[p].via = req[p].via /\ req'[p].who = req[p].who
          /\ <<req'[p].who, req'[p].admin>> \in EnabledUsers
      BY <1>9, <2>2, GetOwnerMoves, TakenWasEnabled
    <3>2. <<req[p].via, req[p].who>> \in seen[p].keys
      BY <1>9 DEF GetOwner, AdmitInv
    <3> QED  BY <3>1, <3>2, SeenGrows DEF AdmitInv, LoggedIn
  <2> QED  BY <2>1, <2>2
<1>10. CASE Owns(p) \/ Fails(p) \/ (Passes(p) /\ ~GetApiKeyByKey(p) /\ ~GetOwner(p))
  BY <1>1, <1>10, OthersQuietly DEF Passes
<1> QED  BY <1>4, <1>5, <1>6, <1>7, <1>8, <1>9, <1>10 DEF Serves

\* A request goes on, through resolveSession, resolveOrCreate or the gateway's
\* check of a key, only for a user that was enabled while it ran, and with
\* the rights that user then had: whatever the administrators do between its
\* statements.
THEOREM AdmittedWasEnabledHolds == Spec => []AdmittedWasEnabled
<1> DEFINE Inv == \A p \in Procs : AdmitInv(p)
<1>1. Init => Inv
  BY DEF Init, AdmitInv, LoggedIn, Idle
<1>2. TypeOK /\ Inv /\ [Next]_vars => Inv'
  <2> SUFFICES ASSUME TypeOK, Inv, [Next]_vars, NEW q \in Procs PROVE AdmitInv(q)'
    OBVIOUS
  <2>1. CASE UNCHANGED vars
    BY <2>1 DEF vars, AdmitInv
  <2>2. CASE Tick /\ Watch
    BY <2>2, AdmitStays DEF Tick
  <2>3. ASSUME NEW p \in Procs, Arrives(p) \/ Serves(p), Watch
        PROVE  AdmitInv(q)'
    <3>1. CASE q = p
      BY <2>3, <3>1, AdmitStep
    <3>2. CASE q # p
      BY <2>3, <3>2, AdmitStays, RequestMoves DEF Moves, Only
    <3> QED  BY <3>1, <3>2
  <2> QED  BY <2>1, <2>2, <2>3 DEF Next
<1>3. Inv => AdmittedWasEnabled
  BY DEF AdmitInv, AdmittedWasEnabled, LoggedIn
<1> QED  BY <1>1, <1>2, <1>3, AccountsTypeCorrect, PTL DEF Spec

----------------------------------------------------------------------------
(* What a step leaves of users, sessions and ids.                          *)

LEMMA NowStays ==
  ASSUME NEW p \in Procs, Arrives(p) \/ Serves(p)
  PROVE  now' = now
<1>1. CASE Arrives(p)
  BY <1>1 DEF Arrives, BeginWithIdentity, BeginWithCookie, BeginLogin, Callback, BeginLogout,
              BeginGateway, BeginCommand, Begin
<1>2. CASE Asks(p) /\ ~Arrives(p)
  BY <1>2 DEF Asks, Respond, Fails, GetUserByIdentity, InsertUserIdentity, Reread, Impersonate,
     DeleteUserIdentities, DeleteUserSessions, DeleteUser, GetUserByID, GetUserIdentityByID,
     GetApiKeyByKey, GetOwner, Admitted, BindIdentityUser, GetUserIdentity, Reads, Here
<1>3. CASE Owns(p)
  BY <1>3 DEF Owns, Refuse, GetMe, CreateApiKey, UpdateApiKey, DeleteApiKey, UpsertUserSetting,
              DeleteUserSetting, KeyChange, Reads, Here
<1>4. CASE ~Arrives(p) /\ ~Asks(p) /\ ~Owns(p)
  BY <1>4, ServesIsOne DEF TouchUserSession, InsertUser, CommitUser, Login, DeleteExpiredUserSessions,
     InsertUserSession, DeleteUserSession, CreateUser, DisableCreated, UpdateUser, CommitDelete,
     SetAdmin, CreateUserIdentity, UpdateUserIdentity, DeleteUserIdentity, BindIdentity,
     RebindIdentity, UserChange, IdentityChange, Here
<1> QED  BY <1>1, <1>2, <1>3, <1>4

LEMMA AsksLast ==
  ASSUME NEW p \in Procs, Asks(p)
  PROVE  UNCHANGED <<users, idents, sess, last, made, freed>>
  BY AsksLeave DEF tables, history

LEMMA OwnsLeave ==
  ASSUME TypeOK, NEW p \in Procs, Owns(p)
  PROVE  UNCHANGED <<users, idents, sess, made, freed>> /\ last'.user = last.user /\ last'.ident = last.ident
  BY DEF Owns, Refuse, GetMe, CreateApiKey, UpdateApiKey, DeleteApiKey, UpsertUserSetting,
         DeleteUserSetting, KeyChange, Reads, tables, history, TypeOK

LEMMA UserIdsMove ==
  ASSUME TypeOK, NEW p \in Procs, Arrives(p) \/ Serves(p)
  PROVE  last'.user = IF InsertUser(p) \/ CreateUser(p) THEN last.user + 1 ELSE last.user
<1>1. CASE Asks(p) \/ Owns(p)
  <2>1. last'.user = last.user
    BY <1>1, AsksLast, OwnsLeave
  <2>2. ~InsertUser(p) /\ ~CreateUser(p)
    BY <1>1, <2>1 DEF TypeOK, InsertUser, CreateUser
  <2> QED  BY <2>1, <2>2
<1>2. CASE InsertUser(p) \/ CreateUser(p)
  BY <1>2 DEF TypeOK, InsertUser, CreateUser
<1>3. CASE ~Asks(p) /\ ~Owns(p) /\ ~InsertUser(p) /\ ~CreateUser(p)
  BY <1>3, ServesIsOne DEF TypeOK, TouchUserSession, CommitUser, Login, DeleteExpiredUserSessions,
     InsertUserSession, DeleteUserSession, DisableCreated, UpdateUser, CommitDelete,
     SetAdmin, CreateUserIdentity, UpdateUserIdentity, DeleteUserIdentity, BindIdentity,
     RebindIdentity, UserChange, IdentityChange
<1> QED  BY <1>1, <1>2, <1>3

LEMMA UsersGrow ==
  ASSUME NEW p \in Procs
  PROVE  /\ CommitUser(p) => DOMAIN users' = DOMAIN users \cup {req[p].target}
         /\ CreateUser(p) => DOMAIN users' = DOMAIN users \cup {last.user + 1}
  BY DEF CommitUser, CreateUser, Q!InsertUser, Q!Put

LEMMA UsersShrink ==
  ASSUME TypeOK, NEW p \in Procs, Arrives(p) \/ Serves(p), ~CommitUser(p), ~CreateUser(p)
  PROVE  DOMAIN users' \subseteq DOMAIN users
<1>1. CASE Asks(p) \/ Owns(p)
  BY <1>1, AsksLast, OwnsLeave
<1>2. CASE DisableCreated(p) \/ UpdateUser(p) \/ SetAdmin(p)
  BY <1>2 DEF DisableCreated, UpdateUser, SetAdmin, Q!UpdateUser, Q!UpdateUserAdmin, Q!Set
<1>3. CASE CommitDelete(p)
  BY <1>3 DEF CommitDelete, Q!DeleteUser, Q!Without
<1>4. CASE \/ TouchUserSession(p) \/ InsertUser(p) \/ Login(p) \/ DeleteExpiredUserSessions(p)
           \/ InsertUserSession(p) \/ DeleteUserSession(p)
           \/ CreateUserIdentity(p) \/ UpdateUserIdentity(p) \/ DeleteUserIdentity(p)
           \/ BindIdentity(p) \/ RebindIdentity(p)
  BY <1>4 DEF TouchUserSession, InsertUser, Login, DeleteExpiredUserSessions, InsertUserSession,
     DeleteUserSession, CreateUserIdentity, UpdateUserIdentity, DeleteUserIdentity, BindIdentity,
     RebindIdentity, IdentityChange
<1> QED  BY <1>1, <1>2, <1>3, <1>4, ServesIsOne

\* Only a login inserts a session; an expiry slides only for a request whose
\* clock was before its time.
Slides(p, s) == /\ req[p].at = "TouchUserSession" /\ req[p].cookie.id = s
                /\ sess[s].expires > req[p].clock
LEMMA SessionsMove ==
  ASSUME TypeOK, NEW p \in Procs, Arrives(p) \/ Serves(p), NEW s \in DOMAIN sess',
         ~(InsertUserSession(p) /\ s = last.sess + 1)
  PROVE  /\ s \in DOMAIN sess /\ sess'[s].user = sess[s].user
         /\ sess'[s] # sess[s] => Slides(p, s)
<1> DEFINE clock == req[p].clock
<1>0. Rows(sess, 1..last.sess, UserSession) /\ clock \in Int /\ clock + SessionTTL \in Int
  BY TimesToLive DEF TypeOK, Request
<1>1. CASE UNCHANGED sess
  BY <1>1
<1>2. CASE TouchUserSession(p)
  <2>1. PICK expires \in Int : expires = clock + SessionTTL
    BY <1>0
  <2>2. sess' = Q!TouchUserSession(sess, req[p].cookie.id, clock, expires)
    BY <1>2, <2>1 DEF TouchUserSession
  <2>3. req[p].at = "TouchUserSession"
    BY <1>2 DEF TouchUserSession
  <2>4. /\ DOMAIN sess' = DOMAIN sess
        /\ \A x \in DOMAIN sess : sess'[x].user = sess[x].user
        /\ \A x \in DOMAIN sess : sess'[x] # sess[x] => x = req[p].cookie.id /\ sess[x].expires > clock
    BY <1>0, <2>1, <2>2, SetSessions
  <2> QED  BY <2>3, <2>4 DEF Slides
<1>3. CASE DeleteExpiredUserSessions(p) /\ sess' # sess
  BY <1>3 DEF DeleteExpiredUserSessions, Q!Without
<1>4. CASE DeleteUserSession(p) \/ CommitDelete(p)
  BY <1>4 DEF DeleteUserSession, CommitDelete, Q!DeleteUserSession, Q!Without
<1>5. CASE InsertUserSession(p)
  BY <1>5 DEF InsertUserSession, Q!InsertUserSession, Q!Put
<1>6. CASE Asks(p) \/ Owns(p)
  BY <1>1, <1>6, AsksLast, OwnsLeave
<1>7. CASE \/ InsertUser(p) \/ CommitUser(p) \/ Login(p) \/ CreateUser(p) \/ DisableCreated(p)
           \/ UpdateUser(p) \/ SetAdmin(p)
           \/ CreateUserIdentity(p) \/ UpdateUserIdentity(p) \/ DeleteUserIdentity(p)
           \/ BindIdentity(p) \/ RebindIdentity(p)
  BY <1>1, <1>7 DEF InsertUser, CommitUser, Login, CreateUser, DisableCreated, UpdateUser, SetAdmin,
     CreateUserIdentity, UpdateUserIdentity, DeleteUserIdentity, BindIdentity, RebindIdentity,
     UserChange, IdentityChange
<1> QED  BY <1>1, <1>2, <1>3, <1>4, <1>5, <1>6, <1>7, ServesIsOne

----------------------------------------------------------------------------
(* Ids given out.  A user's id is known once the row has been there; one   *)
(* that a first login took from the sequence is nobody's until it commits. *)

Creating(p) == req[p].at \in {"InsertUserIdentity", "CommitUser"}
LogsInAs(p) == req[p].at \in LoggedIn \cup {"InsertUserSession"}
Pending == {req[p].target : p \in {q \in Procs : Creating(q)}}
Known == (1..last.user) \ Pending

TakenInv == /\ \A p \in Procs : Creating(p) => req[p].target \in 1..last.user
            /\ \A p, q \in Procs : Creating(p) /\ Creating(q) /\ p # q => req[p].target # req[q].target
KnownInv == /\ DOMAIN users \subseteq Known
            /\ \A s \in DOMAIN sess : sess[s].user \in Known
            /\ \A p \in Procs : LogsInAs(p) => req[p].who \in Known
            /\ DOMAIN made \subseteq Known

LEMMA CreatingMoves ==
  ASSUME TypeOK, NEW p \in Procs, Arrives(p) \/ Serves(p), Creating(p)'
  PROVE  \/ InsertUser(p) /\ req'[p].target = last.user + 1
         \/ Creating(p) /\ req'[p].target = req[p].target
<1>1. ~Quiet(p) /\ req'[p].at \in {"InsertUserIdentity", "CommitUser"}
  BY DEF Quiet, Spoken, Creating
<1>2. CASE Arrives(p)
  BY <1>1, <1>2, ArrivesQuietly
<1>3. CASE Resolves(p)
  BY <1>1, <1>3, TouchMoves, GetUserMoves, InsertUserMoves, InsertUserIdentityMoves, CommitUserMoves,
     RereadMoves, ImpersonateQuietly DEF Resolves, LoggedIn, Creating, InsertUserIdentity
<1>4. CASE LogsIn(p)
  BY <1>1, <1>4, LogsInQuietly, DeleteExpiredMoves DEF LogsIn
<1>5. CASE Administers(p)
  BY <1>1, <1>5, AdministersQuietly, DeleteUserIdentitiesMoves, DeleteUserSessionsMoves, DeleteUserMoves
     DEF Administers
<1>6. CASE Owns(p) \/ Passes(p) \/ Fails(p)
  BY <1>1, <1>6, OthersQuietly, GetKeyMoves, GetOwnerMoves DEF Passes
<1> QED  BY <1>2, <1>3, <1>4, <1>5, <1>6 DEF Serves

LEMMA TakenStep ==
  ASSUME TypeOK, TakenInv, NEW p \in Procs, Arrives(p) \/ Serves(p)
  PROVE  TakenInv' /\ Known \subseteq Known'
<1>1. last.user \in Nat /\ last'.user \in Nat /\ last'.user >= last.user
      /\ (InsertUser(p) => last'.user = last.user + 1)
  BY UserIdsMove DEF TypeOK
<1>2. \A q \in Procs : q # p => req'[q] = req[q]
  BY RequestMoves DEF Moves, Only
<1>3. \A q \in Procs : Creating(q)' =>
        \/ q = p /\ req'[q].target = last.user + 1 /\ last'.user = last.user + 1
        \/ Creating(q) /\ req'[q].target = req[q].target
  BY <1>1, <1>2, CreatingMoves DEF Creating
<1>4. TakenInv'
  BY <1>1, <1>3 DEF TakenInv
<1>5. ASSUME NEW u \in Known PROVE u \in Known'
  <2>1. u \in 1..last'.user /\ u # last.user + 1
    BY <1>1 DEF Known
  <2>2. ASSUME NEW q \in Procs, Creating(q)' PROVE req'[q].target # u
    BY <1>3, <2>1, <2>2 DEF Known, Pending
  <2> QED  BY <2>1, <2>2 DEF Known, Pending
<1> QED  BY <1>4, <1>5

LEMMA MadeMoves ==
  ASSUME TypeOK, NEW p \in Procs, Arrives(p) \/ Serves(p)
  PROVE  \/ made' = made
         \/ CommitUser(p) /\ made' = Q!Put(made, req[p].target, req[p].identity)
<1>1. CASE Asks(p) \/ Owns(p)
  BY <1>1, AsksLast, OwnsLeave
<1>2. CASE CommitUser(p)
  BY <1>2 DEF CommitUser
<1>3. CASE ~Asks(p) /\ ~Owns(p) /\ ~CommitUser(p)
  BY <1>3, ServesIsOne DEF TouchUserSession, InsertUser, Login, DeleteExpiredUserSessions,
     InsertUserSession, DeleteUserSession, CreateUser, DisableCreated, UpdateUser, CommitDelete,
     SetAdmin, CreateUserIdentity, UpdateUserIdentity, DeleteUserIdentity, BindIdentity,
     RebindIdentity, UserChange, IdentityChange, history
<1> QED  BY <1>1, <1>2, <1>3

LEMMA CommittedIsKnown ==
  ASSUME TypeOK, TakenInv, NEW p \in Procs, CommitUser(p)
  PROVE  req[p].target \in Known'
<1>1. req[p].target \in 1..last.user /\ last'.user = last.user
  BY DEF CommitUser, TakenInv, Creating, TypeOK
<1>2. ASSUME NEW q \in Procs, Creating(q)' PROVE req'[q].target # req[p].target
  <2>1. q # p
    BY <1>2, CommitUserMoves DEF Creating, LoggedIn
  <2>2. req'[q] = req[q]
    BY <2>1, CommitUserMoves DEF Moves, Only
  <2> QED  BY <1>2, <2>1, <2>2 DEF CommitUser, TakenInv, Creating
<1> QED  BY <1>1, <1>2 DEF Known, Pending

LEMMA CreatedIsKnown ==
  ASSUME TypeOK, TakenInv, NEW p \in Procs, CreateUser(p)
  PROVE  last.user + 1 \in Known'
<1>1. last.user \in Nat /\ last'.user = last.user + 1
  BY DEF CreateUser, TypeOK
<1>2. ASSUME NEW q \in Procs, Creating(q)' PROVE req'[q].target \in 1..last.user
  <2>1. Quiet(p)
    BY AdministersQuietly
  <2>2. q # p /\ req'[q] = req[q]
    BY <1>2, <2>1 DEF Quiet, Moves, Only, Creating, Spoken
  <2> QED  BY <1>2, <2>2 DEF TakenInv, Creating
<1> QED  BY <1>1, <1>2 DEF Known, Pending

LEMMA LogsInMoves ==
  ASSUME TypeOK, TakenInv, KnownInv, NEW p \in Procs, Arrives(p) \/ Serves(p), LogsInAs(p)'
  PROVE  req'[p].who \in Known'
<1>1. Known \subseteq Known'
  BY TakenStep
<1>2. ~Quiet(p) /\ req'[p].at \in {"resolved", "DeleteExpiredUserSessions", "InsertUserSession"}
  BY DEF Quiet, Spoken, LogsInAs, LoggedIn
<1>3. CASE Arrives(p)
  BY <1>2, <1>3, ArrivesQuietly
<1>4. CASE Resolves(p)
  <2>1. CASE CommitUser(p)
    BY <2>1, CommitUserMoves, CommittedIsKnown
  <2>2. CASE TouchUserSession(p) \/ GetUserByIdentity(p) \/ Reread(p)
    BY <1>1, <1>2, <2>2, TouchMoves, GetUserMoves, RereadMoves DEF TakesUser, KnownInv
  <2>3. CASE InsertUser(p) \/ InsertUserIdentity(p) \/ Impersonate(p)
    BY <1>2, <2>3, InsertUserMoves, InsertUserIdentityMoves, ImpersonateQuietly
  <2> QED  BY <1>4, <2>1, <2>2, <2>3 DEF Resolves
<1>5. CASE LogsIn(p)
  <2>1. CASE DeleteExpiredUserSessions(p)
    <3>1. LogsInAs(p) /\ req'[p].who = req[p].who
      BY <2>1, DeleteExpiredMoves DEF DeleteExpiredUserSessions, LogsInAs, LoggedIn
    <3> QED  BY <1>1, <3>1 DEF KnownInv
  <2>2. CASE ~DeleteExpiredUserSessions(p)
    BY <1>2, <1>5, <2>2, LogsInQuietly DEF LogsIn
  <2> QED  BY <2>1, <2>2
<1>6. CASE Administers(p)
  BY <1>2, <1>6, AdministersQuietly, DeleteUserIdentitiesMoves, DeleteUserSessionsMoves, DeleteUserMoves
     DEF Administers
<1>7. CASE Owns(p) \/ Passes(p) \/ Fails(p)
  BY <1>2, <1>7, OthersQuietly, GetKeyMoves, GetOwnerMoves DEF Passes
<1> QED  BY <1>3, <1>4, <1>5, <1>6, <1>7 DEF Serves

LEMMA KnownStep ==
  ASSUME TypeOK, TakenInv, KnownInv, NEW p \in Procs, Arrives(p) \/ Serves(p)
  PROVE  KnownInv'
<1>1. Known \subseteq Known'
  BY TakenStep
<1>2. DOMAIN users' \subseteq Known'
  BY <1>1, UsersGrow, UsersShrink, CommittedIsKnown, CreatedIsKnown DEF KnownInv
<1>3. ASSUME NEW s \in DOMAIN sess' PROVE sess'[s].user \in Known'
  <2>1. CASE InsertUserSession(p) /\ s = last.sess + 1
    <3>1. sess'[s].user = req[p].who
      BY <2>1 DEF InsertUserSession, Q!InsertUserSession, Q!Put
    <3>2. req[p].who \in Known
      BY <2>1 DEF KnownInv, InsertUserSession, LogsInAs
    <3> QED  BY <1>1, <3>1, <3>2
  <2>2. CASE ~(InsertUserSession(p) /\ s = last.sess + 1)
    BY <1>1, <1>3, <2>2, SessionsMove DEF KnownInv
  <2> QED  BY <2>1, <2>2
<1>4. ASSUME NEW q \in Procs, LogsInAs(q)' PROVE req'[q].who \in Known'
  <2>1. CASE q = p
    BY <1>4, <2>1, LogsInMoves
  <2>2. CASE q # p
    <3>1. req'[q] = req[q]
      BY <2>2, RequestMoves DEF Moves, Only
    <3> QED  BY <1>1, <1>4, <3>1 DEF KnownInv, LogsInAs
  <2> QED  BY <2>1, <2>2
<1>5. DOMAIN made' \subseteq Known'
  <2>1. CASE made' = made
    BY <1>1, <2>1 DEF KnownInv
  <2>2. CASE CommitUser(p) /\ made' = Q!Put(made, req[p].target, req[p].identity)
    <3>1. DOMAIN made' = DOMAIN made \cup {req[p].target}
      BY <2>2 DEF Q!Put
    <3> QED  BY <1>1, <2>2, <3>1, CommittedIsKnown DEF KnownInv
  <2> QED  BY <2>1, <2>2, MadeMoves
<1> QED  BY <1>2, <1>3, <1>4, <1>5 DEF KnownInv

IdInv == TakenInv /\ KnownInv

\* createUserWithIdentity takes a user's id before it commits the user: until
\* then the id is that request's alone, and no session, login or row has it.
THEOREM IdsAreKnown == Spec => [](TypeOK /\ IdInv)
<1>1. Init => IdInv
  <2> SUFFICES ASSUME Init PROVE IdInv
    OBVIOUS
  <2>1. TakenInv /\ Known = 1..last.user
    BY DEF Init, TakenInv, Known, Pending, Creating, Idle
  <2>2. DOMAIN users = 1..last.user /\ last.user \in Nat
    BY FirstTables, FirstSequence DEF Init
  <2>3. \A s \in DOMAIN sess : sess[s].user \in Known
    BY <2>1, <2>2, FirstTables DEF Init
  <2>4. \A p \in Procs : ~LogsInAs(p)
    BY DEF Init, LogsInAs, LoggedIn, Idle
  <2>5. DOMAIN made \subseteq Known
    BY DEF Init
  <2> QED  BY <2>1, <2>2, <2>3, <2>4, <2>5 DEF IdInv, KnownInv
<1>2. TypeOK /\ IdInv /\ [Next]_vars => IdInv'
  <2> SUFFICES ASSUME TypeOK, IdInv, [Next]_vars PROVE IdInv'
    OBVIOUS
  <2>1. CASE UNCHANGED vars \/ Tick
    BY <2>1 DEF IdInv, TakenInv, KnownInv, Known, Pending, Creating, LogsInAs, vars, Tick, tables, history
  <2>2. ASSUME NEW p \in Procs, Arrives(p) \/ Serves(p)
        PROVE  IdInv'
    BY <2>2, TakenStep, KnownStep DEF IdInv
  <2> QED  BY <2>1, <2>2 DEF Next
<1> QED  BY <1>1, <1>2, TypeInit, TypeStep, PTL DEF Spec

\* A session that has ended never begins again, except by a request that read
\* its clock before the end (TouchUserSession, InsertUserSession, logout).
THEOREM SessionsStayDeadHolds == Spec => SessionsStayDead
<1> DEFINE Dead == \A s \in 1..last.sess : Alive(s)' => Alive(s) \/ Outlasted(s)
<1>1. ASSUME TypeOK, IdInv, Next PROVE Dead
  <2>1. CASE Tick
    BY <1>1, <2>1 DEF Tick, tables, Alive, TypeOK, Rows, UserSession
  <2>2. ASSUME NEW p \in Procs, Arrives(p) \/ Serves(p)
        PROVE  Dead
    <3> SUFFICES ASSUME NEW s \in 1..last.sess, Alive(s)' PROVE Alive(s) \/ Outlasted(s)
      OBVIOUS
    <3>1. s # last.sess + 1 /\ now' = now
      BY <1>1, <2>2, NowStays DEF TypeOK
    <3>2. /\ s \in DOMAIN sess /\ sess'[s].user = sess[s].user
          /\ sess'[s] # sess[s] => Slides(p, s)
      BY <1>1, <2>2, <3>1, SessionsMove DEF Alive
    <3>3. sess[s].expires > now \/ Slides(p, s)
      BY <3>1, <3>2 DEF Alive
    <3>4. sess[s].user \in Known
      BY <1>1, <3>2 DEF IdInv, KnownInv
    <3>5. sess[s].user \in DOMAIN users
      <4>1. CASE CommitUser(p)
        <5>1. req[p].target \notin Known
          BY <4>1 DEF CommitUser, Known, Pending, Creating
        <5>2. DOMAIN users' = DOMAIN users \cup {req[p].target}
          BY <4>1, UsersGrow
        <5> QED  BY <3>2, <3>4, <5>1, <5>2 DEF Alive
      <4>2. CASE CreateUser(p)
        <5>1. last.user + 1 \notin Known
          BY <1>1 DEF Known, TypeOK
        <5> QED  BY <3>2, <3>4, <4>2, <5>1, UsersGrow DEF Alive
      <4>3. CASE ~CommitUser(p) /\ ~CreateUser(p)
        BY <1>1, <2>2, <3>2, <4>3, UsersShrink DEF Alive
      <4> QED  BY <4>1, <4>2, <4>3
    <3> QED  BY <3>2, <3>3, <3>5 DEF Alive, Outlasted, Slides
  <2> QED  BY <1>1, <2>1, <2>2 DEF Next
<1>2. TypeOK /\ IdInv /\ [Next]_vars => [Dead]_vars
  BY <1>1
<1> QED  BY <1>2, IdsAreKnown, PTL DEF Spec, SessionsStayDead

----------------------------------------------------------------------------
(* Who an identity is bound to.                                            *)

Inserts(p) == CommitUser(p) \/ CreateUserIdentity(p) \/ BindIdentity(p)
NewRow(p) == [user |-> req[p].target, identity |-> req[p].identity]

UniqueInv == \A r, s \in DOMAIN idents : idents[r].identity = idents[s].identity => r = s
\* Whoever is about to commit has made sure that nothing is bound, and keeps
\* others from binding it.
CommitInv ==
    /\ \A p \in Procs : req[p].at = "CommitUser" => Binds(req[p].identity) = {}
    /\ \A p, q \in Procs : req[p].at = "CommitUser" /\ req[q].at = "CommitUser" /\ p # q
                           => req[p].identity # req[q].identity
\* The rows a deletion has written are its user's.
DeleteInv == \A p \in Procs : Deleting(p) =>
    /\ req[p].rows \subseteq 1..last.ident
    /\ \A r \in req[p].rows \cap DOMAIN idents : idents[r].user = req[p].target
BoundInv == \A u \in DOMAIN made \cap DOMAIN users : made[u] \notin freed =>
    \E r \in DOMAIN idents : idents[r].user = u /\ idents[r].identity = made[u]
BindInv == UniqueInv /\ CommitInv /\ DeleteInv /\ BoundInv

LEMMA InsertsMove ==
  ASSUME TypeOK, NEW p \in Procs, Inserts(p)
  PROVE  /\ last'.ident = last.ident + 1 /\ last.ident + 1 \notin DOMAIN idents
         /\ Binds(req[p].identity) # {} => idents' = idents
         /\ Binds(req[p].identity) = {} =>
              /\ DOMAIN idents' = DOMAIN idents \cup {last.ident + 1}
              /\ idents'[last.ident + 1] = NewRow(p)
              /\ \A r \in DOMAIN idents : idents'[r] = idents[r]
         /\ freed' = freed
<1>1. last'.ident = last.ident + 1 /\ last.ident + 1 \notin DOMAIN idents
  <2>1. last \in [user : Nat, ident : Nat, key : Nat, sess : Nat, state : Nat]
        /\ DOMAIN idents \subseteq 1..last.ident
    BY DEF TypeOK, Rows
  <2>2. last' = [last EXCEPT !.ident = @ + 1]
    BY DEF Inserts, CommitUser, CreateUserIdentity, BindIdentity
  <2> QED  BY <2>1, <2>2
<1>2. idents' = IF Binds(req[p].identity) = {} THEN Q!Put(idents, last.ident + 1, NewRow(p)) ELSE idents
  <2>1. CASE CommitUser(p)
    BY <2>1 DEF CommitUser, Q!InsertUserIdentity, Binds, NewRow
  <2>2. CASE CreateUserIdentity(p)
    BY <2>2 DEF CreateUserIdentity, Q!CreateUserIdentity, Binds, NewRow
  <2>3. CASE BindIdentity(p)
    BY <2>3 DEF BindIdentity, Q!InsertUserIdentity, Binds, NewRow
  <2> QED  BY <2>1, <2>2, <2>3 DEF Inserts
<1>3. freed' = freed
  BY DEF Inserts, CommitUser, CreateUserIdentity, BindIdentity
<1> QED  BY <1>1, <1>2, <1>3 DEF Q!Put

LEMMA UpdateMoves ==
  ASSUME TypeOK, NEW p \in Procs, UpdateUserIdentity(p)
  PROVE  /\ last' = last /\ DOMAIN idents' = DOMAIN idents /\ freed \subseteq freed'
         /\ \E i \in Identities :
              /\ ~IdentityLocked(i)
              /\ \/ idents' = idents
                 \/ /\ Binds(i) \subseteq {req[p].target}
                    /\ \A r \in DOMAIN idents : idents'[r].user = idents[r].user
                    /\ \A r \in DOMAIN idents \ {req[p].target} : idents'[r] = idents[r]
                    /\ req[p].target \in DOMAIN idents =>
                         /\ idents'[req[p].target].identity = i
                         /\ idents[req[p].target].identity \in freed'
<1>1. PICK i \in Identities :
        /\ ~IdentityLocked(i)
        /\ idents' = Q!UpdateUserIdentity(idents, req[p].target, i)
        /\ freed' = freed \cup {idents[x].identity : x \in {x \in DOMAIN idents \cap {req[p].target} : idents' # idents}}
  BY DEF UpdateUserIdentity
<1>2. last' = last
  BY DEF UpdateUserIdentity
<1>3. Rows(idents, 1..last.ident, UserIdentity)
  BY DEF TypeOK
<1>4. CASE idents' = idents
  BY <1>1, <1>2, <1>4
<1>5. CASE idents' # idents
  <2>1. /\ Binds(i) \subseteq {req[p].target} /\ DOMAIN idents' = DOMAIN idents
        /\ \A r \in DOMAIN idents :
             idents'[r] = IF r = req[p].target THEN [idents[r] EXCEPT !.identity = i] ELSE idents[r]
    BY <1>1, <1>5 DEF Q!UpdateUserIdentity, Q!Set, Binds
  <2>2. \A r \in DOMAIN idents :
          /\ [idents[r] EXCEPT !.identity = i].user = idents[r].user
          /\ [idents[r] EXCEPT !.identity = i].identity = i
    BY <1>3 DEF Rows, UserIdentity
  <2>3. \A r \in DOMAIN idents : r = req[p].target => idents[r].identity \in freed'
    BY <1>1, <1>5
  <2>4. /\ \A r \in DOMAIN idents : idents'[r].user = idents[r].user
        /\ \A r \in DOMAIN idents \ {req[p].target} : idents'[r] = idents[r]
        /\ req[p].target \in DOMAIN idents =>
             /\ idents'[req[p].target].identity = i
             /\ idents[req[p].target].identity \in freed'
    BY <2>1, <2>2, <2>3
  <2>5. freed \subseteq freed'
    BY <1>1
  <2> QED  BY <1>1, <1>2, <2>1, <2>4, <2>5
<1> QED  BY <1>4, <1>5

LEMMA RemoveMoves ==
  ASSUME TypeOK, NEW p \in Procs, DeleteUserIdentity(p) \/ CommitDelete(p)
  PROVE  /\ last' = last /\ DOMAIN idents' \subseteq DOMAIN idents /\ freed \subseteq freed'
         /\ \A r \in DOMAIN idents' : idents'[r] = idents[r]
         /\ \A r \in DOMAIN idents \ DOMAIN idents' :
              \/ idents[r].identity \in freed'
              \/ CommitDelete(p) /\ r \in req[p].rows
<1>1. CASE DeleteUserIdentity(p)
  BY <1>1 DEF DeleteUserIdentity, Q!DeleteUserIdentity, Q!Without
<1>2. CASE CommitDelete(p)
  BY <1>2 DEF CommitDelete, Q!Without, history
<1> QED  BY <1>1, <1>2

LEMMA RebindMoves ==
  ASSUME TypeOK, NEW p \in Procs, RebindIdentity(p)
  PROVE  /\ last' = last /\ DOMAIN idents' = DOMAIN idents /\ freed \subseteq freed'
         /\ req[p].identity \in freed'
         /\ \A r \in Binds(req[p].identity) : ~RowLocked(r)
         /\ \A r \in DOMAIN idents : idents'[r].identity = idents[r].identity
         /\ \A r \in DOMAIN idents \ Binds(req[p].identity) : idents'[r] = idents[r]
<1>1. Rows(idents, 1..last.ident, UserIdentity)
  BY DEF TypeOK
<1>2. \A r \in DOMAIN idents :
        idents'[r] = IF r \in Binds(req[p].identity) THEN [idents[r] EXCEPT !.user = req[p].target] ELSE idents[r]
  BY DEF RebindIdentity, Q!UpdateUserIdentityUser, Q!Set, Binds
<1>3. DOMAIN idents' = DOMAIN idents
  BY DEF RebindIdentity, Q!UpdateUserIdentityUser, Q!Set
<1>4. \A r \in DOMAIN idents : [idents[r] EXCEPT !.user = req[p].target].identity = idents[r].identity
  BY <1>1 DEF Rows, UserIdentity
<1>5. /\ last' = last /\ freed' = freed \cup {req[p].identity}
      /\ \A r \in Binds(req[p].identity) : ~RowLocked(r)
  BY DEF RebindIdentity
<1> QED  BY <1>2, <1>3, <1>4, <1>5

\* The other steps bind nothing.
Binder(p) == Inserts(p) \/ UpdateUserIdentity(p) \/ DeleteUserIdentity(p) \/ CommitDelete(p) \/ RebindIdentity(p)

LEMMA OthersBindNothing ==
  ASSUME TypeOK, NEW p \in Procs, Arrives(p) \/ Serves(p), ~Binder(p)
  PROVE  UNCHANGED <<idents, freed, made>> /\ last'.ident = last.ident
<1>1. CASE Asks(p) \/ Owns(p)
  BY <1>1, AsksLast, OwnsLeave
<1>2. CASE ~Asks(p) /\ ~Owns(p)
  BY <1>2, ServesIsOne DEF Binder, Inserts, TypeOK, TouchUserSession, InsertUser, Login,
     DeleteExpiredUserSessions, InsertUserSession, DeleteUserSession, CreateUser, DisableCreated,
     UpdateUser, SetAdmin, UserChange, history
<1> QED  BY <1>1, <1>2

LEMMA UniqueStep ==
  ASSUME TypeOK, UniqueInv, NEW p \in Procs, Arrives(p) \/ Serves(p)
  PROVE  UniqueInv'
<1>1. CASE ~Binder(p)
  BY <1>1, OthersBindNothing DEF UniqueInv
<1>2. CASE Inserts(p)
  <2>1. CASE Binds(req[p].identity) # {}
    BY <1>2, <2>1, InsertsMove DEF UniqueInv
  <2>2. CASE Binds(req[p].identity) = {}
    <3>1. NewRow(p).identity = req[p].identity
      BY DEF NewRow
    <3>2. \A r \in DOMAIN idents : idents[r].identity # req[p].identity
      BY <2>2 DEF Binds, Q!GetUserIdentity
    <3> QED  BY <1>2, <2>2, <3>1, <3>2, InsertsMove DEF UniqueInv
  <2> QED  BY <2>1, <2>2
<1>3. CASE UpdateUserIdentity(p)
  <2>1. CASE idents' = idents
    BY <2>1 DEF UniqueInv
  <2>2. CASE idents' # idents
    <3> DEFINE t == req[p].target
    <3>1. PICK i \in Identities :
            /\ Binds(i) \subseteq {t}
            /\ \A r \in DOMAIN idents \ {t} : idents'[r] = idents[r]
            /\ t \in DOMAIN idents => idents'[t].identity = i
      BY <1>3, <2>2, UpdateMoves
    <3>2. \A r \in DOMAIN idents \ {t} : idents[r].identity # i
      BY <3>1 DEF Binds, Q!GetUserIdentity
    <3>3. DOMAIN idents' = DOMAIN idents
      BY <1>3, UpdateMoves
    <3> HIDE DEF t
    <3> SUFFICES ASSUME NEW r \in DOMAIN idents, NEW s \in DOMAIN idents,
                        idents'[r].identity = idents'[s].identity
                 PROVE  r = s
      BY <3>3 DEF UniqueInv
    <3>4. CASE r # t /\ s # t
      BY <3>1, <3>4 DEF UniqueInv
    <3>5. CASE r = t /\ s # t
      BY <3>1, <3>2, <3>5
    <3>6. CASE r # t /\ s = t
      BY <3>1, <3>2, <3>6
    <3> QED  BY <3>4, <3>5, <3>6
  <2> QED  BY <2>1, <2>2
<1>4. CASE DeleteUserIdentity(p) \/ CommitDelete(p)
  <2>1. DOMAIN idents' \subseteq DOMAIN idents /\ \A r \in DOMAIN idents' : idents'[r] = idents[r]
    BY <1>4, RemoveMoves
  <2> QED  BY <2>1 DEF UniqueInv
<1>5. CASE RebindIdentity(p)
  <2>1. DOMAIN idents' = DOMAIN idents /\ \A r \in DOMAIN idents : idents'[r].identity = idents[r].identity
    BY <1>5, RebindMoves
  <2> QED  BY <2>1 DEF UniqueInv
<1> QED  BY <1>1, <1>2, <1>3, <1>4, <1>5 DEF Binder

\* A request comes to its commit only by finding nothing bound and no one
\* else about to bind it.
LEMMA CommitMoves ==
  ASSUME TypeOK, NEW p \in Procs, Arrives(p) \/ Serves(p), req'[p].at = "CommitUser"
  PROVE  /\ UNCHANGED idents /\ req'[p].identity = req[p].identity
         /\ Binds(req[p].identity) = {} /\ ~IdentityLocked(req[p].identity)
<1>1. ~Quiet(p)
  BY DEF Quiet, Spoken
<1>2. InsertUserIdentity(p)
  <2>1. CASE Arrives(p)
    BY <1>1, <2>1, ArrivesQuietly
  <2>2. CASE Resolves(p)
    BY <1>1, <2>2, TouchMoves, GetUserMoves, InsertUserMoves, CommitUserMoves, RereadMoves,
       ImpersonateQuietly DEF Resolves, LoggedIn
  <2>3. CASE LogsIn(p)
    BY <1>1, <2>3, LogsInQuietly, DeleteExpiredMoves DEF LogsIn
  <2>4. CASE Administers(p)
    BY <1>1, <2>4, AdministersQuietly, DeleteUserIdentitiesMoves, DeleteUserSessionsMoves,
       DeleteUserMoves DEF Administers
  <2>5. CASE Owns(p) \/ Passes(p) \/ Fails(p)
    BY <1>1, <2>5, OthersQuietly, GetKeyMoves, GetOwnerMoves DEF Passes
  <2> QED  BY <2>1, <2>2, <2>3, <2>4, <2>5 DEF Serves
<1>3. UNCHANGED idents /\ ~IdentityLocked(req[p].identity)
  BY <1>2 DEF InsertUserIdentity, Reads, tables
<1> QED  BY <1>1, <1>2, <1>3, InsertUserIdentityMoves

LEMMA DeletingMoves ==
  ASSUME TypeOK, NEW p \in Procs, Arrives(p) \/ Serves(p), Deleting(p)'
  PROVE  /\ UNCHANGED idents
         /\ \/ /\ req'[p].rows \subseteq DOMAIN idents
               /\ \A r \in req'[p].rows : idents[r].user = req'[p].target
            \/ Deleting(p) /\ req'[p].rows = req[p].rows /\ req'[p].target = req[p].target
<1>1. ~Quiet(p) /\ req'[p].at \in {"DeleteUserSessionsByUser", "DeleteUser", "CommitDelete"}
  BY DEF Quiet, Spoken, Deleting
<1>2. DeleteUserIdentities(p) \/ DeleteUserSessions(p) \/ DeleteUser(p)
  <2>1. CASE Arrives(p)
    BY <1>1, <2>1, ArrivesQuietly
  <2>2. CASE Resolves(p)
    BY <1>1, <2>2, TouchMoves, GetUserMoves, InsertUserMoves, InsertUserIdentityMoves, CommitUserMoves,
       RereadMoves, ImpersonateQuietly DEF Resolves, LoggedIn
  <2>3. CASE LogsIn(p)
    BY <1>1, <2>3, LogsInQuietly, DeleteExpiredMoves DEF LogsIn
  <2>4. CASE Administers(p)
    BY <1>1, <2>4, AdministersQuietly DEF Administers
  <2>5. CASE Owns(p) \/ Passes(p) \/ Fails(p)
    BY <1>1, <2>5, OthersQuietly, GetKeyMoves, GetOwnerMoves DEF Passes
  <2> QED  BY <2>1, <2>2, <2>3, <2>4, <2>5 DEF Serves
<1>3. UNCHANGED idents
  BY <1>2 DEF DeleteUserIdentities, DeleteUserSessions, DeleteUser, Reads, tables
<1>4. DeleteUserSessions(p) \/ DeleteUser(p) => Deleting(p)
  BY DEF DeleteUserSessions, DeleteUser, Deleting
<1> QED  BY <1>2, <1>3, <1>4, DeleteUserIdentitiesMoves, DeleteUserSessionsMoves, DeleteUserMoves

\* Nobody binds an identity that another request is about to commit.
LEMMA LockHolds ==
  ASSUME TypeOK, CommitInv, NEW p \in Procs, Arrives(p) \/ Serves(p),
         NEW q \in Procs, q # p, req[q].at = "CommitUser"
  PROVE  Binds(req[q].identity)' = {}
<1>0. req'[q] = req[q]
  BY RequestMoves DEF Moves, Only
<1>1. PICK i : i = req[q].identity
  OBVIOUS
<1>2. \A r \in DOMAIN idents : idents[r].identity # i
  BY <1>1 DEF CommitInv, Binds, Q!GetUserIdentity
<1>3. IdentityLocked(i)
  BY <1>1 DEF IdentityLocked
<1>4. \A r \in DOMAIN idents' : idents'[r].identity # i
  <2>1. CASE ~Binder(p)
    BY <1>2, <2>1, OthersBindNothing
  <2>2. CASE Inserts(p)
    <3>1. req[p].identity # i
      <4>1. CASE CommitUser(p)
        BY <1>1, <4>1 DEF CommitUser, CommitInv
      <4>2. CASE CreateUserIdentity(p) \/ BindIdentity(p)
        <5>1. ~IdentityLocked(req[p].identity)
          BY <4>2 DEF CreateUserIdentity, BindIdentity
        <5> QED  BY <1>1, <5>1 DEF IdentityLocked
      <4> QED  BY <2>2, <4>1, <4>2 DEF Inserts
    <3>2. NewRow(p).identity = req[p].identity
      BY DEF NewRow
    <3>3. CASE Binds(req[p].identity) # {}
      BY <1>2, <2>2, <3>3, InsertsMove
    <3>4. CASE Binds(req[p].identity) = {}
      BY <1>2, <2>2, <3>1, <3>2, <3>4, InsertsMove
    <3> QED  BY <3>3, <3>4
  <2>3. CASE UpdateUserIdentity(p)
    <3> DEFINE t == req[p].target
    <3>1. DOMAIN idents' = DOMAIN idents
      BY <2>3, UpdateMoves
    <3>2. CASE idents' = idents
      BY <1>2, <3>2
    <3>3. CASE idents' # idents
      <4>1. PICK j \in Identities :
              /\ ~IdentityLocked(j)
              /\ \A r \in DOMAIN idents \ {t} : idents'[r] = idents[r]
              /\ t \in DOMAIN idents => idents'[t].identity = j
        BY <2>3, <3>3, UpdateMoves
      <4>2. j # i
        BY <1>3, <4>1
      <4> HIDE DEF t
      <4> QED  BY <1>2, <3>1, <4>1, <4>2
    <3> QED  BY <3>2, <3>3
  <2>4. CASE DeleteUserIdentity(p) \/ CommitDelete(p)
    <3>1. DOMAIN idents' \subseteq DOMAIN idents /\ \A r \in DOMAIN idents' : idents'[r] = idents[r]
      BY <2>4, RemoveMoves
    <3> QED  BY <1>2, <3>1
  <2>5. CASE RebindIdentity(p)
    BY <1>2, <2>5, RebindMoves
  <2> QED  BY <2>1, <2>2, <2>3, <2>4, <2>5 DEF Binder
<1> QED  BY <1>0, <1>1, <1>4 DEF Binds, Q!GetUserIdentity

LEMMA CommitStep ==
  ASSUME TypeOK, CommitInv, NEW p \in Procs, Arrives(p) \/ Serves(p)
  PROVE  CommitInv'
<1>1. \A q \in Procs : q # p => req'[q] = req[q]
  BY RequestMoves DEF Moves, Only
<1>2. ASSUME NEW q \in Procs, req'[q].at = "CommitUser" PROVE Binds(req[q].identity)' = {}
  <2>1. CASE q = p
    <3>1. /\ UNCHANGED idents /\ req'[p].identity = req[p].identity /\ Binds(req[p].identity) = {}
      BY <1>2, <2>1, CommitMoves
    <3> QED  BY <2>1, <3>1 DEF Binds, Q!GetUserIdentity
  <2>2. CASE q # p
    BY <1>1, <1>2, <2>2, LockHolds
  <2> QED  BY <2>1, <2>2
<1>3. ASSUME NEW q \in Procs, q # p, req'[q].at = "CommitUser", req'[p].at = "CommitUser"
      PROVE  req'[p].identity # req'[q].identity
  <2>1. req'[p].identity = req[p].identity /\ ~IdentityLocked(req[p].identity)
    BY <1>3, CommitMoves
  <2>2. req[q].at = "CommitUser" /\ req'[q] = req[q]
    BY <1>1, <1>3
  <2> QED  BY <2>1, <2>2 DEF IdentityLocked
<1>4. ASSUME NEW q \in Procs, NEW r \in Procs, q # p, r # p, q # r,
             req'[q].at = "CommitUser", req'[r].at = "CommitUser"
      PROVE  req'[q].identity # req'[r].identity
  BY <1>1, <1>4 DEF CommitInv
<1> QED  BY <1>2, <1>3, <1>4 DEF CommitInv

LEMMA DeleteStep ==
  ASSUME TypeOK, DeleteInv, NEW p \in Procs, Arrives(p) \/ Serves(p)
  PROVE  DeleteInv'
<1> SUFFICES ASSUME NEW q \in Procs, Deleting(q)'
             PROVE  /\ req'[q].rows \subseteq 1..last'.ident
                    /\ \A r \in req'[q].rows \cap DOMAIN idents' : idents'[r].user = req'[q].target
  BY DEF DeleteInv
<1>0. last.ident \in Nat /\ DOMAIN idents \subseteq 1..last.ident
  BY DEF TypeOK, Rows
<1>1. last'.ident \in Nat /\ last'.ident >= last.ident
  BY <1>0, OthersBindNothing, InsertsMove, UpdateMoves, RemoveMoves, RebindMoves DEF Binder
<1>2. CASE q = p
  BY <1>0, <1>1, <1>2, DeletingMoves DEF DeleteInv
<1>3. CASE q # p
  <2>1. req'[q] = req[q] /\ Deleting(q)
    BY <1>3, RequestMoves DEF Moves, Only, Deleting
  <2>2. req[q].rows \subseteq 1..last.ident /\ \A r \in req[q].rows : RowLocked(r)
    BY <2>1 DEF DeleteInv, RowLocked
  <2>3. ASSUME NEW r \in req[q].rows, r \in DOMAIN idents'
        PROVE  r \in DOMAIN idents /\ idents'[r].user = idents[r].user
    <3>1. CASE ~Binder(p)
      BY <2>3, <3>1, OthersBindNothing
    <3>2. CASE Inserts(p)
      <4>1. r # last.ident + 1
        BY <1>0, <2>2
      <4>2. CASE Binds(req[p].identity) # {}
        BY <2>3, <3>2, <4>2, InsertsMove
      <4>3. CASE Binds(req[p].identity) = {}
        BY <2>3, <3>2, <4>1, <4>3, InsertsMove
      <4> QED  BY <4>2, <4>3
    <3>3. CASE UpdateUserIdentity(p)
      <4>1. DOMAIN idents' = DOMAIN idents
        BY <3>3, UpdateMoves
      <4>2. idents' = idents \/ \A x \in DOMAIN idents : idents'[x].user = idents[x].user
        BY <3>3, UpdateMoves
      <4> QED  BY <2>3, <4>1, <4>2
    <3>4. CASE DeleteUserIdentity(p) \/ CommitDelete(p)
      <4>1. DOMAIN idents' \subseteq DOMAIN idents /\ \A x \in DOMAIN idents' : idents'[x] = idents[x]
        BY <3>4, RemoveMoves
      <4> QED  BY <2>3, <4>1
    <3>5. CASE RebindIdentity(p)
      <4>1. r \notin Binds(req[p].identity)
        BY <2>2, <3>5, RebindMoves
      <4> QED  BY <2>3, <3>5, <4>1, RebindMoves
    <3> QED  BY <3>1, <3>2, <3>3, <3>4, <3>5 DEF Binder
  <2> QED  BY <1>0, <1>1, <2>1, <2>2, <2>3 DEF DeleteInv
<1> QED  BY <1>2, <1>3

HasRow(u, i) == \E r \in DOMAIN idents : idents[r].user = u /\ idents[r].identity = i

\* The row of a user whose identity nobody takes away stays.
LEMMA RowStays ==
  ASSUME TypeOK, DeleteInv, NEW p \in Procs, Arrives(p) \/ Serves(p),
         NEW u, NEW i, HasRow(u, i), i \notin freed', CommitDelete(p) => u # req[p].target
  PROVE  HasRow(u, i)'
<1>1. PICK r \in DOMAIN idents : idents[r].user = u /\ idents[r].identity = i
  BY DEF HasRow
<1>2. r \in DOMAIN idents' /\ idents'[r].user = u /\ idents'[r].identity = i
  <2>1. CASE ~Binder(p)
    BY <1>1, <2>1, OthersBindNothing
  <2>2. CASE Inserts(p)
    <3>1. CASE Binds(req[p].identity) # {}
      BY <1>1, <2>2, <3>1, InsertsMove
    <3>2. CASE Binds(req[p].identity) = {}
      BY <1>1, <2>2, <3>2, InsertsMove
    <3> QED  BY <3>1, <3>2
  <2>3. CASE UpdateUserIdentity(p)
    <3>1. DOMAIN idents' = DOMAIN idents
      BY <2>3, UpdateMoves
    <3>2. CASE idents' = idents
      BY <1>1, <3>2
    <3>3. CASE idents' # idents
      <4>1. /\ \A x \in DOMAIN idents \ {req[p].target} : idents'[x] = idents[x]
            /\ req[p].target \in DOMAIN idents => idents[req[p].target].identity \in freed'
        BY <2>3, <3>3, UpdateMoves
      <4> QED  BY <1>1, <3>1, <4>1
    <3> QED  BY <3>2, <3>3
  <2>4. CASE DeleteUserIdentity(p) \/ CommitDelete(p)
    <3>1. r \in DOMAIN idents'
      <4>1. CASE CommitDelete(p) /\ r \in req[p].rows
        <5>1. Deleting(p)
          BY <4>1 DEF CommitDelete, Deleting
        <5> QED  BY <1>1, <4>1, <5>1 DEF DeleteInv
      <4>2. CASE ~(CommitDelete(p) /\ r \in req[p].rows)
        BY <1>1, <2>4, <4>2, RemoveMoves
      <4> QED  BY <4>1, <4>2
    <3> QED  BY <1>1, <2>4, <3>1, RemoveMoves
  <2>5. CASE RebindIdentity(p)
    <3>1. r \notin Binds(req[p].identity)
      BY <1>1, <2>5, RebindMoves DEF Binds, Q!GetUserIdentity
    <3> QED  BY <1>1, <2>5, <3>1, RebindMoves
  <2> QED  BY <2>1, <2>2, <2>3, <2>4, <2>5 DEF Binder
<1> QED  BY <1>2 DEF HasRow

LEMMA BoundStep ==
  ASSUME TypeOK, IdInv, BindInv, NEW p \in Procs, Arrives(p) \/ Serves(p)
  PROVE  BoundInv'
<1> SUFFICES ASSUME NEW u \in DOMAIN made' \cap DOMAIN users', made'[u] \notin freed'
             PROVE  \E r \in DOMAIN idents' : idents'[r].user = u /\ idents'[r].identity = made'[u]
  BY DEF BoundInv
<1>1. PICK i : i = made'[u]
  OBVIOUS
<1>2. freed \subseteq freed'
  BY OthersBindNothing, InsertsMove, UpdateMoves, RemoveMoves, RebindMoves DEF Binder
<1>3. CASE CommitUser(p) /\ u = req[p].target
  <2>1. made' = Q!Put(made, req[p].target, req[p].identity)
    BY <1>3 DEF CommitUser
  <2>2. made'[u] = req[p].identity
    BY <1>3, <2>1 DEF Q!Put
  <2>3. Binds(req[p].identity) = {}
    BY <1>3 DEF CommitUser, BindInv, CommitInv
  <2>4. last.ident + 1 \in DOMAIN idents' /\ idents'[last.ident + 1] = NewRow(p)
    BY <1>3, <2>3, InsertsMove DEF Inserts
  <2> QED  BY <1>3, <2>2, <2>4 DEF NewRow
<1>4. CASE ~(CommitUser(p) /\ u = req[p].target)
  <2>1. u \in DOMAIN made /\ made[u] = i
    <3>1. CASE made' = made
      BY <1>1, <3>1
    <3>2. CASE made' # made
      <4>1. CommitUser(p) /\ made' = Q!Put(made, req[p].target, req[p].identity)
        BY <3>2, MadeMoves
      <4>2. u # req[p].target
        BY <1>4, <4>1
      <4> QED  BY <1>1, <4>1, <4>2 DEF Q!Put
    <3> QED  BY <3>1, <3>2
  <2>2. u \in DOMAIN users
    <3>1. last.user \in Nat /\ u \in 1..last.user
      <4>1. last \in [user : Nat, ident : Nat, key : Nat, sess : Nat, state : Nat]
        BY DEF TypeOK
      <4>2. DOMAIN made \subseteq Known
        BY DEF IdInv, KnownInv
      <4> QED  BY <2>1, <4>1, <4>2 DEF Known
    <3>2. u # last.user + 1
      BY <3>1
    <3>3. CASE CommitUser(p)
      <4>1. u # req[p].target
        BY <1>4, <3>3
      <4>2. DOMAIN users' = DOMAIN users \cup {req[p].target}
        BY <3>3, UsersGrow
      <4> QED  BY <4>1, <4>2
    <3>4. CASE CreateUser(p)
      BY <3>2, <3>4, UsersGrow
    <3>5. CASE ~CommitUser(p) /\ ~CreateUser(p)
      BY <3>5, UsersShrink
    <3> QED  BY <3>3, <3>4, <3>5
  <2>3. HasRow(u, i)
    BY <1>1, <1>2, <2>1, <2>2 DEF BindInv, BoundInv, HasRow
  <2>4. CommitDelete(p) => u # req[p].target
    BY DEF CommitDelete, Q!DeleteUser, Q!Without
  <2>5. i \notin freed'
    BY <1>1
  <2>6. HasRow(u, i)'
    BY <2>3, <2>4, <2>5, RowStays DEF BindInv
  <2> QED  BY <1>1, <2>6 DEF HasRow
<1> QED  BY <1>3, <1>4

\* However many first logins of one identity race through
\* createUserWithIdentity, the unique index and the lock of the uncommitted
\* row leave one account: a user made by a login still has the row that bound
\* its identity, unless an administrator took the identity away.
THEOREM OneAccountPerIdentityHolds == Spec => []OneAccountPerIdentity
<1>1. Init => BindInv
  <2> SUFFICES ASSUME Init PROVE BindInv
    OBVIOUS
  <2>1. \A p \in Procs : req[p].at = "idle"
    BY DEF Init, Idle
  <2>2. UniqueInv
    BY FirstTables DEF Init, UniqueInv
  <2>3. DOMAIN made = {}
    BY DEF Init
  <2> QED  BY <2>1, <2>2, <2>3 DEF BindInv, CommitInv, DeleteInv, Deleting, BoundInv
<1>2. TypeOK /\ IdInv /\ BindInv /\ [Next]_vars => BindInv'
  <2> SUFFICES ASSUME TypeOK, IdInv, BindInv, [Next]_vars PROVE BindInv'
    OBVIOUS
  <2>1. CASE UNCHANGED vars \/ Tick
    BY <2>1 DEF BindInv, UniqueInv, CommitInv, DeleteInv, Deleting, BoundInv, Binds, Q!GetUserIdentity,
                vars, Tick, tables, history
  <2>2. ASSUME NEW p \in Procs, Arrives(p) \/ Serves(p)
        PROVE  BindInv'
    BY <2>2, UniqueStep, CommitStep, DeleteStep, BoundStep DEF BindInv
  <2> QED  BY <2>1, <2>2 DEF Next
<1>3. BindInv => OneAccountPerIdentity
  <2> SUFFICES ASSUME BindInv, NEW u \in DOMAIN made \cap DOMAIN users,
                      NEW v \in DOMAIN made \cap DOMAIN users,
                      made[u] = made[v], u # v, made[u] \notin freed
               PROVE  FALSE
    BY DEF OneAccountPerIdentity
  <2>1. PICK r \in DOMAIN idents : idents[r].user = u /\ idents[r].identity = made[u]
    BY DEF BindInv, BoundInv
  <2>2. PICK s \in DOMAIN idents : idents[s].user = v /\ idents[s].identity = made[v]
    BY DEF BindInv, BoundInv
  <2>3. r = s
    BY <2>1, <2>2 DEF BindInv, UniqueInv
  <2> QED  BY <2>1, <2>2, <2>3
<1> QED  BY <1>1, <1>2, <1>3, IdsAreKnown, PTL DEF Spec
=============================================================================
