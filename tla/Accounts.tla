------------------------------ MODULE Accounts ------------------------------
(***************************************************************************)
(* Who a request comes from: pkg/auth (auth.go, handlers.go, session.go,   *)
(* middleware.go), the administration of users and identities              *)
(* (handle_user_admin.go and the commands of cmd/picotera), API keys and   *)
(* settings, and the gateway's check of a key (gateway_helpers.go).  No    *)
(* foreign key ties the tables.  Every statement is a step; the two        *)
(* transactions, a first login and the deletion of a user, show their rows *)
(* when they commit and lock them until then.                              *)
(***************************************************************************)
EXTENDS Integers, Sequences, FiniteSets

CONSTANTS Procs,          \* the goroutines and commands that run at once
          Identities,     \* what a provider vouches for
          Tokens,         \* the strings that may be API keys
          Browsers,
          Configs,        \* [provider, autoCreate, asked]: what the process may be started
                          \* with, and the operations that are asked for in the instance
          FirstUsers, FirstIdents, FirstKeys, FirstSess,   \* the tables at the start
          FirstJar,       \* and the cookies
          SessionTTL, StateTTL, MaxTime,
          MaxBegun,       \* requests, and
          MaxId,          \* ids per table: the bounds of the instance
          Nobody

ASSUME TimesToLive == SessionTTL \in Nat /\ StateTTL \in Nat

Administration == {"createUser", "updateUser", "deleteUser",
                   "createIdentity", "updateIdentity", "deleteIdentity"}
Operations == Administration \cup
    {"login", "callback", "logout", "gateway", "setAdmin", "bindIdentity", "me",
     "createKey", "updateKey", "deleteKey", "putSetting", "deleteSetting"}

ASSUME KnownConfigs ==
    Configs \subseteq [provider : {"oidc", "http-header", "single-user-mode"},
                       autoCreate : BOOLEAN, asked : SUBSET Operations]

VARIABLES config,
          users,          \* app_user:      id -> [admin, disabled]
          idents,         \* user_identity: id -> [user, identity]
          keys,           \* api_key:       id -> [token, user, disabled]
          sess,           \* user_session:  id -> [user, expires]
          settings,       \* user_setting:  user -> the value of a key
          last,           \* the last id given out: of each table, and of login states
          now, begun,
          jar,            \* for each browser: its cookie
          trips,          \* logins at the provider: state -> browser
          req,            \* for each goroutine: the request it serves
          seen,           \* kept for the properties: who was enabled while it ran,
          made, freed     \* the users made by a login, and identities taken from theirs
tables == <<users, idents, keys, sess, settings, last>>
browser == <<jar, trips>>
history == <<made, freed>>
vars == <<config, tables, now, begun, browser, req, seen, history>>

Q == INSTANCE AccountTables

User == [admin : BOOLEAN, disabled : BOOLEAN]
UserIdentity == [user : Nat, identity : Identities \cup {Nobody}]
ApiKey == [token : Tokens, user : Nat, disabled : BOOLEAN]
UserSession == [user : Nat, expires : Int]
Cookie == [kind : {"none", "state", "session", "cleared"}, id : Nat, until : Int]

\* The tables at the start are numbered from one, as their sequences do it;
\* a session is of a user who is there, an identity is bound once.
ASSUME FirstTables ==
    /\ FirstUsers \in Seq(User) /\ FirstIdents \in Seq(UserIdentity)
    /\ FirstKeys \in Seq(ApiKey) /\ FirstSess \in Seq(UserSession)
    /\ FirstJar \in [Browsers -> Cookie]
    /\ \A s \in DOMAIN FirstSess : FirstSess[s].user \in DOMAIN FirstUsers
    /\ \A r, s \in DOMAIN FirstIdents : FirstIdents[r].identity = FirstIdents[s].identity => r = s

----------------------------------------------------------------------------
(* Cookies: one name for two payloads, told apart by their kind, each with *)
(* a lifetime that its codec checks.                                       *)

NoCookie == [kind |-> "none", id |-> 0, until |-> 0]
StateCookie(state) == [kind |-> "state", id |-> state, until |-> now + StateTTL]
SessionCookie(id) == [kind |-> "session", id |-> id, until |-> now + SessionTTL]
Holds(cookie, kind) == cookie.kind = kind /\ cookie.until > now

----------------------------------------------------------------------------
(* A request.  at is the statement it sends next, clock the time.Now() that*)
(* it has read for that statement and those behind it.                     *)

Idle == [at |-> "idle", op |-> Nobody, identity |-> Nobody, via |-> Nobody, cookie |-> NoCookie,
         set |-> NoCookie, who |-> 0, admin |-> FALSE, lost |-> FALSE, target |-> 0,
         rows |-> {}, sessions |-> {}, clock |-> 0]

Go(p, at) == req' = [req EXCEPT ![p].at = at]
\* The response, with its Set-Cookie if it has one, is on its way.
Reply(p, cookie) ==
    req' = [req EXCEPT ![p] = [Idle EXCEPT !.at = "respond", !.via = req[p].via, !.set = cookie]]
Answer(p) == IF req[p].set = NoCookie THEN req' = [req EXCEPT ![p] = Idle] ELSE Reply(p, req[p].set)

\* Rows a transaction has written and not committed: others wait for them.
Deleting(q) == req[q].at \in {"DeleteUserSessionsByUser", "DeleteUser", "CommitDelete"}
RowLocked(r) == \E q \in Procs : Deleting(q) /\ r \in req[q].rows
SessionLocked(s) == \E q \in Procs : Deleting(q) /\ s \in req[q].sessions
UserLocked(u) == \E q \in Procs : req[q].at = "CommitDelete" /\ req[q].target = u
Binds(i) == Q!GetUserIdentity(idents, i)
IdentityLocked(i) ==
    \/ \E q \in Procs : req[q].at = "CommitUser" /\ req[q].identity = i
    \/ \E r \in Binds(i) : RowLocked(r)
UsersOf(i) == Q!GetUserByIdentity(users, idents, i)

Begin(p, r) ==
    /\ req[p].at = "idle" /\ begun < MaxBegun
    /\ begun' = begun + 1
    /\ req' = [req EXCEPT ![p] = r]
    /\ UNCHANGED <<config, tables, now, browser, history>>

Here == <<config, now, begun, browser>>   \* what a statement leaves alone
Reads == UNCHANGED <<tables, Here, history>>

----------------------------------------------------------------------------
(* Resolve: the provider's identity, or the session of the cookie.  A      *)
(* request that carries neither is answered 401 and changes nothing.       *)

BeginWithIdentity(p) ==
    /\ config.provider # "oidc"
    /\ \E i \in Identities, op \in config.asked :
        /\ op \notin {"gateway", "setAdmin", "bindIdentity"}
        /\ Begin(p, [Idle EXCEPT !.at = "GetUserByIdentity", !.op = op, !.identity = i])

\* resolveSession reads the clock once it has read the cookie.
BeginWithCookie(p) ==
    /\ config.provider = "oidc"
    /\ \E b \in Browsers, op \in config.asked \ {"login", "callback", "logout", "gateway",
                                                  "setAdmin", "bindIdentity"} :
        /\ Holds(jar[b], "session")
        /\ Begin(p, [Idle EXCEPT !.at = "TouchUserSession", !.op = op, !.via = b, !.cookie = jar[b],
                               !.clock = now])

\* A callback goes on to startSession, which reads the clock from now on.
Resolved(p, u, admin, lost) ==
    LET back == req[p].op = "callback"
    IN req' = [req EXCEPT ![p].at = IF back THEN "DeleteExpiredUserSessions" ELSE "resolved",
                          ![p].who = u, ![p].admin = admin, ![p].lost = lost,
                          ![p].clock = IF back THEN now ELSE 0]

\* The session's user is taken as it is.
TouchUserSession_Trusts(p) ==
    LET s == req[p].cookie.id
    IN /\ req[p].at = "TouchUserSession" /\ ~SessionLocked(s)
       /\ IF s \in DOMAIN sess /\ sess[s].expires > req[p].clock /\ sess[s].user \in DOMAIN users
          THEN /\ sess' = [sess EXCEPT ![s].expires = req[p].clock + SessionTTL]
               /\ req' = [req EXCEPT ![p].at = "resolved", ![p].who = sess[s].user, ![p].clock = 0,
                                     ![p].admin = users[sess[s].user].admin]
          ELSE Answer(p) /\ UNCHANGED sess
       /\ UNCHANGED <<users, idents, keys, settings, last, Here, history>>

\* The expiry slides without being looked at.
TouchUserSession_Revives(p) ==
    LET s == req[p].cookie.id
    IN /\ req[p].at = "TouchUserSession"
       /\ sess' = IF s \in DOMAIN sess THEN [sess EXCEPT ![s].expires = req[p].clock + SessionTTL] ELSE sess
       /\ Answer(p)
       /\ UNCHANGED <<users, idents, keys, settings, last, Here, history>>

\* One statement reads the session, slides its expiry and joins the user, by
\* the clock read before it; the answer will renew the cookie, for a time that
\* is counted from then (RefreshSessionCookie).
TouchUserSession(p) ==
    LET s == req[p].cookie.id
    IN /\ req[p].at = "TouchUserSession" /\ ~SessionLocked(s)
       /\ sess' = Q!TouchUserSession(sess, s, req[p].clock, req[p].clock + SessionTTL)
       /\ LET enabled == {u \in Q!TouchedUser(users, sess, s, req[p].clock) : ~users[u].disabled}
          IN \/ enabled = {} /\ Answer(p)
             \/ \E u \in enabled :
                  req' = [req EXCEPT ![p].at = "resolved", ![p].who = u, ![p].admin = users[u].admin,
                                     ![p].set = SessionCookie(s), ![p].clock = 0]
       /\ UNCHANGED <<users, idents, keys, settings, last, Here, history>>

\* resolveOrCreate
GetUserByIdentity(p) ==
    /\ req[p].at = "GetUserByIdentity" /\ Reads
    /\ \/ \E u \in UsersOf(req[p].identity) :
            IF users[u].disabled THEN Answer(p) ELSE Resolved(p, u, users[u].admin, FALSE)
       \/ /\ UsersOf(req[p].identity) = {}
          /\ IF config.autoCreate \/ config.provider = "single-user-mode"
             THEN Go(p, "InsertUser") ELSE Answer(p)

\* The transaction of a first login is two: the user is there before its
\* identity is.
InsertUser_Commits(p) ==
    /\ req[p].at = "InsertUser" /\ last.user < MaxId
    /\ users' = Q!InsertUser(users, last.user + 1, FALSE)
    /\ made' = Q!Put(made, last.user + 1, req[p].identity)
    /\ last' = [last EXCEPT !.user = @ + 1]
    /\ req' = [req EXCEPT ![p].at = "InsertUserIdentity", ![p].target = last.user + 1]
    /\ UNCHANGED <<idents, keys, sess, settings, Here, freed>>

\* createUserWithIdentity: the user's id comes from a sequence, which no
\* rollback returns.
InsertUser(p) ==
    /\ req[p].at = "InsertUser" /\ last.user < MaxId
    /\ last' = [last EXCEPT !.user = @ + 1]
    /\ req' = [req EXCEPT ![p].at = "InsertUserIdentity", ![p].target = last.user + 1]
    /\ UNCHANGED <<users, idents, keys, sess, settings, Here, history>>

InsertUserIdentity(p) ==
    /\ req[p].at = "InsertUserIdentity" /\ ~IdentityLocked(req[p].identity)
    /\ IF Binds(req[p].identity) = {} THEN Go(p, "CommitUser") ELSE Go(p, "Reread")
    /\ Reads

CommitUser(p) ==
    LET u == req[p].target
        admin == config.provider = "single-user-mode"
    IN /\ req[p].at = "CommitUser" /\ last.ident < MaxId
       /\ users' = Q!InsertUser(users, u, admin)
       /\ idents' = Q!InsertUserIdentity(idents, last.ident + 1, u, req[p].identity)
       /\ last' = [last EXCEPT !.ident = @ + 1]
       /\ made' = Q!Put(made, u, req[p].identity)
       /\ Resolved(p, u, admin, FALSE)
       /\ UNCHANGED <<keys, sess, settings, Here, freed>>

\* The loser of the race rolls back and reads the winner's user; it does not
\* look at disabled.
Reread(p) ==
    /\ req[p].at = "Reread" /\ Reads
    /\ \/ \E u \in UsersOf(req[p].identity) : Resolved(p, u, users[u].admin, TRUE)
       \/ UsersOf(req[p].identity) = {} /\ Answer(p)

\* ResolveWithImpersonation: an administrator goes on as another user; an
\* impersonation that fails is answered without a new cookie.
Impersonate(p) ==
    /\ req[p].at = "resolved" /\ Reads
    /\ \E u \in 1..MaxId :
        IF req[p].admin /\ u \in Q!GetUserByID(users, u)
        THEN req' = [req EXCEPT ![p].at = "impersonating", ![p].who = u, ![p].admin = users[u].admin]
        ELSE req' = [req EXCEPT ![p] = Idle]

----------------------------------------------------------------------------
(* Login, Callback and Logout of the oidc provider.                        *)

\* A bundle that cannot be built ends the login in Fails.
BeginLogin(p) ==
    /\ config.provider = "oidc" /\ "login" \in config.asked
    /\ \E b \in Browsers : Begin(p, [Idle EXCEPT !.at = "login", !.op = "login", !.via = b])

Login(p) ==
    /\ req[p].at = "login" /\ last.state < MaxId
    /\ last' = [last EXCEPT !.state = @ + 1]
    /\ trips' = Q!Put(trips, last.state + 1, req[p].via)
    /\ Reply(p, StateCookie(last.state + 1))
    /\ UNCHANGED <<users, idents, keys, sess, settings, config, now, begun, jar, history>>

\* The provider sends the browser back once, for whichever identity logged
\* in there.  It gets no further if the provider refused, if a cookie has
\* replaced the state's since, or if the code cannot be exchanged.
Callback(p) ==
    /\ req[p].at = "idle" /\ begun < MaxBegun
    /\ begun' = begun + 1
    /\ \E state \in DOMAIN trips, i \in Identities :
        LET b == trips[state]
        IN /\ trips' = Q!Without(trips, {state})
           /\ \/ /\ Holds(jar[b], "state") /\ jar[b].id = state
                 /\ req' = [req EXCEPT ![p] = [Idle EXCEPT !.at = "GetUserByIdentity", !.op = "callback",
                                                           !.identity = i, !.via = b]]
              \/ UNCHANGED req
    /\ UNCHANGED <<config, tables, now, jar, history>>

\* startSession reads the clock once, for both statements; cleaning up is not
\* part of the login and may fail.
DeleteExpiredUserSessions(p) ==
    /\ req[p].at = "DeleteExpiredUserSessions"
    /\ \E clock \in req[p].clock..now :
        /\ LET expired == Q!DeleteExpiredUserSessions(sess, req[p].who, clock)
           IN \/ (\A s \in expired : ~SessionLocked(s)) /\ sess' = Q!Without(sess, expired)
              \/ UNCHANGED sess
        /\ req' = [req EXCEPT ![p].at = "InsertUserSession", ![p].clock = clock]
    /\ UNCHANGED <<users, idents, keys, settings, last, Here, history>>

InsertUserSession(p) ==
    LET s == last.sess + 1
    IN /\ req[p].at = "InsertUserSession" /\ last.sess < MaxId
       /\ sess' = Q!InsertUserSession(sess, s, req[p].who, req[p].clock + SessionTTL)
       /\ last' = [last EXCEPT !.sess = s]
       /\ Reply(p, SessionCookie(s))
       /\ UNCHANGED <<users, idents, keys, settings, Here, history>>

BeginLogout(p) ==
    /\ config.provider = "oidc" /\ "logout" \in config.asked
    /\ \E b \in Browsers :
        Begin(p, [Idle EXCEPT !.at = "DeleteUserSession", !.op = "logout", !.via = b, !.cookie = jar[b]])

\* Whatever the cookie held, the answer clears it.
Cleared == [NoCookie EXCEPT !.kind = "cleared"]
DeleteUserSession(p) ==
    LET s == IF Holds(req[p].cookie, "session") THEN req[p].cookie.id ELSE 0
    IN /\ req[p].at = "DeleteUserSession" /\ ~SessionLocked(s)
       /\ sess' = Q!DeleteUserSession(sess, s)
       /\ Reply(p, Cleared)
       /\ UNCHANGED <<users, idents, keys, settings, last, Here, history>>

\* The response reaches the browser, after whatever came before it.
Respond(p) ==
    /\ req[p].at = "respond"
    /\ jar' = [jar EXCEPT ![req[p].via] = req[p].set]
    /\ req' = [req EXCEPT ![p] = Idle]
    /\ UNCHANGED <<config, tables, now, begun, trips, history>>

----------------------------------------------------------------------------
(* The operations behind the middleware.  An administrator's are refused   *)
(* to others by what the resolved row said; the row may change meanwhile.  *)

Acts(p, op) ==
    /\ req[p].at \in {"resolved", "impersonating"} /\ req[p].op = op
    /\ op \in Administration => req[p].admin
Ids == 1..MaxId

Refuse(p) ==
    /\ req[p].at \in {"resolved", "impersonating"}
    /\ req[p].op \in Administration /\ ~req[p].admin
    /\ Answer(p) /\ Reads

GetMe(p) == Acts(p, "me") /\ Answer(p) /\ Reads

UserChange == UNCHANGED <<idents, keys, sess, settings, Here, history>>

\* handleCreateUser: InsertUser leaves the user enabled; a second statement
\* disables it by writing the whole row that the first returned, and finds
\* nothing if the user has been deleted between.
CreateUser(p) ==
    /\ Acts(p, "createUser") /\ last.user < MaxId
    /\ \E admin, disabled \in BOOLEAN :
        /\ users' = Q!InsertUser(users, last.user + 1, admin)
        /\ IF disabled
           THEN req' = [req EXCEPT ![p].at = "UpdateUser", ![p].target = last.user + 1, ![p].admin = admin]
           ELSE Answer(p)
    /\ last' = [last EXCEPT !.user = @ + 1]
    /\ UserChange

DisableCreated(p) ==
    LET u == req[p].target
    IN /\ req[p].at = "UpdateUser" /\ ~UserLocked(u)
       /\ users' = Q!UpdateUser(users, u, req[p].admin, TRUE)
       /\ Answer(p) /\ last' = last
       /\ UserChange

\* UpdateUser writes the whole row.
UpdateUser(p) ==
    /\ Acts(p, "updateUser")
    /\ \E u \in Ids, admin, disabled \in BOOLEAN :
        /\ ~UserLocked(u)
        /\ users' = Q!UpdateUser(users, u, admin, disabled)
    /\ Answer(p) /\ last' = last
    /\ UserChange

\* handleDeleteUser: three statements of one transaction.  Only the rows a
\* statement saw go with it; api_key and user_setting keep theirs.
DeleteUserIdentities(p) ==
    /\ Acts(p, "deleteUser")
    /\ \E u \in Ids :
        LET rows == Q!DeleteUserIdentitiesByUser(idents, u)
        IN /\ \A r \in rows : ~RowLocked(r)
           /\ req' = [req EXCEPT ![p].at = "DeleteUserSessionsByUser", ![p].target = u, ![p].rows = rows]
    /\ Reads

DeleteUserSessions(p) ==
    LET mine == Q!DeleteUserSessionsByUser(sess, req[p].target)
    IN /\ req[p].at = "DeleteUserSessionsByUser" /\ \A s \in mine : ~SessionLocked(s)
       /\ req' = [req EXCEPT ![p].at = "DeleteUser", ![p].sessions = mine]
       /\ Reads

DeleteUser(p) ==
    /\ req[p].at = "DeleteUser" /\ ~UserLocked(req[p].target)
    /\ Go(p, "CommitDelete") /\ Reads

CommitDelete(p) ==
    /\ req[p].at = "CommitDelete"
    /\ users' = Q!DeleteUser(users, req[p].target)
    /\ idents' = Q!Without(idents, req[p].rows)
    /\ sess' = Q!Without(sess, req[p].sessions)
    /\ Answer(p)
    /\ UNCHANGED <<keys, settings, last, Here, history>>

IdentityChange == UNCHANGED <<users, keys, sess, settings, Here, made>>

\* handleCreateUserIdentity: the user is looked up first, then the row is
\* inserted whatever has become of it; a bound identity is a conflict.
GetUserByID(p) ==
    /\ Acts(p, "createIdentity")
    /\ \E u \in Ids, i \in Identities :
        IF u \in Q!GetUserByID(users, u)
        THEN req' = [req EXCEPT ![p].at = "CreateUserIdentity", ![p].target = u, ![p].identity = i]
        ELSE Answer(p)
    /\ Reads

CreateUserIdentity(p) ==
    LET i == req[p].identity
    IN /\ req[p].at = "CreateUserIdentity" /\ ~IdentityLocked(i) /\ last.ident < MaxId
       /\ last' = [last EXCEPT !.ident = @ + 1]
       /\ idents' = Q!CreateUserIdentity(idents, last.ident + 1, req[p].target, i)
       /\ Answer(p) /\ freed' = freed
       /\ IdentityChange

\* handleUpdateUserIdentity, handleDeleteUserIdentity: the owner is checked
\* on the row first read, the statement goes by id alone.
GetUserIdentityByID(p) ==
    /\ Acts(p, "updateIdentity") \/ Acts(p, "deleteIdentity")
    /\ \E r \in Ids, u \in Ids :
        IF r \in Q!GetUserIdentityByID(idents, r) /\ idents[r].user = u
        THEN req' = [req EXCEPT ![p].at = IF req[p].op = "updateIdentity" THEN "UpdateUserIdentity"
                                          ELSE "DeleteUserIdentity",
                                ![p].target = r]
        ELSE Answer(p)
    /\ Reads

UpdateUserIdentity(p) ==
    LET r == req[p].target
    IN /\ req[p].at = "UpdateUserIdentity" /\ ~RowLocked(r)
       /\ \E i \in Identities :
            /\ ~IdentityLocked(i)
            /\ idents' = Q!UpdateUserIdentity(idents, r, i)
            /\ freed' = freed \cup {idents[x].identity : x \in {x \in DOMAIN idents \cap {r} : idents' # idents}}
       /\ Answer(p) /\ last' = last
       /\ IdentityChange

DeleteUserIdentity(p) ==
    LET r == req[p].target
    IN /\ req[p].at = "DeleteUserIdentity" /\ ~RowLocked(r)
       /\ idents' = Q!DeleteUserIdentity(idents, r)
       /\ freed' = freed \cup {idents[x].identity : x \in DOMAIN idents \cap {r}}
       /\ Answer(p) /\ last' = last
       /\ IdentityChange

\* handle_api_key.go: one statement each, scoped to the user the request
\* acts for.
KeyChange == UNCHANGED <<users, idents, sess, settings, Here, history>>

CreateApiKey(p) ==
    /\ Acts(p, "createKey") /\ last.key < MaxId
    /\ last' = [last EXCEPT !.key = @ + 1]
    /\ \E t \in Tokens, d \in BOOLEAN : keys' = Q!InsertApiKey(keys, last.key + 1, t, req[p].who, d)
    /\ Answer(p) /\ KeyChange

UpdateApiKey(p) ==
    /\ Acts(p, "updateKey")
    /\ \E k \in Ids, t \in Tokens, d \in BOOLEAN : keys' = Q!UpdateApiKey(keys, k, req[p].who, t, d)
    /\ Answer(p) /\ last' = last /\ KeyChange

DeleteApiKey(p) ==
    /\ Acts(p, "deleteKey")
    /\ \E k \in Ids : keys' = Q!DeleteApiKey(keys, k, req[p].who)
    /\ Answer(p) /\ last' = last /\ KeyChange

\* handle_user_setting.go
UpsertUserSetting(p) ==
    /\ Acts(p, "putSetting")
    /\ \E v \in BOOLEAN : settings' = Q!UpsertUserSetting(settings, req[p].who, v)
    /\ Answer(p)
    /\ UNCHANGED <<users, idents, keys, sess, last, Here, history>>

DeleteUserSetting(p) ==
    /\ Acts(p, "deleteSetting")
    /\ settings' = Q!DeleteUserSetting(settings, req[p].who)
    /\ Answer(p)
    /\ UNCHANGED <<users, idents, keys, sess, last, Here, history>>

----------------------------------------------------------------------------
(* The gateway's check of a key: the row, then the row of its owner.       *)

BeginGateway(p) ==
    /\ "gateway" \in config.asked
    /\ \E t \in Tokens : Begin(p, [Idle EXCEPT !.at = "GetApiKeyByKey", !.op = "gateway", !.via = t])

GetApiKeyByKey(p) ==
    /\ req[p].at = "GetApiKeyByKey" /\ Reads
    /\ LET found == {k \in Q!GetApiKeyByKey(keys, req[p].via) : ~keys[k].disabled}
       IN \/ found = {} /\ Answer(p)
          \/ \E k \in found : req' = [req EXCEPT ![p].at = "GetOwner", ![p].who = keys[k].user]

GetOwner(p) ==
    LET u == req[p].who
    IN /\ req[p].at = "GetOwner" /\ Reads
       /\ IF u \in Q!GetUserByID(users, u) /\ ~users[u].disabled
          THEN req' = [req EXCEPT ![p].at = "admitted", ![p].admin = users[u].admin]
          ELSE Answer(p)

Admitted(p) == req[p].at = "admitted" /\ Answer(p) /\ Reads

----------------------------------------------------------------------------
(* The commands of cmd/picotera.                                           *)

BeginCommand(p) ==
    \E op \in config.asked \cap {"setAdmin", "bindIdentity"}, u \in Ids, i \in Identities :
        Begin(p, [Idle EXCEPT !.at = op, !.op = op, !.target = u, !.identity = i])

SetAdmin(p) ==
    LET u == req[p].target
    IN /\ req[p].at = "setAdmin" /\ ~UserLocked(u)
       /\ users' = Q!UpdateUserAdmin(users, u, TRUE)
       /\ Answer(p) /\ last' = last /\ UserChange

BindIdentityUser(p) ==
    /\ req[p].at = "bindIdentity" /\ Reads
    /\ IF req[p].target \in Q!GetUserByID(users, req[p].target) THEN Go(p, "GetUserIdentity") ELSE Answer(p)

\* Rebinding needs --force.
GetUserIdentity(p) ==
    LET i == req[p].identity
    IN /\ req[p].at = "GetUserIdentity" /\ Reads
       /\ \/ Binds(i) = {} /\ Go(p, "BindIdentity")
          \/ \E r \in Binds(i), force \in BOOLEAN :
                IF force /\ idents[r].user # req[p].target THEN Go(p, "RebindIdentity") ELSE Answer(p)

\* The insertion yields to a row that is there by now, as an error.
BindIdentity(p) ==
    LET i == req[p].identity
    IN /\ req[p].at = "BindIdentity" /\ ~IdentityLocked(i) /\ last.ident < MaxId
       /\ last' = [last EXCEPT !.ident = @ + 1]
       /\ idents' = Q!InsertUserIdentity(idents, last.ident + 1, req[p].target, i)
       /\ Answer(p) /\ freed' = freed
       /\ IdentityChange

RebindIdentity(p) ==
    LET i == req[p].identity
    IN /\ req[p].at = "RebindIdentity" /\ \A r \in Binds(i) : ~RowLocked(r)
       /\ idents' = Q!UpdateUserIdentityUser(idents, i, req[p].target)
       /\ freed' = freed \cup {i}
       /\ Answer(p) /\ last' = last
       /\ IdentityChange

----------------------------------------------------------------------------

\* Any statement may fail; a transaction is rolled back.
Fails(p) ==
    /\ req[p].at \notin {"idle", "respond"}
    /\ Answer(p) /\ Reads

Tick == now < MaxTime /\ now' = now + 1
        /\ UNCHANGED <<config, tables, begun, browser, req, history>>

Arrives(p) ==
    \/ BeginWithIdentity(p) \/ BeginWithCookie(p) \/ BeginLogin(p) \/ Callback(p)
    \/ BeginLogout(p) \/ BeginGateway(p) \/ BeginCommand(p)
Resolves(p) ==
    \/ TouchUserSession(p) \/ GetUserByIdentity(p) \/ InsertUser(p) \/ InsertUserIdentity(p)
    \/ CommitUser(p) \/ Reread(p) \/ Impersonate(p)
LogsIn(p) ==
    \/ Login(p) \/ DeleteExpiredUserSessions(p) \/ InsertUserSession(p)
    \/ DeleteUserSession(p) \/ Respond(p)
Administers(p) ==
    \/ CreateUser(p) \/ DisableCreated(p) \/ UpdateUser(p)
    \/ DeleteUserIdentities(p) \/ DeleteUserSessions(p) \/ DeleteUser(p) \/ CommitDelete(p)
    \/ GetUserByID(p) \/ CreateUserIdentity(p)
    \/ GetUserIdentityByID(p) \/ UpdateUserIdentity(p) \/ DeleteUserIdentity(p)
Owns(p) ==
    \/ Refuse(p) \/ GetMe(p) \/ CreateApiKey(p) \/ UpdateApiKey(p) \/ DeleteApiKey(p)
    \/ UpsertUserSetting(p) \/ DeleteUserSetting(p)
Passes(p) ==
    \/ GetApiKeyByKey(p) \/ GetOwner(p) \/ Admitted(p)
    \/ SetAdmin(p) \/ BindIdentityUser(p) \/ GetUserIdentity(p) \/ BindIdentity(p) \/ RebindIdentity(p)
Serves(p) == Resolves(p) \/ LogsIn(p) \/ Administers(p) \/ Owns(p) \/ Passes(p) \/ Fails(p)

\* What no query shows: who was enabled at some moment since a request began.
EnabledUsers == {<<u, users[u].admin>> : u \in {u \in DOMAIN users : ~users[u].disabled}}
EnabledKeys == {<<keys[k].token, keys[k].user>> : k \in {k \in DOMAIN keys : ~keys[k].disabled}}
Watch ==
    seen' = [p \in Procs |->
               IF req'[p].at = "idle" THEN [users |-> {}, keys |-> {}]
               ELSE [users |-> seen[p].users \cup EnabledUsers \cup EnabledUsers',
                     keys |-> seen[p].keys \cup EnabledKeys \cup EnabledKeys']]

Init ==
    /\ config \in Configs
    /\ users = FirstUsers /\ idents = FirstIdents /\ keys = FirstKeys
    /\ sess = FirstSess /\ settings = <<>>
    /\ last = [user |-> Cardinality(DOMAIN users), ident |-> Cardinality(DOMAIN idents),
               key |-> Cardinality(DOMAIN keys), sess |-> Cardinality(DOMAIN sess), state |-> 0]
    /\ now = 0 /\ begun = 0
    /\ jar = FirstJar /\ trips = <<>>
    /\ req = [p \in Procs |-> Idle]
    /\ seen = [p \in Procs |-> [users |-> {}, keys |-> {}]]
    /\ made = <<>> /\ freed = {}

Next ==
    /\ \/ Tick
       \/ \E p \in Procs : Arrives(p) \/ Serves(p)
    /\ Watch

Spec == Init /\ [][Next]_vars

----------------------------------------------------------------------------
(* Properties                                                              *)

\* The statements a request is at, by who sends them.
Places ==
    {"idle", "respond", "TouchUserSession", "GetUserByIdentity", "InsertUser", "InsertUserIdentity",
     "CommitUser", "Reread", "resolved", "impersonating"} \cup
    {"login", "DeleteExpiredUserSessions", "InsertUserSession", "DeleteUserSession"} \cup
    {"UpdateUser", "DeleteUserSessionsByUser", "DeleteUser", "CommitDelete",
     "CreateUserIdentity", "UpdateUserIdentity", "DeleteUserIdentity"} \cup
    {"GetApiKeyByKey", "GetOwner", "admitted"} \cup
    {"setAdmin", "bindIdentity", "GetUserIdentity", "BindIdentity", "RebindIdentity"}

Sources == Browsers \cup Tokens \cup {Nobody}
Request == [at : Places, op : Operations \cup {Nobody}, identity : Identities \cup {Nobody},
            via : Sources, cookie : Cookie, set : Cookie,
            who : Nat, admin : BOOLEAN, lost : BOOLEAN, target : Nat,
            rows : SUBSET Nat, sessions : SUBSET Nat, clock : Nat]

Rows(t, ids, Row) == DOMAIN t \subseteq ids /\ t \in [DOMAIN t -> Row]

TypeOK ==
    /\ config \in Configs /\ now \in Nat
    /\ last \in [user : Nat, ident : Nat, key : Nat, sess : Nat, state : Nat]
    /\ Rows(users, Nat, User)
    /\ Rows(idents, 1..last.ident, UserIdentity)
    /\ Rows(keys, 1..last.key, ApiKey)
    /\ Rows(sess, 1..last.sess, UserSession)
    /\ Rows(trips, 1..last.state, Sources)
    /\ jar \in [Browsers -> Cookie] /\ req \in [Procs -> Request]

\* A request acts for a user and as an administrator only if that user was
\* enabled, and an administrator, at some moment since the request began;
\* the gateway also asks it of the key, which was then of that user.  The
\* loser of a first login takes the winner's user unchecked.
AdmittedWasEnabled ==
    \A p \in Procs :
        /\ req[p].at \in {"resolved", "DeleteExpiredUserSessions"} /\ ~req[p].lost
            => <<req[p].who, req[p].admin>> \in seen[p].users
        /\ req[p].at = "admitted" =>
            /\ <<req[p].who, req[p].admin>> \in seen[p].users
            /\ <<req[p].via, req[p].who>> \in seen[p].keys

\* A session that has ended, by logout or with its user, never begins again:
\* not by the request that slides its expiry, not by a login that inserts it
\* late.  One that has ended by its time begins again in one way only, against
\* user_session.sql.go:79-80 ("there is no window"): by a request that read its
\* clock while the session was alive and whose statement comes after its end.
Alive(s) == /\ s \in DOMAIN sess /\ sess[s].expires > now
            /\ sess[s].user \in DOMAIN users
Outlasted(s) ==
    /\ s \in DOMAIN sess /\ sess[s].user \in DOMAIN users
    /\ \E p \in Procs : /\ req[p].at = "TouchUserSession" /\ req[p].cookie.id = s
                        /\ sess[s].expires > req[p].clock
SessionsStayDead == [][\A s \in 1..last.sess : Alive(s)' => Alive(s) \/ Outlasted(s)]_vars

\* However many first logins of one identity race, one account comes of
\* them; a second one takes an administrator who took the identity away.
OneAccountPerIdentity ==
    \A u, v \in DOMAIN made \cap DOMAIN users : made[u] = made[v] /\ u # v => made[u] \in freed
=============================================================================
