--------------------------- MODULE AccountTables ---------------------------
(***************************************************************************)
(* The statements on the tables of users (pkg/db: user.sql.go,             *)
(* user_session.sql.go, api_key.sql.go, user_setting.sql.go), each on a    *)
(* table as it is: a function from the row's key to its other columns.  A  *)
(* query gives the keys of the rows it returns, a change the table after   *)
(* it; one that a unique index refuses leaves the table as it was.  Names, *)
(* annotations and timestamps are left out.                                *)
(***************************************************************************)
EXTENDS Integers

Put(t, x, row) == [y \in DOMAIN t \cup {x} |-> IF y = x THEN row ELSE t[y]]
Without(t, S) == [x \in DOMAIN t \ S |-> t[x]]
Set(t, S, row(_)) == [x \in DOMAIN t |-> IF x \in S THEN row(t[x]) ELSE t[x]]

----------------------------------------------------------------------------
(* app_user: id -> [admin, disabled].  Nothing of it is unique.            *)

InsertUser(users, id, admin) == Put(users, id, [admin |-> admin, disabled |-> FALSE])

GetUserByID(users, id) == {id} \cap DOMAIN users

UpdateUser(users, id, admin, disabled) ==
    Set(users, {id}, LAMBDA u : [admin |-> admin, disabled |-> disabled])

UpdateUserAdmin(users, id, admin) == Set(users, {id}, LAMBDA u : [u EXCEPT !.admin = admin])

DeleteUser(users, id) == Without(users, {id})

----------------------------------------------------------------------------
(* user_identity: id -> [user, identity], unique by identity, which is the *)
(* provider's name and the identity there.                                 *)

GetUserIdentity(idents, i) == {r \in DOMAIN idents : idents[r].identity = i}

GetUserByIdentity(users, idents, i) ==
    {u \in DOMAIN users : \E r \in GetUserIdentity(idents, i) : idents[r].user = u}

GetUserIdentityByID(idents, id) == {id} \cap DOMAIN idents

\* ON CONFLICT DO NOTHING: no row comes back.
InsertUserIdentity(idents, id, u, i) ==
    IF GetUserIdentity(idents, i) = {} THEN Put(idents, id, [user |-> u, identity |-> i]) ELSE idents

\* The same without the clause: a conflict is an error.
CreateUserIdentity(idents, id, u, i) ==
    IF GetUserIdentity(idents, i) = {} THEN Put(idents, id, [user |-> u, identity |-> i]) ELSE idents

UpdateUserIdentity(idents, id, i) ==
    IF GetUserIdentity(idents, i) \subseteq {id}
    THEN Set(idents, {id}, LAMBDA r : [r EXCEPT !.identity = i]) ELSE idents

UpdateUserIdentityUser(idents, i, u) ==
    Set(idents, GetUserIdentity(idents, i), LAMBDA r : [r EXCEPT !.user = u])

DeleteUserIdentity(idents, id) == Without(idents, {id})

DeleteUserIdentitiesByUser(idents, u) == {r \in DOMAIN idents : idents[r].user = u}

----------------------------------------------------------------------------
(* user_session: id -> [user, expires].                                    *)

InsertUserSession(sess, id, u, expires) == Put(sess, id, [user |-> u, expires |-> expires])

\* The update of a session that has not expired; its user is joined to it.
TouchUserSession(sess, id, now, expires) ==
    Set(sess, {s \in {id} \cap DOMAIN sess : sess[s].expires > now},
        LAMBDA s : [s EXCEPT !.expires = expires])

TouchedUser(users, sess, id, now) ==
    {u \in DOMAIN users : id \in DOMAIN sess /\ sess[id].expires > now /\ sess[id].user = u}

DeleteUserSession(sess, id) == Without(sess, {id})

DeleteUserSessionsByUser(sess, u) == {s \in DOMAIN sess : sess[s].user = u}

DeleteExpiredUserSessions(sess, u, now) ==
    {s \in DOMAIN sess : sess[s].user = u /\ sess[s].expires <= now}

----------------------------------------------------------------------------
(* api_key: id -> [token, user, disabled], unique by token.                *)

GetApiKeyByKey(keys, token) == {k \in DOMAIN keys : keys[k].token = token}

InsertApiKey(keys, id, token, u, disabled) ==
    IF GetApiKeyByKey(keys, token) = {}
    THEN Put(keys, id, [token |-> token, user |-> u, disabled |-> disabled]) ELSE keys

GetApiKey(keys, id, u) == {k \in {id} \cap DOMAIN keys : keys[k].user = u}

UpdateApiKey(keys, id, u, token, disabled) ==
    IF GetApiKeyByKey(keys, token) \subseteq {id}
    THEN Set(keys, GetApiKey(keys, id, u), LAMBDA k : [k EXCEPT !.token = token, !.disabled = disabled])
    ELSE keys

DeleteApiKey(keys, id, u) == Without(keys, GetApiKey(keys, id, u))

----------------------------------------------------------------------------
(* user_setting: user -> the value of one key.                             *)

UpsertUserSetting(settings, u, value) == Put(settings, u, value)

DeleteUserSetting(settings, u) == Without(settings, {u})
============================================================================
