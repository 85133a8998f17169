----------------------------- MODULE MCAccounts -----------------------------
(***************************************************************************)
(* Small instances of Accounts, one for each configuration: first logins   *)
(* by a header that race each other and an administrator; sessions of two  *)
(* browsers, one of them the administrator's; keys and their owners.       *)
(***************************************************************************)
EXTENDS Accounts

CONSTANTS root, guest, b1, b2

Config(provider, asked) == [provider |-> provider, autoCreate |-> provider # "single-user-mode", asked |-> asked]
Logins == Config("http-header", {"me", "updateUser", "deleteUser", "createIdentity"})
Binding == Config("http-header", {"me", "createUser", "deleteIdentity", "updateIdentity",
                                  "bindIdentity", "setAdmin"})
Sessions == Config("oidc", {"login", "callback", "logout", "me", "updateUser", "deleteUser"})
Owned == Config("single-user-mode", {"gateway", "updateKey", "deleteKey", "updateUser"})
Owning == Config("single-user-mode", {"gateway", "createKey", "deleteKey", "putSetting", "deleteSetting"})
AllConfigs == {Logins, Binding, Sessions, Owned, Owning}

RootUser == <<[admin |-> TRUE, disabled |-> FALSE]>>
RootIdent == <<[user |-> 1, identity |-> root]>>
RootKey == <<[token |-> "t", user |-> 1, disabled |-> FALSE]>>
\* A cookie lives from when it is written, a little after its session's clock.
RootSess == <<[user |-> 1, expires |-> 1]>>
RootJar == [b \in Browsers |-> IF b = b1 THEN [kind |-> "session", id |-> 1, until |-> 2]
                               ELSE NoCookie]

\* A bound: the requests that begin.
Most == [c \in AllConfigs |-> IF c = Sessions THEN 4 ELSE 3]
InTurn == begun' # begun =>
    \/ req' = req
    \/ \E p \in Procs :
                       /\ begun < Most[config] /\ req[p].at = "idle" /\ req'[p] # req[p]
                       /\ \A q \in Procs : q < p => req[q].at # "idle"
MCSpec == Init /\ [][Next /\ InTurn]_vars
=============================================================================
