\* Users, identities, sessions and keys.
CONSTANTS
    Nobody = Nobody
    root = root
    guest = guest
    b1 = b1
    b2 = b2
    Procs = {1, 2}
    Identities = {root, guest}
    Tokens = {"t"}
    Browsers = {b1, b2}
    Configs <- AllConfigs
    FirstUsers <- RootUser
    FirstIdents <- RootIdent
    FirstKeys <- RootKey
    FirstSess <- RootSess
    FirstJar <- RootJar
    SessionTTL = 2
    StateTTL = 1
    MaxTime = 1
    MaxBegun = 4
    MaxId = 3
SPECIFICATION MCSpec
INVARIANTS
    AdmittedWasEnabled
    OneAccountPerIdentity
PROPERTIES
    SessionsStayDead
CHECK_DEADLOCK FALSE
