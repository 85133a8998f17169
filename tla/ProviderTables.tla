--------------------------- MODULE ProviderTables ---------------------------
(***************************************************************************)
(* The tables the gateway routes by and the statements on them             *)
(* (pkg/db/provider.sql.go, provider_endpoint.sql.go, model.sql.go,        *)
(* endpoint.sql.go, routing.sql.go).  There are no foreign keys: a binding *)
(* outlives its provider and its endpoint.                                 *)
(*                                                                         *)
(* A database db is a record of four sets of rows.  Of a provider only     *)
(* what routing reads is kept: credentials and URLs are empty or not,      *)
(* names of models are numbers with 0 for the empty string, and paths are  *)
(* numbers in the order of the strings.                                    *)
(***************************************************************************)
EXTENDS Integers, SequencesExt, FiniteSetsExt, Orders

Empty == 0

\* A row with some columns set or added.
With(row, columns) ==
    [c \in DOMAIN row \cup DOMAIN columns |-> IF c \in DOMAIN columns THEN columns[c] ELSE row[c]]

CreateProvider(db, id, columns) ==
    [db EXCEPT !.providers = @ \cup {With([id |-> id], columns)}]

\* The columns whose Set flag is given are overwritten, the others kept.
UpdateProvider(db, id, columns) ==
    [db EXCEPT !.providers = {IF p.id = id THEN With(p, columns) ELSE p : p \in @}]

DeleteProvider(db, id) == [db EXCEPT !.providers = {p \in @ : p.id # id}]

GetProviderByID(db, id) == {p \in db.providers : p.id = id}

\* ORDER BY priority DESC, id DESC.
Listed(p, q) == p.priority > q.priority \/ (p.priority = q.priority /\ p.id > q.id)

GetProviders(db) ==
    InOrder(db.providers, {pq \in db.providers \X db.providers : Listed(pq[1], pq[2])})

UpsertProviderEndpoint(db, b) ==
    [db EXCEPT !.bindings = {c \in @ : <<c.provider, c.path>> # <<b.provider, b.path>>} \cup {b}]

DeleteProviderEndpoint(db, id, path) ==
    [db EXCEPT !.bindings = {c \in @ : <<c.provider, c.path>> # <<id, path>>}]

UpsertModel(db, m) == [db EXCEPT !.models = {n \in @ : n.name # m.name} \cup {m}]
DeleteModel(db, name) == [db EXCEPT !.models = {n \in @ : n.name # name}]

UpsertEndpoint(db, e) == [db EXCEPT !.endpoints = {d \in @ : d.path # e.path} \cup {e}]
DeleteEndpoint(db, path) == [db EXCEPT !.endpoints = {d \in @ : d.path # path}]
GetEndpointByPath(db, path) == {e \in db.endpoints : e.path = path}

\* What the schema sees to: a provider's id is its key, its priority and those
\* of the list are integers.
Entries ==
    [model : Nat, upstream : Nat, endpoints : SUBSET Nat, priority : Int, disabled : BOOLEAN]
ProviderColumns ==
    [priority : Int, keyed : BOOLEAN, disabled : BOOLEAN, feed : BOOLEAN, list : Seq(Entries)]
Providers ==
    [id : Nat, priority : Int, keyed : BOOLEAN, disabled : BOOLEAN, feed : BOOLEAN, list : Seq(Entries)]

IsDB(db) ==
    /\ DOMAIN db = {"providers", "bindings", "endpoints", "models"}
    /\ IsFiniteSet(db.providers) /\ IsFiniteSet(db.bindings) /\ IsFiniteSet(db.endpoints)
    /\ db.providers \subseteq Providers
    /\ \A p, q \in db.providers : p.id = q.id => p = q

----------------------------------------------------------------------------
(* The routing queries: a row for each enabled provider, binding of it and,*)
(* when a model is asked for, entry of its list that serves the model at   *)
(* the binding's path.  They return sets: none of them has an ORDER BY.    *)

\* endpoints is null, no array or empty: any path; else one of the paths.
Open(e, path) == ~e.disabled /\ (e.endpoints = {} \/ path \in e.endpoints)

Enabled(db, name) == \E m \in db.models : m.name = name /\ ~m.disabled

Joined(db) == {pb \in db.providers \X db.bindings : pb[2].provider = pb[1].id /\ ~pb[1].disabled}

Columns(p, b) ==
    [provider |-> p.id, providerPriority |-> p.priority, keyed |-> p.keyed,
     path |-> b.path, url |-> b.url, send |-> b.resolver]

PlainRow(pb) ==
    With(Columns(pb[1], pb[2]), [model |-> Empty, upstream |-> Empty, priority |-> 0, entry |-> 0])

ModelRows(pb, name) ==
    LET p == pb[1]
        serving == {i \in DOMAIN p.list : p.list[i].model = name /\ Open(p.list[i], pb[2].path)}
    IN {With(Columns(p, pb[2]),
             [model |-> name, upstream |-> p.list[i].upstream,
              priority |-> p.list[i].priority, entry |-> i]) : i \in serving}

GetProvidersByEndpoint(db, path) == {PlainRow(pb) : pb \in {x \in Joined(db) : x[2].path = path}}

GetProvidersByEndpointAndModel(db, path, name) ==
    IF Enabled(db, name) THEN UNION {ModelRows(pb, name) : pb \in {x \in Joined(db) : x[2].path = path}}
    ELSE {}

\* JOIN endpoint, and its columns beside a row's.
AtEndpoints(db, rows, types) ==
    UNION {{With(r, [type |-> e.type, prefix |-> e.prefix, inherited |-> e.resolver]) :
                e \in {x \in GetEndpointByPath(db, r.path) : x.type \in types}} : r \in rows}

GetProvidersByEndpointTypes(db, types) ==
    AtEndpoints(db, {PlainRow(pb) : pb \in Joined(db)}, types)

GetProvidersByEndpointTypesAndModel(db, types, name) ==
    IF Enabled(db, name) THEN AtEndpoints(db, UNION {ModelRows(pb, name) : pb \in Joined(db)}, types)
    ELSE {}

\* Mutant: an entry that is disabled, or closed to the path, counts.
ListAvailableModelNames_AnyEntry(db) ==
    {m.name : m \in {n \in db.models :
        /\ ~n.disabled
        /\ \E pb \in Joined(db) :
            /\ pb[1].keyed /\ pb[2].url # Empty
            /\ \E i \in DOMAIN pb[1].list : pb[1].list[i].model = n.name}}

ListAvailableModelNames(db) ==
    {m.name : m \in {n \in db.models :
        /\ ~n.disabled
        /\ \E pb \in Joined(db) :
            /\ pb[1].keyed /\ pb[2].url # Empty
            /\ \E i \in DOMAIN pb[1].list :
                pb[1].list[i].model = n.name /\ Open(pb[1].list[i], pb[2].path)}}
=============================================================================
