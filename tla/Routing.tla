------------------------------ MODULE Routing ------------------------------
(***************************************************************************)
(* The administration of what the gateway routes by: providers, their      *)
(* model lists and bindings, models and endpoints                          *)
(* (pkg/server/handle_providers.go, handle_provider_endpoint.go,           *)
(* handle_models.go, handle_endpoint.go).  Every handler is one statement, *)
(* except the binding of an endpoint, which checks the endpoint first, and *)
(* the refresh of a model list, whose result is saved by a request of its  *)
(* own.                                                                    *)
(***************************************************************************)
EXTENDS Candidates

CONSTANTS
    FirstDBs,       \* the tables at the start
    Forms,          \* the columns a provider may be given
    Lists,          \* model lists written by hand or by a script
    ModelNames,     \* without the empty one
    UpstreamNames,  \* names a provider's models endpoint may list, likewise
    Trimmed,        \* strings.TrimSpace, for the names it changes
    EndpointRows,   \* endpoints handleUpsertEndpoint may be sent
    Bindings,       \* bindings handleUpsertProviderEndpoint may be sent
    Routes,         \* the unified routes
    MaxProvider,    \* bounds: the ids, and the writes
    MaxEdits

\* The tables are such a database's, and a form fills all columns.
ASSUME RoutingAssumption ==
    /\ \A d \in FirstDBs : IsDB(d)
    /\ Forms \subseteq ProviderColumns /\ Lists \subseteq Seq(Entries)
    /\ IsFiniteSet(ModelNames) /\ ModelNames \subseteq Nat \ {Empty}
    /\ IsFiniteSet(UpstreamNames) /\ UpstreamNames \subseteq Nat \ {Empty}
    /\ DOMAIN Trimmed \subseteq Nat \ {Empty}
    /\ \A n \in DOMAIN Trimmed : Trimmed[n] \in Nat \ DOMAIN Trimmed

VARIABLES
    db,
    nextID,         \* of the providers' serial
    binding,        \* a binding past its check, in a set of at most one
    fetch,          \* the refresh of a model list
    edits

routeVars == <<db, nextID, binding, fetch, edits>>

NoFetch == [pc |-> "idle"]

RoutesInit ==
    /\ db \in FirstDBs
    /\ nextID = 1 + Max({0} \cup {p.id : p \in db.providers})
    /\ binding = {} /\ fetch = NoFetch /\ edits = 0

Write(new) ==
    /\ edits < MaxEdits /\ edits' = edits + 1
    /\ new # db /\ db' = new

Ids == {p.id : p \in db.providers}

----------------------------------------------------------------------------
(* One statement each.                                                     *)

Created(columns) ==
    /\ nextID <= MaxProvider /\ nextID' = nextID + 1
    /\ Write(CreateProvider(db, nextID, columns))
    /\ UNCHANGED <<binding, fetch>>

\* The form's disabled is not passed on.
handleCreateProvider ==
    \E form \in Forms : Created([form EXCEPT !.disabled = FALSE])

\* Without an id it creates, with one that is gone it answers 404.
handleUpsertProvider ==
    \/ \E form \in Forms : Created(form)
    \/ \E id \in Ids, form \in Forms :
        /\ Write(UpdateProvider(db, id, form))
        /\ UNCHANGED <<nextID, binding, fetch>>

\* A list of the dashboard's: one of Lists, or what a refresh has returned.
handleUpdateProviderModels ==
    \E id \in Ids : \E list \in Lists \cup (IF fetch.pc = "done" THEN {fetch.final} ELSE {}) :
        /\ Write(UpdateProvider(db, id, [list |-> list]))
        /\ UNCHANGED <<nextID, binding, fetch>>

handleDeleteProvider ==
    \E id \in Ids : Write(DeleteProvider(db, id)) /\ UNCHANGED <<nextID, binding, fetch>>

handlePutModel ==
    \E name \in ModelNames, disabled \in BOOLEAN :
        /\ Write(UpsertModel(db, [name |-> name, disabled |-> disabled]))
        /\ UNCHANGED <<nextID, binding, fetch>>

handleDeleteModel ==
    \E name \in ModelNames : Write(DeleteModel(db, name)) /\ UNCHANGED <<nextID, binding, fetch>>

\* A codex endpoint must match prefixes, any other may; a search or a list of
\* models has no place in its requests that names a model.
handleUpsertEndpoint ==
    \E e \in EndpointRows :
        /\ e.type = "codex" => e.prefix
        /\ e.type \in {"search", "modelList"} => ~e.named
        /\ Write(UpsertEndpoint(db, e))
        /\ UNCHANGED <<nextID, binding, fetch>>

handleDeleteEndpoint ==
    \E e \in db.endpoints : Write(DeleteEndpoint(db, e.path)) /\ UNCHANGED <<nextID, binding, fetch>>

handleDeleteProviderEndpoint ==
    \E b \in db.bindings :
        Write(DeleteProviderEndpoint(db, b.provider, b.path)) /\ UNCHANGED <<nextID, binding, fetch>>

----------------------------------------------------------------------------
(* handleUpsertProviderEndpoint.                                           *)

\* A path without an endpoint passes, as does a failed query.
CheckBinding ==
    /\ binding = {}
    /\ \E b \in Bindings :
        /\ \A e \in GetEndpointByPath(db, b.path) : e.type # "modelList"
        /\ binding' = {b}
    /\ UNCHANGED <<db, nextID, fetch, edits>>

UpsertBinding ==
    /\ \E b \in binding : Write(UpsertProviderEndpoint(db, b))
    /\ binding' = {}
    /\ UNCHANGED <<nextID, fetch>>

\* The statement fails, or changes nothing.
DropBinding ==
    /\ binding # {} /\ binding' = {}
    /\ UNCHANGED <<db, nextID, fetch, edits>>

----------------------------------------------------------------------------
(* handleFetchModels.                                                      *)

Entry(name) == [model |-> name, upstream |-> Empty, endpoints |-> {}, priority |-> 0, disabled |-> FALSE]

\* The name the upstream knows an entry's model by.
Actual(e) == IF e.upstream = Empty THEN e.model ELSE e.upstream

Pair(e) == <<e.model, e.upstream>>

TrimSpace(name) == IF name \in DOMAIN Trimmed THEN Trimmed[name] ELSE name

\* An entry is saved under its name without the blanks around it; its
\* upstream's name is kept as it is.
Trim(e) == [e EXCEPT !.model = TrimSpace(@)]

\* What the handler answers of a list: entries without a name go.
Cleaned(list) ==
    LET trimmed == [i \in DOMAIN list |-> Trim(list[i])]
    IN AtPlaces(trimmed, {i \in DOMAIN list : trimmed[i].model # Empty})

\* Of the entries with one pair of names the first is kept.
dedupProviderModelsByPair(list) ==
    LET first == {i \in DOMAIN list : \A j \in 1..(i - 1) : Pair(list[j]) # Pair(list[i])}
    IN AtPlaces(list, first)

\* Mutant: entries are compared by the model's name here, not upstream's.
aggregateProviderModels_ByModel(old, names) ==
    LET kept == AtPlaces(old, {i \in DOMAIN old : old[i].model \in names})
        added == Ascending(names \ {e.model : e \in ToSet(kept)})
    IN [list |-> dedupProviderModelsByPair(kept \o [i \in DOMAIN added |-> Entry(added[i])]),
        removed |-> {e.model : e \in ToSet(old)} \ names]

aggregateProviderModels(old, names) ==
    LET kept == AtPlaces(old, {i \in DOMAIN old : Actual(old[i]) \in names})
        added == Ascending(names \ {Actual(e) : e \in ToSet(kept)})
    IN [list |-> dedupProviderModelsByPair(kept \o [i \in DOMAIN added |-> Entry(added[i])]),
        removed |-> {Actual(e) : e \in ToSet(old)} \ names]

\* The provider's row is read; without a models endpoint it is refused.
ReadProvider ==
    /\ fetch.pc \in {"idle", "done"}
    /\ \E id \in Ids : \E p \in GetProviderByID(db, id) :
        p.feed /\ fetch' = [pc |-> "read", id |-> id, old |-> p.list]
    /\ UNCHANGED <<db, nextID, binding, edits>>

\* Upstream names its models, and the rewriteProviderModels hook passes the
\* merged list on or returns its own.
FetchModels ==
    /\ fetch.pc = "read"
    /\ \E names \in SUBSET UpstreamNames \ {{}} :
        LET merged == aggregateProviderModels(fetch.old, names)
            Ended(list, hooked) ==
                fetch' = [pc |-> "done", id |-> fetch.id, old |-> fetch.old, names |-> names,
                          removed |-> merged.removed, hooked |-> hooked,
                          final |-> dedupProviderModelsByPair(Cleaned(list))]
        IN \/ Ended(merged.list, FALSE)
           \/ \E list \in Lists : Ended(list, TRUE)
    /\ UNCHANGED <<db, nextID, binding, edits>>

\* A hook, the upstream or the parsing of its answer fails.
FetchFails ==
    /\ fetch.pc = "read" /\ fetch' = NoFetch
    /\ UNCHANGED <<db, nextID, binding, edits>>

RoutesNext ==
    \/ handleCreateProvider \/ handleUpsertProvider \/ handleUpdateProviderModels
    \/ handleDeleteProvider \/ handlePutModel \/ handleDeleteModel
    \/ handleUpsertEndpoint \/ handleDeleteEndpoint \/ handleDeleteProviderEndpoint
    \/ CheckBinding \/ UpsertBinding \/ DropBinding
    \/ ReadProvider \/ FetchModels \/ FetchFails

RoutesSpec == RoutesInit /\ [][RoutesNext]_routeVars

----------------------------------------------------------------------------
\* The modes a request can be routed in while no hook empties its model.
Modes == {[has |-> m # Empty, routed |-> m] : m \in ModelNames \cup {Empty}}

\* The routes on which a model is asked for by its name: an endpoint whose
\* requests name one, or a unified route.
Callable(name) ==
    LET asked == [has |-> TRUE, routed |-> name]
    IN \/ \E e \in db.endpoints : e.named /\ resolveProviders(db, e.path, asked) # {}
       \/ \E route \in Routes, streaming \in BOOLEAN :
            {} \notin resolveProvidersByTypes(db, asked, candidateEndpointTypes(route, streaming),
                                             route.source)

\* A binding to a path at which no endpoint's requests name a model: there is
\* no endpoint, it lists models itself, or it has no place for a name.
Astray(b) == \A e \in GetEndpointByPath(db, b.path) : ~e.named

\* The list of models that clients are offered agrees with the routes: every
\* model that can be called by its name is listed, and every listed one can be
\* called, whatever was disabled, restricted to paths or left without URL or
\* credentials.  With one exception, against handle_model_list.go:10-11 ("at
\* least one available upstream"): the list's query reads no endpoint, so that
\* a model is listed as well when an enabled provider serves it by nothing but
\* bindings gone astray.
ListAgreesWithRoutes ==
    \A name \in ModelNames :
        LET listed == name \in ListAvailableModelNames(db)
        IN /\ Callable(name) => listed
           /\ listed =>
                \/ Callable(name)
                \/ \E b \in db.bindings :
                    Astray(b) /\ resolveProviders(db, b.path, [has |-> TRUE, routed |-> name]) # {}

Tried(attempts) == {attempts[i].side.provider : i \in DOMAIN attempts}

\* An attempt goes by a binding its provider has to an endpoint it was
\* chosen for, also where several candidates share a sidecar.
ByABinding(attempts, endpoints) ==
    \A i \in DOMAIN attempts :
        LET side == attempts[i].side
        IN /\ side.provider = attempts[i].row.provider
           /\ side.path \in {e.path : e \in endpoints}
           /\ <<side.provider, side.path, side.url>> \in {<<c.provider, c.path, c.url>> : c \in db.bindings}

\* The order of the dashboard's list, where no entry has a priority.
InListedOrder(attempts) ==
    LET listed == GetProviders(db)
        Place(id) == CHOOSE i \in DOMAIN listed : listed[i].id = id
    IN (\A i \in DOMAIN attempts : attempts[i].row.priority = 0) =>
            \A i, j \in DOMAIN attempts :
                i < j => Place(attempts[i].side.provider) <= Place(attempts[j].side.provider)

\* A unified route tries the very providers that the path routes of its
\* endpoint types would try, each once, and where one can be reached in the
\* request's own format it is; every attempt, on either kind of route, goes by
\* a binding of its provider, and providers come in the order they are listed
\* in (compareCandidateOrder against GetProviders' ORDER BY).
RoutesAgree ==
    \A route \in Routes, streaming \in BOOLEAN, mode \in Modes :
        LET types == candidateEndpointTypes(route, streaming)
            served == {e \in db.endpoints : e.type \in types}
            onPath == [e \in served |-> PathAttempts(db, e, route.suffix, mode)]
            reach == [e \in served |-> UNION {Tried(q) : q \in onPath[e]}]
        IN /\ \A e \in served : \A q \in onPath[e] : ByABinding(q, {e}) /\ InListedOrder(q)
           /\ \A q \in UnifiedAttempts(db, route, streaming, mode) :
                /\ ByABinding(q, served) /\ InListedOrder(q)
                /\ Tried(q) = UNION {reach[e] : e \in served}
                /\ Len(q) = Cardinality(Tried(q))
                /\ \A i \in DOMAIN q :
                    LET native == {e.path : e \in {x \in served : x.type = route.source
                                                          /\ q[i].side.provider \in reach[x]}}
                    IN native # {} => q[i].side.path \in native

\* A refreshed list, unless a script replaced it, has the models the upstream
\* named and no others, up to the blanks around a name: what was configured for
\* one of them stays configured under its own name, what upstream no longer has
\* is reported as removed, and no pair of names comes twice.  (The saved entry
\* of a model that upstream names with blanks around it has lost them and is
\* not recognised by the next refresh.  A saved entry without a name of its
\* own, which the handlers do not refuse, takes its upstream model's place and
\* is then dropped as nameless.)
FetchFollowsUpstream ==
    /\ fetch.pc = "done" /\ ~fetch.hooked
    /\ \A e \in ToSet(fetch.old) : TrimSpace(e.model) # Empty
    =>
        LET final == ToSet(fetch.final)
        IN /\ \A e \in final : \E n \in fetch.names : Actual(e) \in {n, TrimSpace(n)}
           /\ \A n \in fetch.names : TrimSpace(n) # Empty =>
                \E e \in final : Actual(e) \in {n, TrimSpace(n)}
           /\ \A e \in ToSet(fetch.old) :
                IF Actual(e) \in fetch.names
                THEN Pair(Trim(e)) \in {Pair(d) : d \in final}
                ELSE Actual(e) \in fetch.removed
           /\ fetch.removed \cap fetch.names = {}
           /\ Cardinality({Pair(e) : e \in final}) = Len(fetch.final)
=============================================================================
