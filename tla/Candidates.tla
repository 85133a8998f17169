---------------------------- MODULE Candidates ----------------------------
(***************************************************************************)
(* How the gateway makes its candidates out of the routing queries'        *)
(* answers (pkg/server/gateway_helpers.go, gateway_unified_helpers.go,     *)
(* gateway_flow_candidates.go, unified_routes.go).  A path route asks for  *)
(* the providers bound to its endpoint, a unified route for those bound to *)
(* any endpoint of a set of types, of which it keeps one row per provider. *)
(*                                                                         *)
(* A query's rows come in no particular order.  Where the code lets the    *)
(* order decide, an operator below returns the set of what may come out.   *)
(***************************************************************************)
EXTENDS ProviderTables

Gemini == {"gemini", "geminiStream"}

\* unifiedRoute.passthrough: llmbridge has no format for the route.
Passthrough(route) == route.format = "unknown"

candidateEndpointTypes(route, streaming) ==
    IF Passthrough(route) THEN {route.source}
    ELSE {"anthropic", "chat", "responses"}
         \cup (IF route.format \in Gemini THEN {route.format}
               ELSE {IF streaming THEN "geminiStream" ELSE "gemini"})
         \cup (IF route.codex THEN {"codex"} ELSE {})

\* codexUnifiedRoute: only /responses has a format.
codexUnifiedRoute(suffix) ==
    [source |-> "codex", format |-> IF suffix = "/responses" THEN "responses" ELSE "unknown",
     suffix |-> suffix, codex |-> TRUE]

\* An upstream URL and credentials: what a row needs to be tried at all.
Usable(rows) == {r \in rows : r.url # Empty /\ r.keyed}

\* compareCandidateOrder.
Precedes(r, s) ==
    LET left == r.priority + r.providerPriority  right == s.priority + s.providerPriority
    IN left > right \/ (left = right /\ r.provider > s.provider)

\* slices.SortFunc is not stable: entries of one provider may tie.
Sorted(rows) ==
    {q \in SetToSeqs(rows) : \A i, j \in DOMAIN q : i < j => ~Precedes(q[j], q[i])}

\* A mode says whether the request carried a model and which one it is routed
\* by; the rewriteModel hook may have made that one empty.  A path route goes
\* by the name alone, a unified one by whether there was one.
resolveProviders(db, path, mode) ==
    Usable(IF mode.routed = Empty THEN GetProvidersByEndpoint(db, path)
           ELSE GetProvidersByEndpointAndModel(db, path, mode.routed))

\* betterRow.
BetterRow(r, s, source) ==
    LET Rank(t) == IF t = source THEN 0
                   ELSE CASE t = "anthropic" -> 1 [] t = "chat" -> 2 [] OTHER -> 3
    IN \/ Rank(r.type) < Rank(s.type)
       \/ Rank(r.type) = Rank(s.type) /\ r.path < s.path

\* dedupeUnifiedRows: of a provider's best rows the first one of the answer,
\* whatever its entry's priority.
dedupeUnifiedRows(rows, source) ==
    LET best == {r \in rows : \A s \in rows : s.provider = r.provider => ~BetterRow(s, r, source)}
        ids == {r.provider : r \in rows}
    IN {kept \in SUBSET best : \A id \in ids : Cardinality({r \in kept : r.provider = id}) = 1}

UnifiedRows(db, mode, types) ==
    IF mode.has THEN GetProvidersByEndpointTypesAndModel(db, types, mode.routed)
    ELSE GetProvidersByEndpointTypes(db, types)

\* Mutant: the best row of a provider is picked before the unusable ones go.
resolveProvidersByTypes_DedupesFirst(db, mode, types, source) ==
    {Usable(kept) : kept \in dedupeUnifiedRows(UnifiedRows(db, mode, types), source)}

resolveProvidersByTypes(db, mode, types, source) ==
    dedupeUnifiedRows(Usable(UnifiedRows(db, mode, types)), source)

\* A binding's resolver overrides the endpoint's unless it is unknown.
effectiveSendResolver(endpointResolver, bindingResolver) ==
    IF bindingResolver # Empty THEN bindingResolver ELSE endpointResolver

buildPathCandidateSet(q, endpoint, suffix) ==
    [i \in DOMAIN q |->
        [key |-> <<q[i].provider>>, row |-> q[i],
         side |-> [provider |-> q[i].provider, url |-> q[i].url, path |-> endpoint.path,
                   send |-> effectiveSendResolver(endpoint.resolver, q[i].send),
                   append |-> IF endpoint.prefix THEN suffix ELSE ""]]]

buildUnifiedCandidateSet(q, suffix) ==
    [i \in DOMAIN q |->
        [key |-> <<q[i].provider, q[i].path>>, row |-> q[i],
         side |-> [provider |-> q[i].provider, url |-> q[i].url, path |-> q[i].path,
                   send |-> effectiveSendResolver(q[i].inherited, q[i].send),
                   append |-> IF q[i].prefix THEN suffix ELSE ""]]]

\* candidateSidecarMap and lookupCandidateSidecar: the last item under a key.
Sidecar(items, i) ==
    items[Max({j \in DOMAIN items : items[j].key = items[i].key})].side

\* What the attempt loop sends, in turn, when no hook intervenes.
PathAttempts(db, endpoint, suffix, mode) ==
    {LET items == buildPathCandidateSet(q, endpoint, suffix)
     IN [i \in DOMAIN items |-> [row |-> items[i].row, side |-> Sidecar(items, i)]]
        : q \in Sorted(resolveProviders(db, endpoint.path, mode))}

UnifiedAttempts(db, route, streaming, mode) ==
    UNION {{LET items == buildUnifiedCandidateSet(q, route.suffix)
            IN [i \in DOMAIN items |-> [row |-> items[i].row, side |-> Sidecar(items, i)]]
                : q \in Sorted(kept)}
           : kept \in resolveProvidersByTypes(db, mode, candidateEndpointTypes(route, streaming),
                                              route.source)}
=============================================================================
