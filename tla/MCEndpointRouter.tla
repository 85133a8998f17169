-------------------------- MODULE MCEndpointRouter --------------------------
(***************************************************************************)
(* Small instances of EndpointRouter and Routing, one for each initial     *)
(* value of scene.  "match": one request after the other is matched        *)
(* against every content made of the rows below; nothing changes.          *)
(* "cache": two requests and two administrators share the cache while the  *)
(* two rows of Few come and go.  "routes": administrators change what the  *)
(* matched endpoint's candidates are found by.  The three share no row.    *)
(***************************************************************************)
EXTENDS EndpointRouter, Routing

CONSTANTS r1, r2, a1, a2

VARIABLE scene

a == 2
b == 3

\* A prefix "/a", the exact endpoints "/a/b", "/{x}/b" and "/a{x}", and a
\* prefix row with a token that only a foreign writer can have left.
Prefix == [path |-> <<Slash, a>>, prefix |-> TRUE]
Under  == [path |-> <<Slash, a, Slash, b>>, prefix |-> FALSE]
Beside == [path |-> <<Slash, Token, Slash, b>>, prefix |-> FALSE]
Suffixed == [path |-> <<Slash, a, Token>>, prefix |-> FALSE]
Broken == [path |-> <<Slash, Token>>, prefix |-> TRUE]

AllEndpoints == {Prefix, Under, Beside, Suffixed}
ForeignRows  == {Broken}
Few          == {Prefix, Under}

AllPaths == {<<Slash, a>>, <<Slash, a, Slash>>, <<Slash, a, Slash, b>>,
             <<Slash, a, b>>, <<Slash, b, Slash, b>>, <<Slash, a, a, Slash, b>>}
OnePath  == <<Slash, a, Slash, b>>

TwoRequests == {r1, r2}
TwoAdmins   == {a1, a2}

----------------------------------------------------------------------------
(* Two providers bound to two endpoints, and a third path without one.     *)

Serve(name, upstream, endpoints, priority, disabled) ==
    [model |-> name, upstream |-> upstream, endpoints |-> endpoints,
     priority |-> priority, disabled |-> disabled]

SomeLists ==
    {<<Serve(1, Empty, {}, 0, FALSE)>>,
     <<Serve(1, 2, {1}, 0, FALSE), Serve(1, Empty, {}, 1, FALSE), Serve(2, Empty, {2}, 0, TRUE)>>,
     <<Serve(2, Empty, {2}, 0, FALSE), Serve(2, Empty, {}, 0, FALSE), Serve(Empty, 1, {}, 0, FALSE)>>}

Form(priority, keyed, disabled, list) ==
    [priority |-> priority, keyed |-> keyed, disabled |-> disabled, feed |-> TRUE, list |-> list]
SomeForms ==
    {Form(0, TRUE, TRUE, <<Serve(1, Empty, {}, 0, FALSE)>>),
     Form(1, TRUE, FALSE, <<Serve(1, Empty, {}, 0, FALSE), Serve(2, 1, {}, 0, FALSE)>>),
     Form(0, FALSE, FALSE, <<Serve(2, Empty, {}, 0, FALSE)>>)}

At(place, type, prefix, resolver) ==
    [path |-> place, type |-> type, prefix |-> prefix, resolver |-> resolver,
     named |-> type \notin {"search", "modelList"}]
SomeEndpointRows ==
    {At(1, "chat", FALSE, 1), At(1, "modelList", FALSE, 0), At(2, "search", FALSE, 0), At(2, "anthropic", TRUE, 1),
     At(2, "codex", TRUE, 1), At(2, "codex", FALSE, 1)}

Bind(id, place, url, resolver) ==
    [provider |-> id, path |-> place, url |-> url, resolver |-> resolver]
SomeBindings == {Bind(1, 2, 2, 0), Bind(2, 1, Empty, 1), Bind(2, 2, 1, 2), Bind(1, 3, 1, 0)}

\* A third name of an upstream's: the first, with a blank before it.
BlankBefore == 3 :> 1

SomeRoutes ==
    {[source |-> "anthropic", format |-> "anthropic", suffix |-> "", codex |-> FALSE],
     [source |-> "embedding", format |-> "unknown", suffix |-> "", codex |-> FALSE],
     codexUnifiedRoute("/responses"), codexUnifiedRoute("/other")}

TheDB ==
    [providers |-> {[id |-> 1] @@ Form(0, TRUE, FALSE, <<Serve(1, Empty, {}, 0, FALSE)>>),
                    [id |-> 2] @@ Form(0, TRUE, FALSE, <<Serve(1, 2, {2}, 0, FALSE), Serve(1, Empty, {}, 1, FALSE)>>)},
     bindings |-> {Bind(1, 1, 1, 0), Bind(1, 2, 1, 0), Bind(2, 2, Empty, 0), Bind(2, 1, 1, 0)},
     endpoints |-> {At(1, "chat", FALSE, 1), At(2, "anthropic", TRUE, 1)},
     models |-> {[name |-> 1, disabled |-> FALSE], [name |-> 2, disabled |-> FALSE]}]

----------------------------------------------------------------------------

NoDB == [providers |-> {}, bindings |-> {}, endpoints |-> {}, models |-> {}]
SomeDBs == {TheDB, NoDB}

MCInit ==
    /\ Init /\ RoutesInit
    /\ \/ scene = "match" /\ path[r2] = OnePath
       \/ scene = "cache" /\ Rows \subseteq Few /\ path = [r \in Requests |-> OnePath]
       \/ scene = "routes" /\ Rows = {} /\ path = [r \in Requests |-> OnePath]
    /\ db = NoDB <=> scene # "routes"

\* Bounds of the third scene: a list is refreshed, in one go, when there is one
\* write left, which saves it.
Apart ==
    /\ fetch' # fetch => edits = MaxEdits - 1 /\ binding = {}
    /\ fetch.pc = "read" => edits' = edits /\ binding' = {}
    /\ fetch.pc = "done" /\ edits' # edits =>
            \E id \in Ids : db' = UpdateProvider(db, id, [list |-> fetch.final])

MCNext ==
    /\ \/ /\ scene = "match"
          /\ MatchStep(r1) \/ Again(r1)
          /\ UNCHANGED routeVars
       \/ /\ scene = "cache"
          /\ Next
          /\ history'[Len(history')] \subseteq Few
          /\ path' = path
          /\ UNCHANGED routeVars
       \/ scene = "routes" /\ RoutesNext /\ Apart /\ UNCHANGED vars
    /\ UNCHANGED scene

MCSpec == MCInit /\ [][MCNext]_<<vars, routeVars, scene>>
=============================================================================
