----------------------------- MODULE MCRecords -----------------------------
(***************************************************************************)
(* Small instances of three things that happen to the request table after  *)
(* the gateway has written it: it is read page by page (RequestPages), its *)
(* costs are recalculated (CostRecalc) and its projects are merged         *)
(* (Projects), once beside all its owner does and once beside another      *)
(* merge.  They share the queries but no row, so each initial state plays  *)
(* one scene and the variables of the others stand still.                  *)
(***************************************************************************)
EXTENDS RequestPages, CostRecalc, Projects

CONSTANTS Scenes, s1, s2, x1

VARIABLE scene
vars == <<scene, pageVars, costVars, projectVars>>

----------------------------------------------------------------------------
(* Rows.                                                                   *)

Kinds == {"input", "output", "cacheRead", "cacheWrite", "cacheWrite1h"}
Tokens(input, output) ==
    [k \in Kinds |-> IF k = "input" THEN input ELSE IF k = "output" THEN output ELSE None]

MakeRow(id, at, user, type, parent, reason, tokens) ==
    [id |-> id, at |-> at, user |-> user, span |-> IF id = 1 THEN None ELSE parent,
     parent |-> parent, path |-> <<"v1", "chat">>, reason |-> reason, inferred |-> None,
     preview |-> None, tokens |-> tokens, cost |-> None, currency |-> None, external |-> {x1},
     annotations |-> <<>>,
     equal |-> [type |-> type, provider |-> 1, model |-> "m", upstreamModel |-> "m", project |-> None]]

PageCompletions == {<<"v1", "chat">>}

\* Two users; two rows of one second; a row stamped early and inserted late.
PageOld == {MakeRow(1, 1, 1, 0, s1, EOF, Tokens(1, 0)), MakeRow(3, 2, 1, 1, s1, None, Tokens(None, None)),
            MakeRow(4, 2, 1, 1, s2, EOF, Tokens(1, 1)), MakeRow(5, 2, 2, 1, s2, EOF, Tokens(1, 1))}
PageFresh == {MakeRow(2, 2, 1, 1, s2, None, Tokens(1, 1)),
              [MakeRow(6, 3, None, 0, s1, None, Tokens(None, None)) EXCEPT !.inferred = "n"]}
PageOwners == {[user |-> 1, project |-> 1]}
PageFinishes == {[reason |-> EOF, tokens |-> Tokens(1, 1)], [reason |-> 5]}
PageAnnotations == {<<3, "k", "v">>, <<3, "k", None>>}

NoFilter == [equal |-> <<>>, path |-> None, routed |-> None, from |-> None, to |-> None, trace |-> None,
             empty |-> FALSE, reason |-> None, request |-> None, annotations |-> None]
Query(f) == [user |-> 1, filter |-> f, from |-> f.from, to |-> f.to]
PageQueries ==
    {Query(NoFilter),
     Query([NoFilter EXCEPT !.equal = [type |-> 1], !.from = 2]),
     Query([NoFilter EXCEPT !.reason = -1, !.to = 2]),
     Query([NoFilter EXCEPT !.empty = TRUE, !.path = <<"v1">>]),
     Query([NoFilter EXCEPT !.routed = FALSE, !.request = s1]),
     Query([NoFilter EXCEPT !.trace = 1]),
     Query([NoFilter EXCEPT !.annotations = [k |-> "v"], !.request = x1])}

\* A price with a tier the larger request reaches, and a free one.
Flat(currency, each) ==
    [currency |-> currency, tiers |-> <<[min |-> 0, price |-> [k \in Kinds |-> each]]>>]
Tiered == [currency |-> "USD", tiers |-> <<[min |-> 0, price |-> [k \in Kinds |-> 3]],
                                           [min |-> 2, price |-> [k \in Kinds |-> 1]]>>]
CostPrices == {None, Flat("CNY", 5), Tiered}
CostFirst == Flat("USD", 1)
CostRows == {MakeRow(1, 0, 1, 1, s1, EOF, Tokens(1, 1)), MakeRow(2, 1, 1, 1, s1, EOF, Tokens(4, None)),
             MakeRow(3, 3, 1, 1, s1, EOF, Tokens(None, None))}
CostOpen == {MakeRow(4, 3, 1, 1, s2, None, Tokens(None, None))}
CostStarts == {None, 1}
CostUsed == Tokens(2, 2)

Home == <<"home", "a">>
ProjectMentions == {{Home}, {<<"home">>, <<"home", "b">>}}
ProjectSeeds == {[id |-> 1, user |-> 1, name |-> <<"a">>, paths |-> {Home}, first |-> Null, last |-> Null],
                 [id |-> 2, user |-> 1, name |-> <<"b">>, paths |-> {}, first |-> Null, last |-> Null],
                 [id |-> 3, user |-> 2, name |-> <<"a">>, paths |-> {<<"home">>}, first |-> Null, last |-> Null]}
ProjectEdits == {[user |-> 1, name |-> <<"c">>, paths |-> {<<"home">>}]}
ProjectOwners == [r \in Requests |-> 1]
ProjectLong == {Home, <<"home", "b">>}

----------------------------------------------------------------------------

Init ==
    /\ scene \in Scenes
    /\ PagesInit /\ CostInit /\ ProjectsInit
    /\ scene # "projects" => autoCreate = [u \in Users |-> FALSE]

\* The bound of the first scene: the three readers do not touch each other.
OneReader ==
    Cardinality({pc \in {<<1, rows.pc>>, <<2, spans.pc>>, <<3, detail.pc>>} : pc[2] # "idle"}) <= 1

\* The bounds of the third scene, which is about the owner: one merge at all,
\* and who is not in Users deletes nothing.
OneMerge == \A m \in Merges \ {1} : merge[m].pc = "idle"
OthersStay == \A p \in Seeds : p.user \notin Users => p \in project

\* The bounds of the fourth, which is about merges that overlap: the owner
\* creates projects and deletes or renames none, merges begin in the order of
\* their numbers, and so do requests, the next when the one before is done.
OwnerMerges ==
    /\ \A p \in Seeds :
        \/ \E q \in project : q.id = p.id /\ q.name = p.name
        \/ \E m \in Merges : merge[m].src = p.id /\ merge[m].pc = "done"
    /\ autoCreate = [u \in Users |-> FALSE]
    /\ \A m, n \in Merges : m < n /\ merge[n].pc # "idle" => merge[m].pc # "idle"
    /\ \A r, q \in Requests : r < q /\ ex[q].pc # "new" => ex[r].pc = "done"

Next ==
    /\ \/ scene = "pages" /\ PagesNext /\ OneReader' /\ UNCHANGED <<costVars, projectVars>>
       \/ scene = "costs" /\ CostNext /\ UNCHANGED <<pageVars, projectVars>>
       \/ scene = "projects" /\ ProjectsNext /\ (OneMerge /\ OthersStay)' /\ UNCHANGED <<pageVars, costVars>>
       \/ scene = "merges" /\ ProjectsNext /\ OwnerMerges' /\ UNCHANGED <<pageVars, costVars>>
    /\ UNCHANGED scene

Spec == Init /\ [][Next]_vars
=============================================================================
