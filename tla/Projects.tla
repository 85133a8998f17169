------------------------------ MODULE Projects ------------------------------
(***************************************************************************)
(* Projects: found for a request by the paths in its body or created for   *)
(* it (pkg/server/project_extractor.go), edited, merged and deleted by     *)
(* their owner (handle_project.go, pkg/db/project.sql.go).  request rows   *)
(* name their project without a foreign key.  A merge is a transaction at  *)
(* read committed, and any number of them may be open: the others see      *)
(* nothing of it before the commit, and a statement of it takes two steps, *)
(* the snapshot it reads and the locks on what it changes, for which it    *)
(* may have to wait.                                                       *)
(***************************************************************************)
EXTENDS Integers, Sequences, FiniteSets, FiniteSetsExt

CONSTANTS Null,       \* NULL in a column
          Users,
          Requests,   \* gateway requests, each of the user OwnerOf[r]
          OwnerOf,
          Mentions,   \* what a body may mention: sets of paths
          Long,       \* the paths that may name a project: longer than 5 characters
          Seeds,      \* projects there at the start
          Edits,      \* [name, paths] an owner may save
          Merges,     \* merges, one transaction each
          MaxProjects \* ids given out, the bound of the instance

ASSUME RequestsAreTimes == Requests \subseteq Nat   \* a request stands for its created_at
ASSUME NullApart == Null \notin Nat                \* ids are numbers

\* A row of the table.
IsProject(p) ==
    p \in [id : Nat, user : {p.user}, name : {p.name}, paths : {p.paths},
           first : Nat \cup {Null}, last : Nat \cup {Null}]

\* The table at the start: the ids are a primary key, one of them the last.
ASSUME SeedsAssumption ==
    /\ \A p \in Seeds : IsProject(p)
    /\ \A p, q \in Seeds : p.id = q.id => p = q
    /\ \E p \in Seeds : \A q \in Seeds : q.id <= p.id

\* A body is of finite length: its paths are sequences up to some length.
ASSUME MentionsAssumption ==
    \A paths \in Mentions : \A p \in paths :
        /\ p \in Seq({p[i] : i \in DOMAIN p})
        /\ \E q \in paths : \A o \in paths : Len(o) <= Len(q)

\* A path is the sequence of its components.
Ancestors(p) == {SubSeq(p, 1, n) : n \in 1..Len(p)}

VARIABLES project,    \* the table: a set of rows
          lastId,     \* of its serial column
          autoCreate, \* for each user: the setting project.autoCreate
          named,      \* for each request: request.project_id
          ex,         \* for each request: how far its extraction is
          merge,      \* for each merge: its transaction
          astray      \* kept for the properties: see below
projectVars == <<project, lastId, autoCreate, named, ex, merge, astray>>

Ids == {p.id : p \in project}
TheRow(id) == CHOOSE p \in project : p.id = id
NameTaken(name, user, id) == \E p \in project : p.user = user /\ p.name = name /\ p.id # id

\* The rows a merge has changed are locked until its transaction ends.
Locked(id) ==
    \E m \in Merges :
        \/ merge[m].pc \in {"updated", "listed", "moved", "deleted"} /\ id = merge[m].tgt
        \/ merge[m].pc = "deleted" /\ id = merge[m].src

Row(id, user, name, paths) ==
    [id |-> id, user |-> user, name |-> name, paths |-> paths, first |-> Null, last |-> Null]

Earliest(a, b) == IF a = Null THEN b ELSE IF b = Null THEN a ELSE Min({a, b})
Latest(a, b) == IF a = Null THEN b ELSE IF b = Null THEN a ELSE Max({a, b})

ProjectsInit ==
    /\ project = Seeds /\ lastId = Max({p.id : p \in Seeds})
    /\ autoCreate \in [Users -> BOOLEAN]
    /\ named = [r \in Requests |-> Null]
    /\ ex = [r \in Requests |-> [pc |-> "new", paths |-> {}, id |-> Null]]
    /\ merge = [m \in Merges |-> [pc |-> "idle", src |-> Null, tgt |-> Null,
                                  read |-> {}, row |-> Null, moved |-> {}]]
    /\ astray = [named |-> {}, seen |-> {}]

----------------------------------------------------------------------------
(* What no query can see is recorded in astray: requests that were between *)
(* finding their project and naming it when it went, requests whose time   *)
(* was not yet noted when the times were added up, and requests one merge  *)
(* brings into a project after another that empties it has looked.         *)

\* A merge has read the times of this source,
Merging(id) ==
    \E m \in Merges : merge[m].src = id /\ merge[m].pc \in {"read", "updated", "listed", "moved", "deleted"}
\* has found its requests.
LateMerge(id) == \E m \in Merges : merge[m].src = id /\ merge[m].pc \in {"listed", "moved", "deleted"}
Bound(id, pcs) == {r \in Requests : ex[r].pc \in pcs /\ ex[r].id = id}
GoAstray(named2, seen2) == astray' = [named |-> astray.named \cup named2, seen |-> astray.seen \cup seen2]

----------------------------------------------------------------------------
(* A request of the gateway.                                               *)

\* Among the user's projects the longest path decides, then the older one.
MatchProjectByPaths(user, candidates) ==
    LET hits == {h \in project \X candidates : h[1].user = user /\ h[2] \in h[1].paths}
        longest == {h \in hits : \A g \in hits : Len(h[2]) >= Len(g[2])}
    IN IF hits = {} THEN Null ELSE Min({h[1].id : h \in longest})

\* Extract: the paths a body mentions and their ancestors, against the table.
\* On a miss maybeAutoCreate reads the setting; a failed query ends it.
Extract(r) ==
    /\ ex[r].pc = "new"
    /\ \E paths \in Mentions :
        LET id == MatchProjectByPaths(OwnerOf[r], UNION {Ancestors(p) : p \in paths})
        IN \/ /\ id # Null
              /\ ex' = [ex EXCEPT ![r] = [pc |-> "found", paths |-> paths, id |-> id]]
              /\ GoAstray({}, IF Merging(id) THEN {r} ELSE {})
           \/ /\ id = Null /\ autoCreate[OwnerOf[r]] /\ paths \cap Long # {}
              /\ ex' = [ex EXCEPT ![r] = [pc |-> "create", paths |-> paths, id |-> Null]]
              /\ UNCHANGED astray
           \/ /\ ex' = [ex EXCEPT ![r] = [pc |-> "done", paths |-> paths, id |-> Null]]
              /\ UNCHANGED astray
    /\ UNCHANGED <<project, lastId, autoCreate, named, merge>>

\* The longest path that is long enough seeds the project.
Source(paths) == CHOOSE p \in paths \cap Long : \A q \in paths \cap Long : Len(p) >= Len(q)

\* InsertAutoCreatedProject: a name that is taken gets a random suffix, for
\* which the request's own number stands.
AutoCreate(r) ==
    /\ ex[r].pc = "create" /\ lastId < MaxProjects
    /\ LET source == Source(ex[r].paths)
           base == <<source[Len(source)]>>
           name == IF NameTaken(base, OwnerOf[r], Null) THEN Append(base, r) ELSE base
       IN project' = project \cup {Row(lastId + 1, OwnerOf[r], name, {source})}
    /\ lastId' = lastId + 1
    /\ ex' = [ex EXCEPT ![r].pc = "found", ![r].id = lastId + 1]
    /\ UNCHANGED <<autoCreate, named, merge, astray>>

AutoCreateFails(r) ==
    /\ ex[r].pc = "create"
    /\ ex' = [ex EXCEPT ![r].pc = "done"]
    /\ UNCHANGED <<project, lastId, autoCreate, named, merge, astray>>

\* authenticate: the project goes to the request's row by an update of its own.
NameProject(r) ==
    /\ ex[r].pc = "found"
    /\ named' = [named EXCEPT ![r] = ex[r].id]
    /\ ex' = [ex EXCEPT ![r].pc = "named"]
    /\ GoAstray(IF LateMerge(ex[r].id) THEN {r} ELSE {}, {})
    /\ UNCHANGED <<project, lastId, autoCreate, merge>>

Seen(p, at) == [p EXCEPT !.first = Earliest(@, at), !.last = Latest(@, at)]

\* upsertProjectSeen on a goroutine of its own; after five seconds behind a
\* lock it is given up.
SeeProject(r) ==
    /\ ex[r].pc = "named"
    /\ ex' = [ex EXCEPT ![r].pc = "done"]
    /\ \/ /\ ~Locked(ex[r].id)
          /\ project' = {IF p.id = ex[r].id THEN Seen(p, r) ELSE p : p \in project}
          /\ UNCHANGED astray
       \/ Locked(ex[r].id) /\ UNCHANGED project /\ GoAstray({}, {r})
    /\ UNCHANGED <<lastId, autoCreate, named, merge>>

----------------------------------------------------------------------------
(* The owner.                                                              *)

SetAutoCreate ==
    /\ \E u \in Users : autoCreate' = [autoCreate EXCEPT ![u] = ~@]
    /\ UNCHANGED <<project, lastId, named, ex, merge, astray>>

\* handleUpsertProject: a name the user has already is refused.
UpsertProject ==
    /\ \E e \in Edits :
        \/ /\ lastId < MaxProjects /\ ~NameTaken(e.name, e.user, Null)
           /\ project' = project \cup {Row(lastId + 1, e.user, e.name, e.paths)}
           /\ lastId' = lastId + 1
        \/ \E p \in project :
           /\ p.user = e.user /\ ~NameTaken(e.name, e.user, p.id) /\ ~Locked(p.id)
           /\ project' = (project \ {p}) \cup {[p EXCEPT !.name = e.name, !.paths = e.paths]}
           /\ UNCHANGED lastId
    /\ UNCHANGED <<autoCreate, named, ex, merge, astray>>

\* handleDeleteProject: the rows keep the id of what is gone.
DeleteProject ==
    /\ \E p \in project :
        /\ ~Locked(p.id)
        /\ project' = project \ {p}
        /\ LET left == {r \in Requests : named[r] = p.id} \cup Bound(p.id, {"found"})
           IN GoAstray(left, left)
    /\ UNCHANGED <<lastId, autoCreate, named, ex, merge>>

----------------------------------------------------------------------------
(* handleMergeProject.                                                     *)

\* Both projects are there and the caller's; otherwise it is 404 and over.
BeginMerge(m) ==
    /\ merge[m].pc = "idle"
    /\ \E s, t \in project :
        /\ s.id # t.id /\ s.user = t.user
        /\ merge' = [merge EXCEPT ![m].pc = "begun", ![m].src = s.id, ![m].tgt = t.id]
    /\ UNCHANGED <<project, lastId, autoCreate, named, ex, astray>>

\* Mutant: the target keeps its own times.
MergedRow_OwnTimes(t, s) == [t EXCEPT !.paths = @ \cup s.paths]

MergedRow(t, s) ==
    [t EXCEPT !.paths = @ \cup s.paths,
              !.first = Earliest(@, s.first), !.last = Latest(@, s.last)]

\* The transaction ends, and what it held with it.
Ended(m, pc) == [merge EXCEPT ![m].pc = pc, ![m].read = {}, ![m].row = Null, ![m].moved = {}]

\* MergeProjectUpdateTarget reads the source, if it is still there,
ReadSource(m) ==
    /\ merge[m].pc = "begun"
    /\ merge' = [merge EXCEPT ![m].pc = "read", ![m].read = {p \in project : p.id = merge[m].src}]
    /\ GoAstray({}, Bound(merge[m].src, {"found", "named"}))
    /\ UNCHANGED <<project, lastId, autoCreate, named, ex>>

\* and changes the target as it is once it is free; without one left it is 500.
UpdateTarget(m) ==
    /\ merge[m].pc = "read" /\ ~Locked(merge[m].tgt)
    /\ LET tgt == merge[m].tgt
           Write(row) == [merge EXCEPT ![m] = [@ EXCEPT !.pc = "updated", !.read = {}, !.row = row]]
       IN \/ tgt \notin Ids /\ merge' = Ended(m, "failed")
          \/ tgt \in Ids /\ merge[m].read = {} /\ merge' = Write(TheRow(tgt))
          \/ tgt \in Ids /\ \E src \in merge[m].read : merge' = Write(MergedRow(TheRow(tgt), src))
    /\ UNCHANGED <<project, lastId, autoCreate, named, ex, astray>>

\* Mutant: only requests whose times are noted are moved.
MergeProjectReassignRequests_Settled(m) ==
    {r \in Requests : named[r] = merge[m].src /\ ex[r].pc = "done"}

\* The requests of the source that are committed by now.
MergeProjectReassignRequests(m) == {r \in Requests : named[r] = merge[m].src}

FindRequests(m) ==
    /\ merge[m].pc = "updated"
    /\ merge' = [merge EXCEPT ![m].pc = "listed", ![m].moved = MergeProjectReassignRequests(m)]
    /\ UNCHANGED <<project, lastId, autoCreate, named, ex, astray>>

\* They change once no other merge holds them, and if they still name the source.
Reassign(m) ==
    /\ merge[m].pc = "listed"
    /\ \A n \in Merges \ {m} : merge[n].pc \in {"moved", "deleted"} => merge[n].moved \cap merge[m].moved = {}
    /\ merge' = [merge EXCEPT ![m].pc = "moved", ![m].moved = {r \in @ : named[r] = merge[m].src}]
    /\ UNCHANGED <<project, lastId, autoCreate, named, ex, astray>>

\* DeleteProject of the source waits for another merge's lock on it.
DeleteSource(m) ==
    /\ merge[m].pc = "moved" /\ ~Locked(merge[m].src)
    /\ merge' = [merge EXCEPT ![m].pc = "deleted"]
    /\ UNCHANGED <<project, lastId, autoCreate, named, ex, astray>>

Commit(m) ==
    /\ merge[m].pc = "deleted"
    /\ project' = {IF p.id = merge[m].tgt THEN merge[m].row ELSE p :
                     p \in {p \in project : p.id # merge[m].src}}
    /\ named' = [r \in Requests |-> IF r \in merge[m].moved THEN merge[m].tgt ELSE named[r]]
    /\ merge' = Ended(m, "done")
    /\ GoAstray(Bound(merge[m].src, {"found"}) \cup (IF LateMerge(merge[m].tgt) THEN merge[m].moved ELSE {}),
                IF Merging(merge[m].tgt) THEN merge[m].moved ELSE {})
    /\ UNCHANGED <<lastId, autoCreate, ex>>

\* The transaction is open.
Active == {"begun", "read", "updated", "listed", "moved", "deleted"}

\* A failed statement, a deadlock the database resolves, a client that left.
Rollback(m) ==
    /\ merge[m].pc \in Active
    /\ merge' = Ended(m, "failed")
    /\ UNCHANGED <<project, lastId, autoCreate, named, ex, astray>>

ProjectsNext ==
    \/ \E r \in Requests : Extract(r) \/ AutoCreate(r) \/ AutoCreateFails(r)
                            \/ NameProject(r) \/ SeeProject(r)
    \/ SetAutoCreate \/ UpsertProject \/ DeleteProject
    \/ \E m \in Merges : \/ BeginMerge(m) \/ ReadSource(m) \/ UpdateTarget(m) \/ FindRequests(m)
                          \/ Reassign(m) \/ DeleteSource(m) \/ Commit(m) \/ Rollback(m)

ProjectsSpec == ProjectsInit /\ [][ProjectsNext]_projectVars

----------------------------------------------------------------------------
(* Properties.                                                             *)

\* What specs/2026-06-02-project-merge/design.md promises ("every request
\* previously attributed to it is re-attributed to the target"): a request
\* names a project of its owner's that exists, unless the owner deleted it,
\* the project went while the request was about to name it, or (which the
\* promise leaves out) a merge brought it into a project whose requests
\* another merge had already found: the second takes the project away and
\* leaves them behind.
RequestsKeepProject ==
    \A r \in Requests :
        named[r] # Null /\ r \notin astray.named =>
            \E p \in project : p.id = named[r] /\ p.user = OwnerOf[r]

\* A project's times span those of the requests that name it, through every
\* merge, except of requests whose time was still to be noted in a project
\* that was being merged, whose project the owner deleted meanwhile, or that
\* one merge brought into a project whose times another had already read.
TimesSpanRequests ==
    \A r \in Requests : \A p \in project :
        named[r] = p.id /\ ex[r].pc = "done" /\ r \notin astray.seen =>
            p.first # Null /\ p.first <= r /\ r <= p.last
=============================================================================
