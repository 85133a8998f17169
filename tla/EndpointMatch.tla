--------------------------- MODULE EndpointMatch ---------------------------
(***************************************************************************)
(* How a request path finds its endpoint (pkg/server/endpoint_router.go):  *)
(* the compiled entries are sorted most specific first and the first one   *)
(* that matches serves the request.                                        *)
(*                                                                         *)
(* A path is a sequence of character codes.  A whole {name} token of an    *)
(* endpoint's path is the one code Token, greater than any letter's as '{' *)
(* is in ASCII; the names are left out, so only whether and not what a     *)
(* token captures is modelled.  An endpoint is a record of its path and    *)
(* its prefix flag; the path is its key in the database.                   *)
(***************************************************************************)
EXTENDS Naturals, Sequences, FiniteSets, SequencesExt, Orders

Slash == 1
Token == 9

HasToken(p) == \E i \in DOMAIN p : p[i] = Token

\* compilePattern's literalLen; for a prefix entry it is len(ep.Path), the
\* same number because such a path has no token.
LiteralLen(p) == Cardinality({i \in DOMAIN p : p[i] # Token})

\* Go's < on the two strings.
PathLess(p, q) ==
    \/ IsStrictPrefix(p, q)
    \/ \E i \in DOMAIN p \cap DOMAIN q :
        /\ p[i] < q[i]
        /\ \A j \in 1..i-1 : p[j] = q[j]

\* Mutant: the shortest literal first.
Before_Reversed(d, e) ==
    \/ LiteralLen(d.path) < LiteralLen(e.path)
    \/ LiteralLen(d.path) = LiteralLen(e.path) /\ PathLess(d.path, e.path)

\* sortCompiledEndpoints' order.
Before(d, e) ==
    \/ LiteralLen(d.path) > LiteralLen(e.path)
    \/ LiteralLen(d.path) = LiteralLen(e.path) /\ PathLess(d.path, e.path)

\* load skips a prefix endpoint with a token instead of failing.
Compiled(rows) == {e \in rows : ~(e.prefix /\ HasToken(e.path))}

SortedEntries(rows) ==
    LET es == Compiled(rows)
    IN InOrder(es, {de \in es \X es : Before(de[1], de[2])})

\* The anchored expression in which a token is (.+?): from the i-th code of
\* the pattern on, it matches the request path from its j-th code on.
Matches(p, s) ==
    LET rest[i \in 1..Len(p)+1, j \in 1..Len(s)+1] ==
            IF i = Len(p) + 1 THEN j = Len(s) + 1
            ELSE IF p[i] = Token THEN \E k \in j+1..Len(s)+1 : rest[i + 1, k]
            ELSE j <= Len(s) /\ s[j] = p[i] /\ rest[i + 1, j + 1]
    IN rest[1, 1]

\* A prefix endpoint serves the paths below it, not itself.
Serves(e, s) ==
    IF e.prefix THEN IsPrefix(Append(e.path, Slash), s) ELSE Matches(e.path, s)

\* matchLocked: the first entry that serves the path, if there is one.
FirstMatch(entries, s) ==
    LET hits == {i \in DOMAIN entries : Serves(entries[i], s)}
    IN IF hits = {} THEN {}
       ELSE {entries[CHOOSE i \in hits : \A j \in hits : i <= j]}
=============================================================================
