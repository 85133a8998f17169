--------------------------- MODULE Routing_proofs ---------------------------
(***************************************************************************)
(* Proofs about what a request is routed by.  First orders, which sorting  *)
(* and picking of rows rest on.  Then the endpoint router: its cache, for  *)
(* any endpoints, requests, administrators and number of changes, in which *)
(* a content is named by its place in history, so that no fact about the   *)
(* matching is needed; and the order of the entries, with the first that   *)
(* serves a path.  Then the tables of providers: the refresh of a list of  *)
(* models, and the queries a request finds its candidates by.              *)
(***************************************************************************)
EXTENDS EndpointRouter, Routing, FiniteSetTheorems, WellFoundedInduction, TLAPS

-----------------------------------------------------------------------------
(* Orders.                                                                  *)

\* A set of numbers that is not empty has a least one.
LEMMA Least ==
    ASSUME NEW S, S \subseteq Nat, S # {}
    PROVE  \E m \in S : \A n \in S : m <= n
<1>1. PICK m \in S : \A n \in S : ~ (<<n, m>> \in OpToRel(<, Nat))
  BY NatLessThanWellFounded, WFMin, Zenon
<1>2. \A n \in S : ~ (n < m)
  <2> SUFFICES ASSUME NEW n \in S PROVE ~ (n < m)
    OBVIOUS
  <2>1. <<n, m>> \notin OpToRel(<, Nat)
    BY <1>1
  <2>2. n \in Nat /\ m \in Nat
    OBVIOUS
  <2> QED
    BY <2>1, <2>2, Zenon DEF OpToRel
<1> QED
  BY <1>2

\* A strict total order of a set, as the set of its pairs.
IsOrderOf(R, S) ==
    /\ \A a \in S : <<a, a>> \notin R
    /\ \A a, b \in S : <<a, b>> \in R \/ <<b, a>> \in R \/ a = b
    /\ \A a, b, c \in S : <<a, b>> \in R /\ <<b, c>> \in R => <<a, c>> \in R

Rank(S, R, x) == Cardinality({y \in S : <<y, x>> \in R})

\* The elements before one number it among all, and every number is some element's.
LEMMA RankFacts ==
    ASSUME NEW S, NEW R, IsFiniteSet(S), IsOrderOf(R, S)
    PROVE  /\ Cardinality(S) \in Nat
           /\ \A r \in S : Rank(S, R, r) \in 0 .. (Cardinality(S) - 1)
           /\ \A a, b \in S : <<a, b>> \in R => Rank(S, R, a) < Rank(S, R, b)
           /\ \A i \in 0 .. (Cardinality(S) - 1) : \E r \in S : Rank(S, R, r) = i
<1> DEFINE n == Cardinality(S)
<1> DEFINE Below(r) == {q \in S : <<q, r>> \in R}
<1>1. n \in Nat /\ IsFiniteSet(S)
  BY FS_CardinalityType
<1>2. \A r \in S : IsFiniteSet(Below(r)) /\ Cardinality(Below(r)) \in Nat /\ Cardinality(Below(r)) < n
  <2> SUFFICES ASSUME NEW r \in S
               PROVE  IsFiniteSet(Below(r)) /\ Cardinality(Below(r)) \in Nat /\ Cardinality(Below(r)) < n
    OBVIOUS
  <2>1. Below(r) \in SUBSET S /\ r \notin Below(r)
    BY DEF IsOrderOf
  <2> HIDE DEF Below
  <2>2. IsFiniteSet(Below(r)) /\ Cardinality(Below(r)) <= n /\ (n = Cardinality(Below(r)) => S = Below(r))
    BY <2>1, <1>1, FS_Subset
  <2>3. Cardinality(Below(r)) \in Nat
    BY <2>2, FS_CardinalityType
  <2> QED
    BY <2>1, <2>2, <2>3, <1>1
<1>3. \A a, b \in S : <<a, b>> \in R => Cardinality(Below(a)) < Cardinality(Below(b))
  <2> SUFFICES ASSUME NEW a \in S, NEW b \in S, <<a, b>> \in R
               PROVE  Cardinality(Below(a)) < Cardinality(Below(b))
    OBVIOUS
  <2>1. Below(a) \in SUBSET Below(b) /\ a \in Below(b) /\ a \notin Below(a)
    BY DEF IsOrderOf
  <2>2. IsFiniteSet(Below(b)) /\ Cardinality(Below(b)) \in Nat /\ Cardinality(Below(a)) \in Nat
    BY <1>2
  <2> HIDE DEF Below
  <2>3. /\ Cardinality(Below(a)) <= Cardinality(Below(b))
        /\ Cardinality(Below(b)) = Cardinality(Below(a)) => Below(b) = Below(a)
    BY <2>1, <2>2, FS_Subset
  <2>4. Cardinality(Below(b)) # Cardinality(Below(a))
    BY <2>1, <2>3
  <2> QED
    BY <2>2, <2>3, <2>4
<1> DEFINE f == [r \in S |-> Cardinality(Below(r))]
<1>4. f \in Injection(S, 0 .. (n - 1))
  <2>1. f \in [S -> 0 .. (n - 1)]
    <3>1. \A r \in S : Cardinality(Below(r)) \in 0 .. (n - 1)
      <4> HIDE DEF Below
      <4> QED
        BY <1>1, <1>2
    <3> HIDE DEF Below, n
    <3> QED
      BY <3>1
  <2>2. \A a, b \in S : f[a] = f[b] => a = b
    <3> SUFFICES ASSUME NEW a \in S, NEW b \in S, f[a] = f[b], a # b PROVE FALSE
      OBVIOUS
    <3>1. <<a, b>> \in R \/ <<b, a>> \in R
      BY DEF IsOrderOf
    <3>2. f[a] \in Nat /\ f[b] \in Nat
      BY <1>2
    <3>3. f[a] < f[b] \/ f[b] < f[a]
      BY <1>3, <3>1
    <3> QED
      BY <3>2, <3>3
  <2> QED
    BY <2>1, <2>2 DEF Injection, IsInjective
<1>5. IsFiniteSet(0 .. (n - 1)) /\ Cardinality(0 .. (n - 1)) = n
  <2>1. 0 \in Int /\ n - 1 \in Int
    BY <1>1
  <2>2. IsFiniteSet(0 .. (n - 1)) /\ Cardinality(0 .. (n - 1)) = IF 0 > n - 1 THEN 0 ELSE (n - 1) - 0 + 1
    BY <2>1, FS_Interval
  <2> QED
    BY <1>1, <2>2
<1>6. f \in Surjection(S, 0 .. (n - 1))
  <2> HIDE DEF f
  <2> QED
    BY <1>4, <1>5, FS_Injection
<1>7. \A i \in 0 .. (n - 1) : \E r \in S : f[r] = i
  BY <1>6 DEF Surjection
<1>8. \A r \in S : Rank(S, R, r) = Cardinality(Below(r)) /\ f[r] = Cardinality(Below(r))
  BY DEF Rank
<1> HIDE DEF f, Below
<1> QED
  BY <1>1, <1>2, <1>3, <1>7, <1>8

Nth(S, R, i) == CHOOSE x \in S : Cardinality({y \in S : <<y, x>> \in R}) = i - 1

\* The elements in their order.
LEMMA NthFacts ==
    ASSUME NEW S, NEW R, IsFiniteSet(S), IsOrderOf(R, S)
    PROVE  /\ \A i \in 1 .. Cardinality(S) : Nth(S, R, i) \in S
           /\ \A i, j \in 1 .. Cardinality(S) : i < j => <<Nth(S, R, i), Nth(S, R, j)>> \in R
           /\ \A r \in S : \E i \in 1 .. Cardinality(S) : r = Nth(S, R, i)
<1> DEFINE n == Cardinality(S)
<1>1. n \in Nat
  BY RankFacts
<1>2. \A i \in 1 .. n : Nth(S, R, i) \in S /\ Rank(S, R, Nth(S, R, i)) = i - 1
  <2> SUFFICES ASSUME NEW i \in 1 .. n PROVE Nth(S, R, i) \in S /\ Rank(S, R, Nth(S, R, i)) = i - 1
    OBVIOUS
  <2>1. i - 1 \in 0 .. (n - 1)
    BY <1>1
  <2>2. \E r \in S : Rank(S, R, r) = i - 1
    BY <2>1, RankFacts
  <2> QED
    BY <2>2 DEF Nth, Rank
<1>3. \A a, b \in S : Rank(S, R, a) = Rank(S, R, b) => a = b
  <2> SUFFICES ASSUME NEW a \in S, NEW b \in S, Rank(S, R, a) = Rank(S, R, b), a # b PROVE FALSE
    OBVIOUS
  <2>1. Rank(S, R, a) < Rank(S, R, b) \/ Rank(S, R, b) < Rank(S, R, a)
    BY RankFacts DEF IsOrderOf
  <2>2. Rank(S, R, a) \in Int /\ Rank(S, R, b) \in Int
    BY RankFacts
  <2> QED
    BY <2>1, <2>2
<1>4. \A i, j \in 1 .. n : i < j => <<Nth(S, R, i), Nth(S, R, j)>> \in R
  <2> SUFFICES ASSUME NEW i \in 1 .. n, NEW j \in 1 .. n, i < j
               PROVE  <<Nth(S, R, i), Nth(S, R, j)>> \in R
    OBVIOUS
  <2>1. Rank(S, R, Nth(S, R, i)) < Rank(S, R, Nth(S, R, j)) /\ Nth(S, R, i) \in S /\ Nth(S, R, j) \in S
    BY <1>1, <1>2
  <2>2. <<Nth(S, R, j), Nth(S, R, i)>> \notin R /\ Nth(S, R, i) # Nth(S, R, j)
    <3>1. Rank(S, R, Nth(S, R, i)) \in Int /\ Rank(S, R, Nth(S, R, j)) \in Int
      BY <2>1, RankFacts
    <3> QED
      BY <2>1, <3>1, RankFacts
  <2> QED
    BY <2>1, <2>2 DEF IsOrderOf
<1>5. \A r \in S : \E i \in 1 .. n : r = Nth(S, R, i)
  <2> SUFFICES ASSUME NEW r \in S PROVE \E i \in 1 .. n : r = Nth(S, R, i)
    OBVIOUS
  <2> DEFINE i == Rank(S, R, r) + 1
  <2>1. Rank(S, R, r) \in 0 .. (n - 1)
    BY RankFacts
  <2>2. i \in 1 .. n /\ i - 1 = Rank(S, R, r)
    BY <1>1, <2>1
  <2> HIDE DEF i
  <2>3. r = Nth(S, R, i)
    BY <1>2, <1>3, <2>2
  <2> QED
    BY <2>2, <2>3
<1> QED
  BY <1>2, <1>4, <1>5

\* InOrder has each element once, none before one that it is not.
LEMMA InOrderFacts ==
    ASSUME NEW S, NEW R, IsFiniteSet(S), IsOrderOf(R, S)
    PROVE  LET q == InOrder(S, R)  n == Cardinality(S) IN
           /\ n \in Nat /\ DOMAIN q = 1 .. n /\ q \in [1 .. n -> S]
           /\ \A i \in 1 .. n : q[i] \in S
           /\ \A i, j \in 1 .. n : i < j => <<q[i], q[j]>> \in R
           /\ \A x \in S : \E i \in 1 .. n : q[i] = x
<1> DEFINE n == Cardinality(S)
<1> DEFINE q == InOrder(S, R)
<1>1. q = [i \in 1 .. n |-> Nth(S, R, i)]
  BY DEF InOrder, Nth
<1>2. n \in Nat
  BY RankFacts
<1> HIDE DEF q
<1>3. DOMAIN q = 1 .. n /\ \A i \in 1 .. n : q[i] = Nth(S, R, i)
  BY <1>1
<1>4. \A i \in 1 .. n : q[i] \in S
  BY <1>3, NthFacts
<1>5. q \in [1 .. n -> S]
  BY <1>1, <1>3, <1>4
<1>6. \A i, j \in 1 .. n : i < j => <<q[i], q[j]>> \in R
  BY <1>3, NthFacts
<1>7. \A x \in S : \E i \in 1 .. n : q[i] = x
  BY <1>3, NthFacts
<1> QED
  BY <1>2, <1>3, <1>4, <1>5, <1>6, <1>7 DEF q

\* Numbers in ascending order.
LEMMA AscendingFacts ==
    ASSUME NEW S, IsFiniteSet(S), S \subseteq Nat
    PROVE  LET q == Ascending(S)  n == Cardinality(S) IN
           /\ n \in Nat /\ DOMAIN q = 1 .. n /\ q \in [1 .. n -> S]
           /\ \A i \in 1 .. n : q[i] \in S
           /\ \A i, j \in 1 .. n : i < j => q[i] < q[j]
           /\ \A x \in S : \E i \in 1 .. n : q[i] = x
<1> DEFINE R == {ij \in S \X S : ij[1] < ij[2]}
<1>1. \A a, b \in S : <<a, b>> \in R <=> a < b
  OBVIOUS
<1>2. Ascending(S) = InOrder(S, R)
  BY DEF Ascending
<1> HIDE DEF R
<1>3. IsOrderOf(R, S)
  <2>1. \A a \in S : a \in Nat
    OBVIOUS
  <2> QED
    BY <1>1, <2>1 DEF IsOrderOf
<1>4. /\ Cardinality(S) \in Nat
      /\ DOMAIN InOrder(S, R) = 1 .. Cardinality(S)
      /\ InOrder(S, R) \in [1 .. Cardinality(S) -> S]
      /\ \A i \in 1 .. Cardinality(S) : InOrder(S, R)[i] \in S
      /\ \A i, j \in 1 .. Cardinality(S) : i < j => <<InOrder(S, R)[i], InOrder(S, R)[j]>> \in R
      /\ \A x \in S : \E i \in 1 .. Cardinality(S) : InOrder(S, R)[i] = x
  BY <1>3, InOrderFacts
<1>5. \A i, j \in 1 .. Cardinality(S) : i < j => InOrder(S, R)[i] < InOrder(S, R)[j]
  BY <1>1, <1>4
<1> QED
  BY <1>2, <1>4, <1>5

\* What is taken from a list at some places, each of them once.
LEMMA AtPlacesFacts ==
    ASSUME NEW X, NEW list \in Seq(X), NEW places \in SUBSET DOMAIN list
    PROVE  LET q == AtPlaces(list, places)  order == Ascending(places) IN
           /\ Cardinality(places) \in Nat
           /\ q \in Seq(X) /\ DOMAIN q = 1 .. Cardinality(places)
           /\ \A k \in DOMAIN q : order[k] \in places /\ q[k] = list[order[k]]
           /\ \A k, l \in DOMAIN q : order[k] = order[l] => k = l
           /\ \A i \in places : \E k \in DOMAIN q : order[k] = i /\ q[k] = list[i]
<1> DEFINE q == AtPlaces(list, places)
<1> DEFINE order == Ascending(places)
<1> DEFINE n == Cardinality(places)
<1>1. DOMAIN list = 1 .. Len(list) /\ Len(list) \in Nat /\ \A i \in DOMAIN list : list[i] \in X
  OBVIOUS
<1>2. IsFiniteSet(places) /\ places \subseteq Nat
  <2>1. IsFiniteSet(1 .. Len(list))
    BY FS_Interval
  <2> QED
    BY <1>1, <2>1, FS_Subset
<1>3. /\ n \in Nat /\ DOMAIN order = 1 .. n
      /\ \A i \in 1 .. n : order[i] \in places
      /\ \A i, j \in 1 .. n : i < j => order[i] < order[j]
      /\ \A x \in places : \E i \in 1 .. n : order[i] = x
  BY <1>2, AscendingFacts
<1>4. q = [k \in DOMAIN order |-> list[order[k]]]
  BY DEF AtPlaces
<1> HIDE DEF q, order, n
<1>5. DOMAIN q = 1 .. n /\ \A k \in 1 .. n : q[k] = list[order[k]]
  BY <1>3, <1>4
<1>6. q \in Seq(X)
  <2>1. \A k \in 1 .. n : list[order[k]] \in X
    BY <1>1, <1>3
  <2>2. q = [k \in 1 .. n |-> list[order[k]]]
    BY <1>3, <1>4
  <2> QED
    BY <1>3, <2>1, <2>2
<1>7. \A k, l \in 1 .. n : order[k] = order[l] => k = l
  <2> SUFFICES ASSUME NEW k \in 1 .. n, NEW l \in 1 .. n, order[k] = order[l], k # l PROVE FALSE
    OBVIOUS
  <2>1. k < l \/ l < k
    BY <1>3
  <2>2. order[k] < order[l] \/ order[l] < order[k]
    BY <1>3, <2>1
  <2>3. order[k] \in Nat /\ order[l] \in Nat
    BY <1>2, <1>3
  <2> QED
    BY <2>2, <2>3
<1> QED
  BY <1>3, <1>5, <1>6, <1>7 DEF q, order, n

\* Max of finitely many numbers.
LEMMA MaxFacts ==
    ASSUME NEW S, IsFiniteSet(S), S \subseteq Nat, S # {}
    PROVE  Max(S) \in S /\ \A x \in S : x <= Max(S)
<1> DEFINE q == Ascending(S)
<1> DEFINE n == Cardinality(S)
<1>1. /\ n \in Nat
      /\ \A i \in 1 .. n : q[i] \in S
      /\ \A i, j \in 1 .. n : i < j => q[i] < q[j]
      /\ \A x \in S : \E i \in 1 .. n : q[i] = x
  BY AscendingFacts
<1> HIDE DEF q, n
<1>2. n \in 1 .. n
  <2>1. PICK x \in S : TRUE
    OBVIOUS
  <2>2. PICK i \in 1 .. n : q[i] = x
    BY <1>1
  <2> QED
    BY <1>1, <2>2
<1>3. \A x \in S : q[n] >= x
  <2> SUFFICES ASSUME NEW x \in S PROVE q[n] >= x
    OBVIOUS
  <2>1. PICK i \in 1 .. n : q[i] = x
    BY <1>1
  <2>2. i = n \/ i < n
    BY <1>1
  <2>3. q[n] \in Nat /\ x \in Nat
    BY <1>1, <1>2
  <2> QED
    BY <1>1, <1>2, <2>1, <2>2, <2>3
<1>4. Max(S) \in S /\ \A x \in S : Max(S) >= x
  BY <1>1, <1>2, <1>3 DEF Max
<1>5. \A x \in S : x \in Nat
  OBVIOUS
<1> QED
  BY <1>4, <1>5

-----------------------------------------------------------------------------
(* The cache of the endpoint router.                                        *)

Location == {"idle", "slow", "query", "loading", "done", "failed"}

VersionType ==
    /\ history \in Seq(SUBSET (Endpoints \cup Foreign)) /\ Now \in Nat \ {0}
    /\ loadedFrom \in Nat /\ acked \in Nat
    /\ mu \in Requests \cup {NoOne}
    /\ pc \in [Requests -> Location]
    /\ read \in [Requests -> Nat]
    /\ matched \in [Requests -> Nat]
    /\ since \in [Requests -> Nat]
    /\ admin \in [Admins -> Nat]

Quiet == ~unheard /\ \A a \in Admins : admin[a] = 0

\* Nothing is acknowledged while a load is under way, because Invalidate waits
\* for the write lock: what the load has read is still as new as anything
\* acknowledged when it is stored.
CacheInv ==
    /\ acked <= Now
    /\ \A a \in Admins : admin[a] <= Now
    /\ loaded => loadedFrom >= acked
    /\ loaded /\ Quiet => loadedFrom = Now

RequestInv(r) ==
    /\ pc[r] \in {"query", "loading"} <=> mu = r
    /\ pc[r] \in {"slow", "query", "loading"} => since[r] <= acked
    /\ pc[r] = "loading" => read[r] >= acked
    /\ pc[r] = "loading" /\ Quiet => read[r] = Now
    /\ pc[r] = "done" => matched[r] >= since[r]

RouterInv ==
    /\ VersionType
    /\ CacheInv
    /\ \A r \in Requests : RequestInv(r)

\* The invariant holds at the start.
LEMMA InitRouter == Init => RouterInv
<1> SUFFICES ASSUME Init PROVE RouterInv
  OBVIOUS
<1>1. PICK t \in Tables : history = <<t>>
  BY DEF Init
<1>2. history \in Seq(SUBSET (Endpoints \cup Foreign)) /\ Now = 1
  BY <1>1 DEF Tables, Now
<1>3. VersionType
  BY <1>2 DEF Init, VersionType, Location
<1>4. CacheInv
  BY <1>2 DEF Init, CacheInv
<1>5. \A r \in Requests : RequestInv(r)
  BY <1>2, NoOneIsNoRequest DEF Init, RequestInv
<1> QED
  BY <1>3, <1>4, <1>5 DEF RouterInv

\* A change appends a content.
LEMMA Appended ==
    ASSUME VersionType, NEW e \in Endpoints, NEW t \in Changed(e),
           history' = Append(history, t)
    PROVE  history' \in Seq(SUBSET (Endpoints \cup Foreign)) /\ Now' = Now + 1
<1> DEFINE S == SUBSET (Endpoints \cup Foreign)
<1>1. history \in Seq(S) /\ Now = Len(history) /\ Now \in Nat \ {0}
  BY DEF VersionType, Now
<1>2. Rows \in S
  BY <1>1 DEF Rows
<1>3. t \in S
  BY <1>2 DEF Changed, Upserted, Deleted
<1> QED
  BY <1>1, <1>3 DEF Now

\* No step lets the contents of the endpoint table part from what was acknowledged.
LEMMA VersionStep ==
    ASSUME RouterInv, [Next]_vars
    PROVE VersionType'
<1> USE DEF cacheVars, requestVars, adminVars, VersionType, Location
<1>1. VersionType /\ CacheInv /\ (\A r \in Requests : RequestInv(r)) /\ NoOne \notin Requests
  BY NoOneIsNoRequest DEF RouterInv
<1>2. ASSUME NEW r \in Requests, MatchFast(r) PROVE VersionType'
  <2>1. Now' = Now
    BY <1>2 DEF MatchFast, Return, Now
  <2> QED
    BY <1>1, <1>2, <2>1 DEF MatchFast, Return
<1>3. ASSUME NEW r \in Requests, MatchSlow(r) PROVE VersionType'
  <2>1. Now' = Now
    BY <1>3 DEF MatchSlow, Now
  <2> QED
    BY <1>1, <1>3, <2>1 DEF MatchSlow
<1>4. ASSUME NEW r \in Requests, Recheck(r) PROVE VersionType'
  <2>1. Now' = Now
    BY <1>4 DEF Recheck, Return, Now
  <2> QED
    BY <1>1, <1>4, <2>1 DEF Recheck, Return
<1>5. ASSUME NEW r \in Requests, BeginLoad(r) PROVE VersionType'
  <2>1. Now' = Now
    BY <1>5 DEF BeginLoad, Now
  <2> QED
    BY <1>1, <1>5, <2>1 DEF BeginLoad
<1>6. ASSUME NEW r \in Requests, Query(r) PROVE VersionType'
  <2>1. Now' = Now
    BY <1>6 DEF Query, Now
  <2> QED
    BY <1>1, <1>6, <2>1 DEF Query
<1>7. ASSUME NEW r \in Requests, QueryFails(r) PROVE VersionType'
  <2>1. Now' = Now
    BY <1>7 DEF QueryFails, Now
  <2> QED
    BY <1>1, <1>7, <2>1 DEF QueryFails
<1>8. ASSUME NEW r \in Requests, EndLoad(r) PROVE VersionType'
  <2>1. Now' = Now
    BY <1>8 DEF EndLoad, Return, Now
  <2> QED
    BY <1>1, <1>8, <2>1 DEF EndLoad, Return
<1>9. ASSUME NEW r \in Requests, Again(r) PROVE VersionType'
  <2>1. Now' = Now
    BY <1>9 DEF Again, Now
  <2> QED
    BY <1>1, <1>9, <2>1 DEF Again
<1>10. ASSUME NEW a \in Admins, Change(a) PROVE VersionType'
  <2>1. history' \in Seq(SUBSET (Endpoints \cup Foreign)) /\ Now' = Now + 1
    BY <1>1, <1>10, Appended DEF Change
  <2> QED
    BY <1>1, <1>10, <2>1 DEF Change
<1>11. ASSUME NEW a \in Admins, Invalidate(a) PROVE VersionType'
  <2>1. Now' = Now
    BY <1>11 DEF Invalidate, Now
  <2> QED
    BY <1>1, <1>11, <2>1 DEF Invalidate
<1>12. CASE ChangeUnheard
  <2>1. history' \in Seq(SUBSET (Endpoints \cup Foreign)) /\ Now' = Now + 1
    BY <1>1, <1>12, Appended DEF ChangeUnheard
  <2> QED
    BY <1>1, <1>12, <2>1 DEF ChangeUnheard
<1>13. CASE UNCHANGED vars
  <2>1. Now' = Now
    BY <1>13 DEF vars, Now
  <2> QED
    BY <1>1, <1>13, <2>1 DEF vars
<1> QED
  BY <1>2, <1>3, <1>4, <1>5, <1>6, <1>7, <1>8, <1>9, <1>10, <1>11, <1>12, <1>13 DEF Next, MatchStep

\* No step leaves a cache that is neither current nor about to be dropped.
LEMMA CacheStep ==
    ASSUME RouterInv, [Next]_vars
    PROVE CacheInv'
<1> USE DEF cacheVars, requestVars, adminVars, VersionType, CacheInv, RequestInv, Quiet
<1>1. VersionType /\ CacheInv /\ (\A r \in Requests : RequestInv(r)) /\ NoOne \notin Requests
  BY NoOneIsNoRequest DEF RouterInv
<1>2. ASSUME NEW r \in Requests, MatchFast(r) PROVE CacheInv'
  <2>1. Now' = Now
    BY <1>2 DEF MatchFast, Return, Now
  <2> QED
    BY <1>1, <1>2, <2>1 DEF MatchFast, Return
<1>3. ASSUME NEW r \in Requests, MatchSlow(r) PROVE CacheInv'
  <2>1. Now' = Now
    BY <1>3 DEF MatchSlow, Now
  <2> QED
    BY <1>1, <1>3, <2>1 DEF MatchSlow
<1>4. ASSUME NEW r \in Requests, Recheck(r) PROVE CacheInv'
  <2>1. Now' = Now
    BY <1>4 DEF Recheck, Return, Now
  <2> QED
    BY <1>1, <1>4, <2>1 DEF Recheck, Return
<1>5. ASSUME NEW r \in Requests, BeginLoad(r) PROVE CacheInv'
  <2>1. Now' = Now
    BY <1>5 DEF BeginLoad, Now
  <2> QED
    BY <1>1, <1>5, <2>1 DEF BeginLoad
<1>6. ASSUME NEW r \in Requests, Query(r) PROVE CacheInv'
  <2>1. Now' = Now
    BY <1>6 DEF Query, Now
  <2> QED
    BY <1>1, <1>6, <2>1 DEF Query
<1>7. ASSUME NEW r \in Requests, QueryFails(r) PROVE CacheInv'
  <2>1. Now' = Now
    BY <1>7 DEF QueryFails, Now
  <2> QED
    BY <1>1, <1>7, <2>1 DEF QueryFails
<1>8. ASSUME NEW r \in Requests, EndLoad(r) PROVE CacheInv'
  <2>1. Now' = Now
    BY <1>8 DEF EndLoad, Return, Now
  <2> QED
    BY <1>1, <1>8, <2>1 DEF EndLoad, Return
<1>9. ASSUME NEW r \in Requests, Again(r) PROVE CacheInv'
  <2>1. Now' = Now
    BY <1>9 DEF Again, Now
  <2> QED
    BY <1>1, <1>9, <2>1 DEF Again
<1>10. ASSUME NEW a \in Admins, Change(a) PROVE CacheInv'
  <2>1. history' \in Seq(SUBSET (Endpoints \cup Foreign)) /\ Now' = Now + 1
    BY <1>1, <1>10, Appended DEF Change
  <2> QED
    BY <1>1, <1>10, <2>1 DEF Change
<1>11. ASSUME NEW a \in Admins, Invalidate(a) PROVE CacheInv'
  <2>1. Now' = Now
    BY <1>11 DEF Invalidate, Now
  <2> QED
    BY <1>1, <1>11, <2>1 DEF Invalidate
<1>12. CASE ChangeUnheard
  <2>1. history' \in Seq(SUBSET (Endpoints \cup Foreign)) /\ Now' = Now + 1
    BY <1>1, <1>12, Appended DEF ChangeUnheard
  <2> QED
    BY <1>1, <1>12, <2>1 DEF ChangeUnheard
<1>13. CASE UNCHANGED vars
  <2>1. Now' = Now
    BY <1>13 DEF vars, Now
  <2> QED
    BY <1>1, <1>13, <2>1 DEF vars
<1> QED
  BY <1>2, <1>3, <1>4, <1>5, <1>6, <1>7, <1>8, <1>9, <1>10, <1>11, <1>12, <1>13 DEF Next, MatchStep

\* No step gives a request a table older than the one it must see.
LEMMA RequestStep ==
    ASSUME RouterInv, [Next]_vars
    PROVE \A s \in Requests : RequestInv(s)'
<1> USE DEF cacheVars, requestVars, adminVars, VersionType, CacheInv, RequestInv, Quiet
<1>1. VersionType /\ CacheInv /\ (\A r \in Requests : RequestInv(r)) /\ NoOne \notin Requests
  BY NoOneIsNoRequest DEF RouterInv
<1>2. ASSUME NEW r \in Requests, MatchFast(r) PROVE \A s \in Requests : RequestInv(s)'
  <2>1. Now' = Now
    BY <1>2 DEF MatchFast, Return, Now
  <2> QED
    BY <1>1, <1>2, <2>1 DEF MatchFast, Return
<1>3. ASSUME NEW r \in Requests, MatchSlow(r) PROVE \A s \in Requests : RequestInv(s)'
  <2>1. Now' = Now
    BY <1>3 DEF MatchSlow, Now
  <2> QED
    BY <1>1, <1>3, <2>1 DEF MatchSlow
<1>4. ASSUME NEW r \in Requests, Recheck(r) PROVE \A s \in Requests : RequestInv(s)'
  <2>1. Now' = Now
    BY <1>4 DEF Recheck, Return, Now
  <2> QED
    BY <1>1, <1>4, <2>1 DEF Recheck, Return
<1>5. ASSUME NEW r \in Requests, BeginLoad(r) PROVE \A s \in Requests : RequestInv(s)'
  <2>1. Now' = Now
    BY <1>5 DEF BeginLoad, Now
  <2> QED
    BY <1>1, <1>5, <2>1 DEF BeginLoad
<1>6. ASSUME NEW r \in Requests, Query(r) PROVE \A s \in Requests : RequestInv(s)'
  <2>1. Now' = Now
    BY <1>6 DEF Query, Now
  <2> QED
    BY <1>1, <1>6, <2>1 DEF Query
<1>7. ASSUME NEW r \in Requests, QueryFails(r) PROVE \A s \in Requests : RequestInv(s)'
  <2>1. Now' = Now
    BY <1>7 DEF QueryFails, Now
  <2> QED
    BY <1>1, <1>7, <2>1 DEF QueryFails
<1>8. ASSUME NEW r \in Requests, EndLoad(r) PROVE \A s \in Requests : RequestInv(s)'
  <2>1. Now' = Now
    BY <1>8 DEF EndLoad, Return, Now
  <2> QED
    BY <1>1, <1>8, <2>1 DEF EndLoad, Return
<1>9. ASSUME NEW r \in Requests, Again(r) PROVE \A s \in Requests : RequestInv(s)'
  <2>1. Now' = Now
    BY <1>9 DEF Again, Now
  <2> QED
    BY <1>1, <1>9, <2>1 DEF Again
<1>10. ASSUME NEW a \in Admins, Change(a) PROVE \A s \in Requests : RequestInv(s)'
  <2>1. history' \in Seq(SUBSET (Endpoints \cup Foreign)) /\ Now' = Now + 1
    BY <1>1, <1>10, Appended DEF Change
  <2> QED
    BY <1>1, <1>10, <2>1 DEF Change
<1>11. ASSUME NEW a \in Admins, Invalidate(a) PROVE \A s \in Requests : RequestInv(s)'
  <2>1. Now' = Now
    BY <1>11 DEF Invalidate, Now
  <2> QED
    BY <1>1, <1>11, <2>1 DEF Invalidate
<1>12. CASE ChangeUnheard
  <2>1. history' \in Seq(SUBSET (Endpoints \cup Foreign)) /\ Now' = Now + 1
    BY <1>1, <1>12, Appended DEF ChangeUnheard
  <2> QED
    BY <1>1, <1>12, <2>1 DEF ChangeUnheard
<1>13. CASE UNCHANGED vars
  <2>1. Now' = Now
    BY <1>13 DEF vars, Now
  <2> QED
    BY <1>1, <1>13, <2>1 DEF vars
<1> QED
  BY <1>2, <1>3, <1>4, <1>5, <1>6, <1>7, <1>8, <1>9, <1>10, <1>11, <1>12, <1>13 DEF Next, MatchStep

\* The inductive invariant.
THEOREM RouterInvHolds == Spec => []RouterInv
<1>1. RouterInv /\ [Next]_vars => RouterInv'
  BY VersionStep, CacheStep, RequestStep DEF RouterInv
<1> QED
  BY InitRouter, <1>1, PTL DEF Spec

\* No request is matched against endpoints older than the latest change its
\* administrator had been told of when the request came.
THEOREM AckedIsSeenHolds == Spec => []AckedIsSeen
<1>1. RouterInv => AckedIsSeen
  BY DEF RouterInv, RequestInv, AckedIsSeen
<1> QED
  BY <1>1, RouterInvHolds, PTL

\* The cache holds the endpoints as they are when no handler is under way and no
\* change went unheard.
THEOREM CacheIsCurrentHolds == Spec => []CacheIsCurrent
<1>1. RouterInv => CacheIsCurrent
  BY DEF RouterInv, CacheInv, Quiet, CacheIsCurrent
<1> QED
  BY <1>1, RouterInvHolds, PTL
-----------------------------------------------------------------------------
(* The order of the entries, and the first that serves a path.              *)

\* The codes of a string.
LEMMA CodeType ==
    ASSUME NEW p \in Seq(Nat)
    PROVE  \A i \in 1 .. Len(p) : p[i] \in Nat
  OBVIOUS

\* A prefix, code by code.
LEMMA PrefixFacts ==
    ASSUME NEW p \in Seq(Nat), NEW q \in Seq(Nat)
    PROVE  /\ IsPrefix(p, q) <=> Len(p) <= Len(q) /\ \A i \in 1 .. Len(p) : p[i] = q[i]
           /\ IsStrictPrefix(p, q) <=> Len(p) < Len(q) /\ \A i \in 1 .. Len(p) : p[i] = q[i]
<1>1. ASSUME Len(p) <= Len(q)
      PROVE  SubSeq(p, 1, Len(p)) = SubSeq(q, 1, Len(p)) <=> \A i \in 1 .. Len(p) : p[i] = q[i]
  <2>1. /\ SubSeq(p, 1, Len(p)) = [i \in 1 .. Len(p) |-> p[i]]
        /\ SubSeq(q, 1, Len(p)) = [i \in 1 .. Len(p) |-> q[i]]
    BY <1>1
  <2> QED
    BY <2>1
<1>2. IsPrefix(p, q) <=> Len(p) <= Len(q) /\ \A i \in 1 .. Len(p) : p[i] = q[i]
  BY <1>1 DEF IsPrefix
<1>3. ASSUME Len(p) = Len(q), \A i \in 1 .. Len(p) : p[i] = q[i] PROVE p = q
  <2>1. p = [i \in 1 .. Len(p) |-> p[i]] /\ q = [i \in 1 .. Len(q) |-> q[i]]
    OBVIOUS
  <2>2. [i \in 1 .. Len(p) |-> p[i]] = [i \in 1 .. Len(q) |-> q[i]]
    BY <1>3
  <2> QED
    BY <2>1, <2>2
<1> QED
  BY <1>2, <1>3 DEF IsStrictPrefix

\* Two strings that differ do so at a first place, or one is a prefix of the other.
LEMMA PathLessTotal ==
    ASSUME NEW p \in Seq(Nat), NEW q \in Seq(Nat), p # q
    PROVE  PathLess(p, q) \/ PathLess(q, p)
<1> DEFINE D == {i \in Nat : i \in 1 .. Len(p) /\ i \in 1 .. Len(q) /\ p[i] # q[i]}
<1>1. CASE D = {}
  <2>1. \A i \in 1 .. Len(p) : i \in 1 .. Len(q) => p[i] = q[i]
    BY <1>1
  <2>2. CASE Len(p) < Len(q)
    <3>1. \A i \in 1 .. Len(p) : p[i] = q[i]
      BY <2>1, <2>2
    <3> QED
      BY <2>2, <3>1, PrefixFacts DEF PathLess
  <2>3. CASE Len(q) < Len(p)
    <3>1. \A i \in 1 .. Len(q) : q[i] = p[i]
      BY <2>1, <2>3
    <3> QED
      BY <2>3, <3>1, PrefixFacts DEF PathLess
  <2>4. CASE Len(p) = Len(q)
    <3>1. \A i \in 1 .. Len(p) : p[i] = q[i]
      BY <2>1, <2>4
    <3>2. p = q
      BY <2>4, <3>1
    <3> QED
      BY <3>2
  <2> QED
    BY <2>2, <2>3, <2>4
<1>2. CASE D # {}
  <2>1. PICK i \in D : \A n \in D : i <= n
    BY <1>2, Least
  <2>2. i \in DOMAIN p \cap DOMAIN q /\ p[i] # q[i] /\ p[i] \in Nat /\ q[i] \in Nat
    BY <2>1
  <2>3. \A j \in 1 .. i - 1 : p[j] = q[j]
    BY <2>1, <2>2
  <2>4. p[i] < q[i] \/ q[i] < p[i]
    BY <2>2
  <2>5. p[i] < q[i] => PathLess(p, q)
    BY <2>2, <2>3 DEF PathLess
  <2>6. q[i] < p[i] => PathLess(q, p)
    BY <2>2, <2>3 DEF PathLess
  <2> QED
    BY <2>4, <2>5, <2>6
<1> QED
  BY <1>1, <1>2

\* Where one string comes before another.
Splits(p, q, i) ==
    /\ i \in 1 .. Len(p) + 1 /\ i \in 1 .. Len(q)
    /\ i \in 1 .. Len(p) => p[i] < q[i]
    /\ \A j \in 1 .. i - 1 : p[j] = q[j]

\* And that is all that the order of strings says.
LEMMA PathLessSplits ==
    ASSUME NEW p \in Seq(Nat), NEW q \in Seq(Nat)
    PROVE  PathLess(p, q) <=> \E i \in Nat : Splits(p, q, i)
<1>1. ASSUME IsStrictPrefix(p, q) PROVE \E i \in Nat : Splits(p, q, i)
  <2>1. Len(p) < Len(q) /\ \A i \in 1 .. Len(p) : p[i] = q[i]
    BY <1>1, PrefixFacts
  <2>2. Splits(p, q, Len(p) + 1)
    BY <2>1 DEF Splits
  <2> QED
    BY <2>2
<1>2. ASSUME NEW i \in DOMAIN p \cap DOMAIN q, p[i] < q[i], \A j \in 1 .. i - 1 : p[j] = q[j]
      PROVE  \E k \in Nat : Splits(p, q, k)
  <2>1. Splits(p, q, i)
    BY <1>2 DEF Splits
  <2> QED
    BY <2>1
<1>3. ASSUME NEW i \in Nat, Splits(p, q, i) PROVE PathLess(p, q)
  <2>1. CASE i \in 1 .. Len(p)
    BY <1>3, <2>1 DEF Splits, PathLess
  <2>2. CASE i = Len(p) + 1
    <3>1. Len(p) < Len(q) /\ \A j \in 1 .. Len(p) : p[j] = q[j]
      BY <1>3, <2>2 DEF Splits
    <3> QED
      BY <3>1, PrefixFacts DEF PathLess
  <2> QED
    BY <1>3, <2>1, <2>2 DEF Splits
<1> QED
  BY <1>1, <1>2, <1>3 DEF PathLess

\* The order of strings is strict.
LEMMA PathLessFacts ==
    ASSUME NEW p \in Seq(Nat), NEW q \in Seq(Nat), NEW s \in Seq(Nat)
    PROVE  /\ ~PathLess(p, p)
           /\ PathLess(p, q) /\ PathLess(q, s) => PathLess(p, s)
<1>1. ~PathLess(p, p)
  <2>1. \A i \in Nat : ~Splits(p, p, i)
    BY DEF Splits
  <2> QED
    BY <2>1, PathLessSplits
<1>2. ASSUME NEW i \in Nat, Splits(p, q, i), NEW j \in Nat, Splits(q, s, j)
      PROVE  \E k \in Nat : Splits(p, s, k)
  <2> USE DEF Splits
  <2>1. CASE i <= j
    <3>1. Splits(p, s, i)
      <4>1. i \in 1 .. Len(s)
        BY <1>2, <2>1
      <4>2. \A k \in 1 .. i - 1 : p[k] = s[k]
        BY <1>2, <2>1
      <4>3. i \in 1 .. Len(p) => p[i] < s[i]
        <5> SUFFICES ASSUME i \in 1 .. Len(p) PROVE p[i] < s[i]
          OBVIOUS
        <5> HIDE DEF Splits
        <5>0. i \in 1 .. Len(p) /\ i \in 1 .. Len(q) /\ i \in 1 .. Len(s) /\ p[i] < q[i]
          BY <1>2, <4>1 DEF Splits
        <5>1. p[i] \in Nat /\ q[i] \in Nat /\ s[i] \in Nat /\ p[i] < q[i]
          BY <5>0, CodeType
        <5>2. q[i] <= s[i]
          <6>1. CASE i < j
            BY <1>2, <5>1, <6>1 DEF Splits
          <6>2. CASE i = j
            BY <1>2, <5>0, <5>1, <6>2 DEF Splits
          <6> QED
            BY <2>1, <6>1, <6>2
        <5> QED
          BY <5>1, <5>2
      <4> QED
        BY <1>2, <4>1, <4>2, <4>3
    <3> QED
      BY <3>1
  <2>2. CASE j < i
    <3>1. Splits(p, s, j)
      <4>1. j \in 1 .. Len(p) /\ p[j] = q[j] /\ j \in 1 .. Len(s)
        BY <1>2, <2>2
      <4>2. q[j] < s[j]
        BY <1>2, <2>2
      <4>3. \A k \in 1 .. j - 1 : p[k] = s[k]
        BY <1>2, <2>2
      <4> QED
        BY <4>1, <4>2, <4>3
    <3> QED
      BY <3>1
  <2> QED
    BY <2>1, <2>2
<1> QED
  BY <1>1, <1>2, PathLessSplits

\* What a database may hold: entries whose paths tell them apart.
IsEntries(es) ==
    /\ IsFiniteSet(es) /\ \A e \in es : e.path \in Seq(Nat)
    /\ \A d, e \in es : d.path = e.path => d = e

\* A length is a number.
LEMMA LiteralLenType ==
    ASSUME NEW p \in Seq(Nat)
    PROVE  LiteralLen(p) \in Nat
<1> DEFINE L == {i \in DOMAIN p : p[i] # Token}
<1>1. IsFiniteSet(1 .. Len(p))
  BY FS_Interval
<1>2. L \in SUBSET (1 .. Len(p))
  OBVIOUS
<1>3. Cardinality(L) \in Nat
  <2> HIDE DEF L
  <2> QED
    BY <1>1, <1>2, FS_Subset, FS_CardinalityType
<1> QED
  BY <1>3 DEF LiteralLen

\* The order of entries is total.
LEMMA BeforeFacts ==
    ASSUME NEW es, IsEntries(es)
    PROVE  /\ \A a \in es : ~Before(a, a)
           /\ \A a, b \in es : Before(a, b) \/ Before(b, a) \/ a = b
           /\ \A a, b, c \in es : Before(a, b) /\ Before(b, c) => Before(a, c)
<1>1. \A a \in es : a.path \in Seq(Nat) /\ LiteralLen(a.path) \in Nat
  BY LiteralLenType DEF IsEntries
<1>2. \A a, b \in es : a # b => PathLess(a.path, b.path) \/ PathLess(b.path, a.path)
  BY PathLessTotal DEF IsEntries
<1>3. \A a \in es : ~PathLess(a.path, a.path)
  BY <1>1, PathLessFacts
<1>4. \A a, b, c \in es : PathLess(a.path, b.path) /\ PathLess(b.path, c.path) => PathLess(a.path, c.path)
  BY <1>1, PathLessFacts
<1> QED
  BY <1>1, <1>2, <1>3, <1>4 DEF Before

\* The entries in their order: each once, none before one that it is not.
LEMMA SortedFacts ==
    ASSUME NEW rows, IsEntries(Compiled(rows))
    PROVE  LET q == SortedEntries(rows)  n == Cardinality(Compiled(rows)) IN
           /\ n \in Nat /\ DOMAIN q = 1 .. n
           /\ \A i \in 1 .. n : q[i] \in Compiled(rows)
           /\ \A i, j \in 1 .. n : i < j => Before(q[i], q[j])
           /\ \A e \in Compiled(rows) : \E i \in 1 .. n : q[i] = e
<1> DEFINE es == Compiled(rows)
<1> DEFINE R == {de \in es \X es : Before(de[1], de[2])}
<1>1. SortedEntries(rows) = InOrder(es, R)
  BY DEF SortedEntries
<1> HIDE DEF es
<1>2. IsFiniteSet(es) /\ IsEntries(es)
  BY DEF es, IsEntries
<1>3. \A a, b \in es : <<a, b>> \in R <=> Before(a, b)
  OBVIOUS
<1> HIDE DEF R
<1>4. IsOrderOf(R, es)
  BY <1>2, <1>3, BeforeFacts DEF IsOrderOf
<1>5. /\ Cardinality(es) \in Nat /\ DOMAIN InOrder(es, R) = 1 .. Cardinality(es)
      /\ \A i \in 1 .. Cardinality(es) : InOrder(es, R)[i] \in es
      /\ \A i, j \in 1 .. Cardinality(es) : i < j => <<InOrder(es, R)[i], InOrder(es, R)[j]>> \in R
      /\ \A e \in es : \E i \in 1 .. Cardinality(es) : InOrder(es, R)[i] = e
  BY <1>2, <1>4, InOrderFacts
<1>6. \A i, j \in 1 .. Cardinality(es) : i < j => Before(InOrder(es, R)[i], InOrder(es, R)[j])
  BY <1>3, <1>5
<1> QED
  BY <1>1, <1>5, <1>6 DEF es

\* What MostSpecific says of one answer.
Specific(rows, s, found) ==
    LET serving == {e \in Compiled(rows) : Serves(e, s)}
    IN /\ serving = {} <=> found = {}
       /\ \A e \in found :
            /\ e \in serving
            /\ \A d \in serving \ {e} :
                \/ LiteralLen(e.path) > LiteralLen(d.path)
                \/ LiteralLen(e.path) = LiteralLen(d.path) /\ PathLess(e.path, d.path)

\* The first entry that serves a path comes before all others that do.
LEMMA FirstMatchFacts ==
    ASSUME NEW rows, IsEntries(Compiled(rows)), NEW s
    PROVE  Specific(rows, s, FirstMatch(SortedEntries(rows), s))
<1> DEFINE es == Compiled(rows)
<1> DEFINE n == Cardinality(es)
<1> DEFINE q == SortedEntries(rows)
<1> DEFINE hits == {i \in DOMAIN q : Serves(q[i], s)}
<1> DEFINE serving == {e \in es : Serves(e, s)}
<1> HIDE DEF es, q
<1>1. /\ n \in Nat /\ DOMAIN q = 1 .. n
      /\ \A i \in 1 .. n : q[i] \in es
      /\ \A i, j \in 1 .. n : i < j => Before(q[i], q[j])
      /\ \A e \in es : \E i \in 1 .. n : q[i] = e
  BY SortedFacts DEF es, q
<1> HIDE DEF n
<1>2. FirstMatch(q, s) = IF hits = {} THEN {} ELSE {q[CHOOSE i \in hits : \A j \in hits : i <= j]}
  BY DEF FirstMatch
<1>3. hits \subseteq Nat /\ \A i \in hits : i \in 1 .. n
  BY <1>1
<1>4. CASE hits = {}
  <2>1. serving = {}
    BY <1>1, <1>4
  <2> QED
    BY <2>1, <1>2, <1>4 DEF Specific, es, q
<1>5. CASE hits # {}
  <2> DEFINE k == CHOOSE i \in hits : \A j \in hits : i <= j
  <2> HIDE DEF hits
  <2>1. \E i \in hits : \A j \in hits : i <= j
    BY <1>3, <1>5, Least
  <2>2. k \in hits /\ \A j \in hits : k <= j
    BY <2>1
  <2> HIDE DEF k
  <2>3. FirstMatch(q, s) = {q[k]}
    BY <1>2, <1>5 DEF k
  <2>4. q[k] \in serving
    BY <2>2, <1>1 DEF hits
  <2>5. \A d \in serving : d # q[k] => Before(q[k], d)
    <3> SUFFICES ASSUME NEW d \in serving, d # q[k] PROVE Before(q[k], d)
      OBVIOUS
    <3>1. PICK j \in 1 .. n : q[j] = d
      BY <1>1
    <3>2. j \in hits /\ j # k
      BY <1>1, <3>1 DEF hits
    <3>3. k < j
      BY <2>2, <3>2, <1>3
    <3> QED
      BY <1>1, <1>3, <2>2, <3>1, <3>3
  <2> QED
    BY <2>3, <2>4, <2>5 DEF Specific, Before, es, q
<1> QED
  BY <1>4, <1>5

-----------------------------------------------------------------------------
(* What the cache holds and what a request was answered from.               *)

\* The answer rests on the content it is said to come from.
FromContent(r) ==
    matched[r] \in 1 .. Now /\ answer[r] = FirstMatch(SortedEntries(history[matched[r]]), path[r])

CacheHolds == loadedFrom \in 1 .. Now /\ entries = SortedEntries(history[loadedFrom])

\* Every request has a path and an answer.
Paired == path = [r \in Requests |-> path[r]] /\ answer = [r \in Requests |-> answer[r]]

MatchInv ==
    /\ Paired
    /\ \A i \in 1 .. Now : history[i] \in Tables
    /\ loaded => CacheHolds
    /\ \A r \in Requests : pc[r] = "loading" => read[r] \in 1 .. Now
    /\ \A r \in Requests : pc[r] = "done" => FromContent(r)

\* Contents stay in their places, and a new one is a table again.
HistoryGrows ==
    /\ Now' \in Nat /\ Now <= Now' /\ \A i \in 1 .. Now : history'[i] = history[i]
    /\ \A i \in 1 .. Now' : history'[i] \in Tables

\* No handler rewrites what has been.
LEMMA HistoryStep ==
    ASSUME VersionType, MatchInv, [Next]_vars
    PROVE  HistoryGrows
<1>1. /\ history \in Seq(SUBSET (Endpoints \cup Foreign)) /\ Now = Len(history) /\ Now \in Nat \ {0}
      /\ \A i \in 1 .. Now : history[i] \in Tables
  BY DEF VersionType, Now, MatchInv
<1>2. ASSUME history' = history PROVE HistoryGrows
  <2>1. Now' = Now
    BY <1>2 DEF Now
  <2> QED
    BY <1>1, <1>2, <2>1 DEF HistoryGrows
<1>3. ASSUME NEW e \in Endpoints, NEW t \in Changed(e), history' = Append(history, t) PROVE HistoryGrows
  <2>1. Rows \in Tables
    BY <1>1 DEF Rows
  <2>2. Deleted(e) \in Tables
    <3>1. Deleted(e) \in SUBSET Rows
      BY DEF Deleted
    <3>2. IsFiniteSet(Rows)
      BY <2>1 DEF Tables
    <3>3. IsFiniteSet(Deleted(e))
      BY <3>1, <3>2, FS_Subset
    <3> QED
      BY <2>1, <3>1, <3>3 DEF Tables
  <2>3. Upserted(e) \in Tables
    <3>1. Upserted(e) = Deleted(e) \cup {e}
      BY DEF Upserted, Deleted
    <3>2. IsFiniteSet(Deleted(e) \cup {e})
      BY <2>2, FS_AddElement DEF Tables
    <3>3. \A d \in Deleted(e) : d.path # e.path
      BY DEF Deleted
    <3>4. \A c, d \in Deleted(e) \cup {e} : c.path = d.path => c = d
      BY <2>2, <3>3 DEF Tables
    <3>5. Deleted(e) \cup {e} \in SUBSET (Endpoints \cup Foreign)
      BY <2>2 DEF Tables
    <3> QED
      BY <3>1, <3>2, <3>4, <3>5 DEF Tables
  <2>4. t \in Tables
    BY <2>2, <2>3 DEF Changed
  <2>5. t \in SUBSET (Endpoints \cup Foreign)
    BY <2>4 DEF Tables
  <2>6. /\ Len(history') = Len(history) + 1 /\ history'[Len(history) + 1] = t
        /\ \A i \in 1 .. Len(history) : history'[i] = history[i]
    BY <1>1, <1>3, <2>5
  <2>7. Now' = Now + 1
    BY <2>6 DEF Now
  <2> QED
    BY <1>1, <2>4, <2>6, <2>7 DEF HistoryGrows
<1> USE DEF cacheVars, requestVars, adminVars
<1>4. ASSUME NEW r \in Requests, MatchStep(r) \/ Again(r) PROVE history' = history
  BY <1>4 DEF MatchStep, MatchFast, MatchSlow, Recheck, BeginLoad, Query, QueryFails, EndLoad, Again, Return
<1>5. ASSUME NEW a \in Admins, Change(a) \/ Invalidate(a) PROVE HistoryGrows
  BY <1>2, <1>3, <1>5 DEF Change, Invalidate
<1>6. CASE ChangeUnheard
  BY <1>3, <1>6 DEF ChangeUnheard
<1>7. CASE UNCHANGED vars
  BY <1>2, <1>7 DEF vars
<1> QED
  BY <1>2, <1>4, <1>5, <1>6, <1>7 DEF Next

\* What was answered, cached or read stays so in the grown history.
LEMMA StaysHeld ==
    ASSUME VersionType, HistoryGrows, NEW i \in 1 .. Now
    PROVE  i \in 1 .. Now' /\ SortedEntries(history[i]) = SortedEntries(history'[i])
  BY DEF HistoryGrows, VersionType

\* What a load or an invalidation does not touch.
SameCache == entries' = entries /\ loaded' = loaded /\ loadedFrom' = loadedFrom

\* The cache is filled from a content, emptied, or left alone.
LEMMA CacheHoldsStep ==
    ASSUME VersionType, MatchInv, HistoryGrows, [Next]_vars
    PROVE  (loaded => CacheHolds)'
<1> USE DEF cacheVars, requestVars, adminVars
<1>1. loaded => CacheHolds
  BY DEF MatchInv
<1>2. CASE SameCache
  BY <1>1, <1>2, StaysHeld DEF CacheHolds, SameCache
<1>3. CASE ~loaded'
  BY <1>3
<1>4. ASSUME NEW r \in Requests, EndLoad(r) PROVE CacheHolds'
  <2>1. read[r] \in 1 .. Now
    BY <1>4 DEF EndLoad, MatchInv
  <2>2. entries' = SortedEntries(history[read[r]]) /\ loadedFrom' = read[r]
    BY <1>4 DEF EndLoad
  <2> QED
    BY <2>1, <2>2, StaysHeld DEF CacheHolds
<1>5. ASSUME NEW r \in Requests, MatchStep(r) \/ Again(r)
      PROVE  EndLoad(r) \/ SameCache
  BY <1>5 DEF MatchStep, MatchFast, MatchSlow, Recheck, BeginLoad, Query, QueryFails, Again, SameCache
<1>6. ASSUME NEW a \in Admins, Change(a) \/ Invalidate(a)
      PROVE  ~loaded' \/ SameCache
  BY <1>6 DEF Change, Invalidate, SameCache
<1>7. ChangeUnheard \/ UNCHANGED vars => SameCache
  BY DEF ChangeUnheard, vars, SameCache
<1> QED
  BY <1>2, <1>3, <1>4, <1>5, <1>6, <1>7 DEF Next

\* What a step may do to a request.
Rests(s) ==
    /\ pc'[s] = pc[s] /\ read'[s] = read[s] /\ matched'[s] = matched[s]
    /\ answer'[s] = answer[s] /\ path'[s] = path[s]
Answering(s) ==
    /\ pc'[s] = "done" /\ path'[s] = path[s]
    /\ \/ loaded /\ matched'[s] = loadedFrom /\ answer'[s] = FirstMatch(entries, path[s])
       \/ /\ pc[s] = "loading" /\ matched'[s] = read[s]
          /\ answer'[s] = FirstMatch(SortedEntries(history[read[s]]), path[s])
Elsewhere(s) ==
    pc'[s] \notin {"loading", "done"} \/ (pc'[s] = "loading" /\ read'[s] = Now)

\* Every step is one of these for every request.
LEMMA RequestForms ==
    ASSUME VersionType, Paired, [Next]_vars, NEW s \in Requests
    PROVE  Rests(s) \/ Answering(s) \/ Elsewhere(s)
<1> USE DEF cacheVars, requestVars, adminVars, VersionType, Location, Paired
<1>1. ASSUME NEW r \in Requests, MatchFast(r) \/ Recheck(r) PROVE Rests(s) \/ Answering(s)
  <2>1. CASE r = s
    BY <1>1, <2>1 DEF MatchFast, Recheck, Return, Answering
  <2>2. CASE r # s
    BY <1>1, <2>2 DEF MatchFast, Recheck, Return, Rests
  <2> QED
    BY <2>1, <2>2
<1>2. ASSUME NEW r \in Requests, EndLoad(r) PROVE Rests(s) \/ Answering(s)
  <2>1. CASE r = s
    BY <1>2, <2>1 DEF EndLoad, Return, Answering
  <2>2. CASE r # s
    BY <1>2, <2>2 DEF EndLoad, Return, Rests
  <2> QED
    BY <2>1, <2>2
<1>3. ASSUME NEW r \in Requests, MatchSlow(r) \/ BeginLoad(r) \/ Query(r) \/ QueryFails(r) \/ Again(r)
      PROVE  Rests(s) \/ Elsewhere(s)
  <2>1. CASE r = s
    BY <1>3, <2>1 DEF MatchSlow, BeginLoad, Query, QueryFails, Again, Elsewhere
  <2>2. CASE r # s
    BY <1>3, <2>2 DEF MatchSlow, BeginLoad, Query, QueryFails, Again, Rests
  <2> QED
    BY <2>1, <2>2
<1>4. ASSUME NEW a \in Admins, Change(a) \/ Invalidate(a) PROVE Rests(s)
  BY <1>4 DEF Change, Invalidate, Rests
<1>5. ChangeUnheard \/ UNCHANGED vars => Rests(s)
  BY DEF ChangeUnheard, vars, Rests
<1> QED
  BY <1>1, <1>2, <1>3, <1>4, <1>5 DEF Next, MatchStep

\* Paths and answers stay functions of requests.
LEMMA PairedStep ==
    ASSUME Paired, [Next]_vars
    PROVE  Paired'
<1> USE DEF cacheVars, requestVars, adminVars, Paired
<1>1. ASSUME NEW r \in Requests, MatchStep(r) \/ Again(r) PROVE Paired'
  BY <1>1 DEF MatchStep, MatchFast, MatchSlow, Recheck, BeginLoad, Query, QueryFails, EndLoad, Return, Again
<1>2. ASSUME NEW a \in Admins, Change(a) \/ Invalidate(a) PROVE Paired'
  BY <1>2 DEF Change, Invalidate
<1>3. ChangeUnheard \/ UNCHANGED vars => Paired'
  BY DEF ChangeUnheard, vars
<1> QED
  BY <1>1, <1>2, <1>3 DEF Next

\* Every step keeps what answers rest on.
LEMMA MatchStepKeeps ==
    ASSUME VersionType, MatchInv, [Next]_vars
    PROVE  MatchInv'
<1>1. HistoryGrows
  BY HistoryStep
<1>2. (loaded => CacheHolds)'
  BY <1>1, CacheHoldsStep
<1>3. ASSUME NEW s \in Requests
      PROVE  /\ pc'[s] = "loading" => read'[s] \in 1 .. Now'
             /\ pc'[s] = "done" => FromContent(s)'
  <2>0. Now \in Nat \ {0} /\ Now' \in Nat /\ Now <= Now'
    BY <1>1 DEF VersionType, HistoryGrows
  <2>1. CASE Rests(s)
    <3>1. pc[s] = "loading" => read[s] \in 1 .. Now
      BY DEF MatchInv
    <3>2. pc[s] = "done" => FromContent(s)
      BY DEF MatchInv
    <3>3. pc[s] = "done" => FromContent(s)'
      BY <1>1, <2>1, <3>2, StaysHeld DEF FromContent, Rests
    <3> QED
      BY <2>0, <2>1, <3>1, <3>3 DEF Rests
  <2>2. CASE Answering(s)
    <3>1. CASE loaded /\ matched'[s] = loadedFrom /\ answer'[s] = FirstMatch(entries, path[s])
      <4>1. CacheHolds
        BY <3>1 DEF MatchInv
      <4> QED
        BY <1>1, <2>2, <3>1, <4>1, StaysHeld DEF Answering, CacheHolds, FromContent
    <3>2. CASE pc[s] = "loading" /\ matched'[s] = read[s]
               /\ answer'[s] = FirstMatch(SortedEntries(history[read[s]]), path[s])
      <4>1. read[s] \in 1 .. Now
        BY <3>2 DEF MatchInv
      <4> QED
        BY <1>1, <2>2, <3>2, <4>1, StaysHeld DEF Answering, FromContent
    <3> QED
      BY <2>2, <3>1, <3>2 DEF Answering
  <2>3. CASE Elsewhere(s)
    BY <2>0, <2>3 DEF Elsewhere
  <2> QED
    BY <2>1, <2>2, <2>3, RequestForms DEF MatchInv
<1>4. Paired'
  BY PairedStep DEF MatchInv
<1> QED
  BY <1>1, <1>2, <1>3, <1>4 DEF MatchInv, HistoryGrows

\* The endpoint a request gets is the most specific one of the content it was
\* matched against, whichever of the cache's ways it took, for any endpoints
\* and paths.
THEOREM MostSpecificHolds == Spec => []MostSpecific
<1>1. Init => MatchInv
  <2> SUFFICES ASSUME Init PROVE MatchInv
    OBVIOUS
  <2>1. PICK t \in Tables : history = <<t>>
    BY DEF Init
  <2>2. Now = 1 /\ history[1] = t
    BY <2>1 DEF Now
  <2> QED
    BY <2>2 DEF Init, MatchInv, Paired
<1>2. RouterInv /\ MatchInv /\ [Next]_vars => MatchInv'
  BY MatchStepKeeps DEF RouterInv
<1>3. RouterInv /\ MatchInv => MostSpecific
  <2> SUFFICES ASSUME RouterInv, MatchInv, NEW r \in Requests, pc[r] = "done"
               PROVE  Specific(history[matched[r]], path[r], answer[r])
    BY DEF MostSpecific, Specific
  <2> DEFINE t == history[matched[r]]
  <2>1. t \in Tables /\ answer[r] = FirstMatch(SortedEntries(t), path[r])
    BY DEF MatchInv, FromContent
  <2>2. Compiled(t) \in SUBSET t
    BY DEF Compiled
  <2>3. IsFiniteSet(Compiled(t))
    BY <2>1, <2>2, FS_Subset DEF Tables
  <2>4. IsEntries(Compiled(t))
    BY <2>1, <2>2, <2>3, PathsAreStrings DEF IsEntries, Tables
  <2> HIDE DEF t
  <2>5. Specific(t, path[r], FirstMatch(SortedEntries(t), path[r]))
    BY <2>4, FirstMatchFacts
  <2> QED
    BY <2>1, <2>5 DEF t
<1> QED
  BY <1>1, <1>2, <1>3, RouterInvHolds, PTL DEF Spec

-----------------------------------------------------------------------------
(* The refresh of a list of models.                                         *)

\* What upstream calls an entry's model follows from the pair of names.
LEMMA PairFacts ==
    ASSUME NEW d, NEW e, Pair(d) = Pair(e)
    PROVE  Actual(d) = Actual(e) /\ d.model = e.model
BY DEF Pair, Actual

\* An entry without the blanks around its name.
LEMMA TrimFacts ==
    /\ \A e \in Entries : /\ Trim(e) \in Entries
                          /\ Trim(e).model = TrimSpace(e.model)
                          /\ Actual(Trim(e)) \in {Actual(e), TrimSpace(Actual(e))}
    /\ \A d, e \in Entries : Pair(d) = Pair(e) => Pair(Trim(d)) = Pair(Trim(e))
<1>1. ASSUME NEW e \in Entries
      PROVE  Trim(e) = [model |-> TrimSpace(e.model), upstream |-> e.upstream,
                        endpoints |-> e.endpoints, priority |-> e.priority, disabled |-> e.disabled]
  BY DEF Trim, Entries
<1>2. \A n \in Nat : TrimSpace(n) \in Nat
  BY RoutingAssumption DEF TrimSpace
<1>3. ASSUME NEW e \in Entries
      PROVE  /\ Trim(e) \in Entries
             /\ Trim(e).model = TrimSpace(e.model) /\ Trim(e).upstream = e.upstream
  <2>1. e.model \in Nat /\ TrimSpace(e.model) \in Nat
    BY <1>2 DEF Entries
  <2>2. /\ e.upstream \in Nat /\ e.endpoints \in SUBSET Nat /\ e.priority \in Int
        /\ e.disabled \in BOOLEAN
    BY DEF Entries
  <2> QED
    BY <1>1, <2>1, <2>2 DEF Entries
<1>4. \A e \in Entries : Actual(Trim(e)) \in {Actual(e), TrimSpace(Actual(e))}
  BY <1>3 DEF Actual
<1>5. \A d, e \in Entries : Pair(d) = Pair(e) => Pair(Trim(d)) = Pair(Trim(e))
  BY <1>3 DEF Pair
<1> QED
  BY <1>3, <1>4, <1>5

\* dedupProviderModelsByPair keeps one entry of each pair of names.
LEMMA DedupFacts ==
    ASSUME NEW list \in Seq(Entries)
    PROVE  LET q == dedupProviderModelsByPair(list) IN
           /\ q \in Seq(Entries)
           /\ \A k \in DOMAIN q : \E i \in DOMAIN list : q[k] = list[i]
           /\ \A i \in DOMAIN list : \E k \in DOMAIN q : Pair(q[k]) = Pair(list[i])
           /\ \A k, l \in DOMAIN q : Pair(q[k]) = Pair(q[l]) => k = l
<1> DEFINE first == {i \in DOMAIN list : \A j \in 1 .. (i - 1) : Pair(list[j]) # Pair(list[i])}
<1> DEFINE q == AtPlaces(list, first)
<1> DEFINE order == Ascending(first)
<1>1. dedupProviderModelsByPair(list) = q
  BY DEF dedupProviderModelsByPair
<1>2. first \in SUBSET DOMAIN list /\ DOMAIN list = 1 .. Len(list) /\ Len(list) \in Nat
  OBVIOUS
<1>3. \A i \in first, j \in first : Pair(list[i]) = Pair(list[j]) => i = j
  <2> SUFFICES ASSUME NEW i \in first, NEW j \in first, Pair(list[i]) = Pair(list[j]), i < j PROVE FALSE
    BY <1>2
  <2>1. i \in 1 .. (j - 1)
    BY <1>2
  <2> QED
    BY <2>1
<1>4. \A i \in DOMAIN list : \E m \in first : Pair(list[m]) = Pair(list[i])
  <2> SUFFICES ASSUME NEW i \in DOMAIN list PROVE \E m \in first : Pair(list[m]) = Pair(list[i])
    OBVIOUS
  <2> DEFINE same == {j \in Nat : j \in DOMAIN list /\ Pair(list[j]) = Pair(list[i])}
  <2>1. same \subseteq Nat /\ i \in same
    BY <1>2
  <2>2. PICK m \in same : \A j \in same : m <= j
    BY <2>1, Least
  <2>3. \A j \in 1 .. (m - 1) : j \in DOMAIN list /\ j \in Nat /\ j < m
    BY <1>2, <2>2
  <2>4. \A j \in 1 .. (m - 1) : Pair(list[j]) # Pair(list[m])
    <3> SUFFICES ASSUME NEW j \in 1 .. (m - 1), Pair(list[j]) = Pair(list[m]) PROVE FALSE
      OBVIOUS
    <3>1. j \in same
      BY <2>2, <2>3
    <3> QED
      BY <2>2, <2>3, <3>1
  <2> QED
    BY <2>2, <2>4
<1> HIDE DEF first
<1>5. /\ q \in Seq(Entries)
      /\ \A k \in DOMAIN q : order[k] \in first /\ q[k] = list[order[k]]
      /\ \A k, l \in DOMAIN q : order[k] = order[l] => k = l
      /\ \A i \in first : \E k \in DOMAIN q : order[k] = i /\ q[k] = list[i]
  BY <1>2, AtPlacesFacts
<1> HIDE DEF q, order
<1>6. \A k, l \in DOMAIN q : Pair(q[k]) = Pair(q[l]) => k = l
  BY <1>3, <1>5
<1>7. \A i \in DOMAIN list : \E k \in DOMAIN q : Pair(q[k]) = Pair(list[i])
  BY <1>4, <1>5
<1>8. \A k \in DOMAIN q : \E i \in DOMAIN list : q[k] = list[i]
  BY <1>2, <1>5
<1> QED
  BY <1>1, <1>5, <1>6, <1>7, <1>8

\* The entry of a model that upstream names and the list does not know.
LEMMA EntryFacts ==
    ASSUME NEW n \in UpstreamNames
    PROVE  Entry(n) \in Entries /\ Actual(Entry(n)) = n /\ Entry(n).model = n
<1>1. n \in Nat /\ n # Empty /\ Empty \in Nat
  BY RoutingAssumption DEF Empty
<1> QED
  BY <1>1 DEF Entry, Actual, Entries

\* Two lists, one behind the other.
LEMMA BehindFacts ==
    ASSUME NEW s \in Seq(Entries), NEW t \in Seq(Entries)
    PROVE  /\ s \o t \in Seq(Entries)
           /\ \A i \in DOMAIN s : \E k \in DOMAIN (s \o t) : (s \o t)[k] = s[i]
           /\ \A i \in DOMAIN t : \E k \in DOMAIN (s \o t) : (s \o t)[k] = t[i]
           /\ \A k \in DOMAIN (s \o t) :
                (\E i \in DOMAIN s : (s \o t)[k] = s[i]) \/ (\E i \in DOMAIN t : (s \o t)[k] = t[i])
<1>1. /\ s \o t \in Seq(Entries) /\ Len(s \o t) = Len(s) + Len(t)
      /\ DOMAIN (s \o t) = 1 .. (Len(s) + Len(t)) /\ DOMAIN s = 1 .. Len(s) /\ DOMAIN t = 1 .. Len(t)
      /\ Len(s) \in Nat /\ Len(t) \in Nat
  OBVIOUS
<1>2. \A k \in 1 .. (Len(s) + Len(t)) : (s \o t)[k] = IF k <= Len(s) THEN s[k] ELSE t[k - Len(s)]
  OBVIOUS
<1>3. \A i \in DOMAIN s : i \in DOMAIN (s \o t) /\ (s \o t)[i] = s[i]
  BY <1>1, <1>2
<1>4. \A i \in DOMAIN t : (i + Len(s)) \in DOMAIN (s \o t) /\ (s \o t)[i + Len(s)] = t[i]
  <2> SUFFICES ASSUME NEW i \in DOMAIN t
               PROVE  (i + Len(s)) \in DOMAIN (s \o t) /\ (s \o t)[i + Len(s)] = t[i]
    OBVIOUS
  <2> DEFINE k == i + Len(s)
  <2>1. k \in 1 .. (Len(s) + Len(t)) /\ ~(k <= Len(s)) /\ k - Len(s) = i
    BY <1>1
  <2> HIDE DEF k
  <2>2. (s \o t)[k] = t[i]
    BY <1>2, <2>1
  <2> QED
    BY <1>1, <2>1, <2>2 DEF k
<1>5. ASSUME NEW k \in DOMAIN (s \o t)
      PROVE  (\E i \in DOMAIN s : (s \o t)[k] = s[i]) \/ (\E i \in DOMAIN t : (s \o t)[k] = t[i])
  <2>1. CASE k <= Len(s)
    BY <1>1, <1>2, <2>1
  <2>2. CASE ~(k <= Len(s))
    <3>1. k - Len(s) \in DOMAIN t
      BY <1>1, <2>2
    <3>2. (s \o t)[k] = t[k - Len(s)]
      BY <1>1, <1>2, <2>2
    <3> QED
      BY <3>1, <3>2
  <2> QED
    BY <2>1, <2>2
<1> QED
  BY <1>1, <1>3, <1>4, <1>5

\* aggregateProviderModels: what upstream names, configured where it was.
LEMMA AggregateFacts ==
    ASSUME NEW old \in Seq(Entries), NEW names \in SUBSET UpstreamNames
    PROVE  LET list == aggregateProviderModels(old, names).list IN
           /\ list \in Seq(Entries)
           /\ \A k \in DOMAIN list : /\ Actual(list[k]) \in names
                                     /\ \/ \E i \in DOMAIN old : list[k] = old[i]
                                        \/ list[k].model = Actual(list[k])
           /\ \A n \in names : \E k \in DOMAIN list : Actual(list[k]) = n
           /\ \A i \in DOMAIN old : Actual(old[i]) \in names => \E k \in DOMAIN list : Pair(list[k]) = Pair(old[i])
<1> DEFINE places == {i \in DOMAIN old : Actual(old[i]) \in names}
<1> DEFINE kept == AtPlaces(old, places)
<1> DEFINE fresh == names \ {Actual(e) : e \in ToSet(kept)}
<1> DEFINE added == Ascending(fresh)
<1> DEFINE behind == [i \in DOMAIN added |-> Entry(added[i])]
<1> DEFINE both == kept \o behind
<1> DEFINE list == dedupProviderModelsByPair(both)
<1>1. aggregateProviderModels(old, names).list = list
  BY DEF aggregateProviderModels
<1>2. places \in SUBSET DOMAIN old /\ \A i \in DOMAIN old : i \in places <=> Actual(old[i]) \in names
  OBVIOUS
<1> HIDE DEF places
<1>3. /\ kept \in Seq(Entries)
      /\ \A k \in DOMAIN kept : Ascending(places)[k] \in places /\ kept[k] = old[Ascending(places)[k]]
      /\ \A i \in places : \E k \in DOMAIN kept : kept[k] = old[i]
  BY <1>2, AtPlacesFacts
<1>4. /\ \A k \in DOMAIN kept : Actual(kept[k]) \in names /\ \E i \in DOMAIN old : kept[k] = old[i]
      /\ \A i \in DOMAIN old : Actual(old[i]) \in names => \E k \in DOMAIN kept : kept[k] = old[i]
  BY <1>2, <1>3
<1> HIDE DEF kept
<1>5. /\ fresh \subseteq names
      /\ \A n \in names : n \in fresh \/ \E k \in DOMAIN kept : Actual(kept[k]) = n
  BY DEF ToSet
<1> HIDE DEF fresh
<1>6. IsFiniteSet(fresh) /\ fresh \subseteq Nat /\ fresh \subseteq UpstreamNames
  <2>1. IsFiniteSet(UpstreamNames) /\ UpstreamNames \subseteq Nat
    BY RoutingAssumption
  <2>2. fresh \in SUBSET UpstreamNames
    BY <1>5
  <2> QED
    BY <2>1, <2>2, FS_Subset
<1>7. /\ Cardinality(fresh) \in Nat /\ DOMAIN added = 1 .. Cardinality(fresh)
      /\ \A i \in DOMAIN added : added[i] \in fresh
      /\ \A n \in fresh : \E i \in DOMAIN added : added[i] = n
  BY <1>6, AscendingFacts
<1> HIDE DEF added
<1>8. /\ DOMAIN behind = DOMAIN added
      /\ \A i \in DOMAIN behind : behind[i] = Entry(added[i])
      /\ \A i \in DOMAIN behind : behind[i] \in Entries
  BY <1>6, <1>7, EntryFacts
<1>9. behind \in Seq(Entries)
  <2>1. \A i \in 1 .. Cardinality(fresh) : Entry(added[i]) \in Entries
    BY <1>7, <1>8
  <2>2. behind = [i \in 1 .. Cardinality(fresh) |-> Entry(added[i])]
    BY <1>7
  <2> HIDE DEF behind
  <2> QED
    BY <1>7, <2>1, <2>2
<1>10. /\ \A i \in DOMAIN behind : Actual(behind[i]) \in names /\ behind[i].model = Actual(behind[i])
       /\ \A n \in fresh : \E i \in DOMAIN behind : Actual(behind[i]) = n
  <2>1. \A n \in fresh : Actual(Entry(n)) = n /\ Entry(n).model = n
    BY <1>6, EntryFacts
  <2> QED
    BY <1>5, <1>7, <1>8, <2>1
<1> HIDE DEF behind
<1>11. /\ both \in Seq(Entries)
       /\ \A i \in DOMAIN kept : \E k \in DOMAIN both : both[k] = kept[i]
       /\ \A i \in DOMAIN behind : \E k \in DOMAIN both : both[k] = behind[i]
       /\ \A k \in DOMAIN both :
            (\E i \in DOMAIN kept : both[k] = kept[i]) \/ (\E i \in DOMAIN behind : both[k] = behind[i])
  BY <1>3, <1>9, BehindFacts
<1> HIDE DEF both
<1>12. /\ list \in Seq(Entries)
       /\ \A k \in DOMAIN list : \E i \in DOMAIN both : list[k] = both[i]
       /\ \A i \in DOMAIN both : \E k \in DOMAIN list : Pair(list[k]) = Pair(both[i])
  BY <1>11, DedupFacts
<1> HIDE DEF list
<1>13. \A k \in DOMAIN both : /\ Actual(both[k]) \in names
                              /\ (\E i \in DOMAIN old : both[k] = old[i]) \/ both[k].model = Actual(both[k])
  BY <1>4, <1>10, <1>11
<1>14. \A n \in names : \E k \in DOMAIN both : Actual(both[k]) = n
  BY <1>5, <1>10, <1>11
<1>15. \A n \in names : \E k \in DOMAIN list : Actual(list[k]) = n
  BY <1>12, <1>14, PairFacts
<1>16. \A i \in DOMAIN old : Actual(old[i]) \in names => \E k \in DOMAIN both : both[k] = old[i]
  BY <1>4, <1>11
<1>17. \A i \in DOMAIN old : Actual(old[i]) \in names => \E k \in DOMAIN list : Pair(list[k]) = Pair(old[i])
  BY <1>12, <1>16
<1>18. \A k \in DOMAIN list : /\ Actual(list[k]) \in names
                              /\ (\E i \in DOMAIN old : list[k] = old[i]) \/ list[k].model = Actual(list[k])
  BY <1>12, <1>13
<1> QED
  BY <1>1, <1>12, <1>15, <1>17, <1>18

\* What a refresh returns of a list: its entries with a name, without the
\* blanks around it, each pair once.
LEMMA CleanedFacts ==
    ASSUME NEW list \in Seq(Entries)
    PROVE  LET q == dedupProviderModelsByPair(Cleaned(list)) IN
           /\ q \in Seq(Entries)
           /\ \A k \in DOMAIN q : \E i \in DOMAIN list : q[k] = Trim(list[i])
           /\ \A i \in DOMAIN list : TrimSpace(list[i].model) # Empty =>
                \E k \in DOMAIN q : Pair(q[k]) = Pair(Trim(list[i]))
           /\ \A k, l \in DOMAIN q : Pair(q[k]) = Pair(q[l]) => k = l
<1> DEFINE trimmed == [i \in DOMAIN list |-> Trim(list[i])]
<1> DEFINE places == {i \in DOMAIN list : trimmed[i].model # Empty}
<1> DEFINE named == Cleaned(list)
<1> DEFINE q == dedupProviderModelsByPair(named)
<1>1. named = AtPlaces(trimmed, places)
  BY DEF Cleaned
<1>2. /\ DOMAIN trimmed = DOMAIN list
      /\ \A i \in DOMAIN list : trimmed[i] = Trim(list[i]) /\ list[i] \in Entries
  OBVIOUS
<1>3. trimmed \in Seq(Entries)
  <2>1. trimmed = [i \in 1 .. Len(list) |-> Trim(list[i])] /\ Len(list) \in Nat
    OBVIOUS
  <2>2. \A i \in 1 .. Len(list) : Trim(list[i]) \in Entries
    BY TrimFacts
  <2> HIDE DEF trimmed
  <2> QED
    BY <2>1, <2>2
<1>4. /\ places \in SUBSET DOMAIN trimmed
      /\ \A i \in DOMAIN list : i \in places <=> TrimSpace(list[i].model) # Empty
  BY <1>2, TrimFacts
<1> HIDE DEF places, named, trimmed
<1>5. /\ named \in Seq(Entries)
      /\ \A k \in DOMAIN named : Ascending(places)[k] \in places /\ named[k] = trimmed[Ascending(places)[k]]
      /\ \A i \in places : \E k \in DOMAIN named : named[k] = trimmed[i]
  BY <1>1, <1>3, <1>4, AtPlacesFacts
<1>6. \A k \in DOMAIN named : \E i \in DOMAIN list : named[k] = Trim(list[i])
  BY <1>2, <1>4, <1>5
<1>7. /\ q \in Seq(Entries)
      /\ \A k \in DOMAIN q : \E i \in DOMAIN named : q[k] = named[i]
      /\ \A i \in DOMAIN named : \E k \in DOMAIN q : Pair(q[k]) = Pair(named[i])
      /\ \A k, l \in DOMAIN q : Pair(q[k]) = Pair(q[l]) => k = l
  BY <1>5, DedupFacts
<1> HIDE DEF q
<1>8. \A k \in DOMAIN q : \E i \in DOMAIN list : q[k] = Trim(list[i])
  BY <1>6, <1>7
<1>9. \A i \in DOMAIN list : TrimSpace(list[i].model) # Empty =>
            \E k \in DOMAIN q : Pair(q[k]) = Pair(Trim(list[i]))
  BY <1>2, <1>4, <1>5, <1>7
<1> QED
  BY <1>7, <1>8, <1>9 DEF q, named

\* As many pairs as entries.
LEMMA PairsCount ==
    ASSUME NEW q \in Seq(Entries), \A k, l \in DOMAIN q : Pair(q[k]) = Pair(q[l]) => k = l
    PROVE  Cardinality({Pair(e) : e \in ToSet(q)}) = Len(q)
<1> DEFINE P == {Pair(e) : e \in ToSet(q)}
<1> DEFINE f == [k \in 1 .. Len(q) |-> Pair(q[k])]
<1>1. Len(q) \in Nat /\ DOMAIN q = 1 .. Len(q)
  OBVIOUS
<1>2. P = {Pair(q[k]) : k \in 1 .. Len(q)}
  BY <1>1 DEF ToSet
<1> HIDE DEF P
<1>3. f \in [1 .. Len(q) -> P] /\ \A x \in P : \E k \in 1 .. Len(q) : f[k] = x
  BY <1>2
<1>4. \A k, l \in 1 .. Len(q) : f[k] = f[l] => k = l
  BY <1>1
<1> HIDE DEF f
<1>5. f \in Bijection(1 .. Len(q), P)
  BY <1>3, <1>4 DEF Bijection, Injection, Surjection, IsInjective
<1>6. ExistsBijection(1 .. Len(q), P)
  BY <1>5 DEF ExistsBijection
<1> QED
  BY <1>1, <1>6, FS_CountingElements DEF P

\* A list that was merged and not replaced.
LEMMA FinalFacts ==
    ASSUME NEW old \in Seq(Entries), NEW names \in SUBSET UpstreamNames,
           \A e \in ToSet(old) : TrimSpace(e.model) # Empty
    PROVE  LET merged == aggregateProviderModels(old, names)
               q == dedupProviderModelsByPair(Cleaned(merged.list))
               final == ToSet(q)
           IN /\ \A e \in final : \E n \in names : Actual(e) \in {n, TrimSpace(n)}
              /\ \A n \in names : TrimSpace(n) # Empty =>
                    \E e \in final : Actual(e) \in {n, TrimSpace(n)}
              /\ \A e \in ToSet(old) : IF Actual(e) \in names
                                       THEN Pair(Trim(e)) \in {Pair(d) : d \in final}
                                       ELSE Actual(e) \in merged.removed
              /\ merged.removed \cap names = {}
              /\ Cardinality({Pair(e) : e \in final}) = Len(q)
<1> DEFINE merged == aggregateProviderModels(old, names)
<1> DEFINE list == merged.list
<1> DEFINE q == dedupProviderModelsByPair(Cleaned(list))
<1> DEFINE final == ToSet(q)
<1>1. /\ list \in Seq(Entries)
      /\ \A k \in DOMAIN list : /\ Actual(list[k]) \in names
                                /\ \/ \E i \in DOMAIN old : list[k] = old[i]
                                   \/ list[k].model = Actual(list[k])
      /\ \A n \in names : \E k \in DOMAIN list : Actual(list[k]) = n
      /\ \A i \in DOMAIN old : Actual(old[i]) \in names => \E k \in DOMAIN list : Pair(list[k]) = Pair(old[i])
  BY AggregateFacts
<1>2. merged.removed = {Actual(e) : e \in ToSet(old)} \ names
  BY DEF aggregateProviderModels
<1> HIDE DEF merged
<1>3. \A i \in DOMAIN old : TrimSpace(old[i].model) # Empty
  BY DEF ToSet
<1>4. \A k \in DOMAIN list : TrimSpace(Actual(list[k])) # Empty => TrimSpace(list[k].model) # Empty
  BY <1>1, <1>3
<1>5. /\ q \in Seq(Entries)
      /\ \A k \in DOMAIN q : \E i \in DOMAIN list : q[k] = Trim(list[i])
      /\ \A i \in DOMAIN list : TrimSpace(list[i].model) # Empty =>
            \E k \in DOMAIN q : Pair(q[k]) = Pair(Trim(list[i]))
      /\ \A k, l \in DOMAIN q : Pair(q[k]) = Pair(q[l]) => k = l
  BY <1>1, CleanedFacts
<1> HIDE DEF q, list
<1>6. \A e \in final : \E k \in DOMAIN q : e = q[k]
  BY DEF ToSet
<1>7. \A k \in DOMAIN q : q[k] \in final
  BY DEF ToSet
<1>8. Cardinality({Pair(e) : e \in final}) = Len(q)
  BY <1>5, PairsCount
<1> HIDE DEF final
<1>9. \A i \in DOMAIN list : list[i] \in Entries
  BY <1>1
<1>10. ASSUME NEW e \in final PROVE \E n \in names : Actual(e) \in {n, TrimSpace(n)}
  <2>1. PICK k \in DOMAIN q : e = q[k]
    BY <1>6
  <2>2. PICK i \in DOMAIN list : q[k] = Trim(list[i])
    BY <1>5
  <2> QED
    BY <1>1, <1>9, <2>1, <2>2, TrimFacts
<1>11. ASSUME NEW n \in names, TrimSpace(n) # Empty
       PROVE  \E e \in final : Actual(e) \in {n, TrimSpace(n)}
  <2>1. PICK i \in DOMAIN list : Actual(list[i]) = n
    BY <1>1
  <2>2. PICK k \in DOMAIN q : Pair(q[k]) = Pair(Trim(list[i]))
    BY <1>4, <1>5, <1>11, <2>1
  <2>3. Actual(q[k]) = Actual(Trim(list[i]))
    BY <2>2, PairFacts
  <2> QED
    BY <1>7, <1>9, <2>1, <2>3, TrimFacts
<1>12. \A e \in ToSet(old) : IF Actual(e) \in names
                             THEN Pair(Trim(e)) \in {Pair(d) : d \in final}
                             ELSE Actual(e) \in merged.removed
  <2> SUFFICES ASSUME NEW e \in ToSet(old)
               PROVE  IF Actual(e) \in names
                      THEN Pair(Trim(e)) \in {Pair(d) : d \in final}
                      ELSE Actual(e) \in merged.removed
    OBVIOUS
  <2>1. PICK i \in DOMAIN old : e = old[i]
    BY DEF ToSet
  <2>2. ASSUME Actual(e) \in names PROVE \E d \in final : Pair(Trim(e)) = Pair(d)
    <3>1. PICK j \in DOMAIN list : Pair(list[j]) = Pair(old[i])
      BY <1>1, <2>1, <2>2
    <3>2. list[j].model = old[i].model
      BY <3>1, PairFacts
    <3>3. PICK k \in DOMAIN q : Pair(q[k]) = Pair(Trim(list[j]))
      BY <1>3, <1>5, <3>2
    <3>4. old[i] \in Entries
      OBVIOUS
    <3>5. Pair(Trim(list[j])) = Pair(Trim(old[i]))
      BY <1>9, <3>1, <3>4, TrimFacts
    <3> QED
      BY <1>7, <2>1, <3>3, <3>5
  <2> QED
    BY <1>2, <2>2
<1>13. merged.removed \cap names = {}
  BY <1>2
<1> QED
  BY <1>8, <1>10, <1>11, <1>12, <1>13 DEF final, q, list, merged

\* A provider that is made, and one of which columns are set.
LEMMA WithFacts ==
    /\ \A n \in Nat, form \in ProviderColumns :
        With([id |-> n], form) \in Providers /\ With([id |-> n], form).id = n
    /\ \A p \in Providers, form \in ProviderColumns :
        With(p, form) \in Providers /\ With(p, form).id = p.id
    /\ \A p \in Providers, list \in Seq(Entries) :
        With(p, [list |-> list]) \in Providers /\ With(p, [list |-> list]).id = p.id
<1>1. ASSUME NEW form \in ProviderColumns
      PROVE  DOMAIN form = {"priority", "keyed", "disabled", "feed", "list"}
  BY DEF ProviderColumns
<1>2. ASSUME NEW n \in Nat, NEW form \in ProviderColumns
      PROVE  With([id |-> n], form) \in Providers /\ With([id |-> n], form).id = n
  <2>1. With([id |-> n], form) =
            [id |-> n, priority |-> form.priority, keyed |-> form.keyed, disabled |-> form.disabled,
             feed |-> form.feed, list |-> form.list]
    BY <1>1 DEF With
  <2> QED
    BY <2>1 DEF Providers, ProviderColumns
<1>3. ASSUME NEW p \in Providers, NEW form \in ProviderColumns
      PROVE  With(p, form) \in Providers /\ With(p, form).id = p.id
  <2>1. With(p, form) =
            [id |-> p.id, priority |-> form.priority, keyed |-> form.keyed, disabled |-> form.disabled,
             feed |-> form.feed, list |-> form.list]
    BY <1>1 DEF With, Providers
  <2> QED
    BY <2>1 DEF Providers, ProviderColumns
<1>4. ASSUME NEW p \in Providers, NEW list \in Seq(Entries)
      PROVE  With(p, [list |-> list]) \in Providers /\ With(p, [list |-> list]).id = p.id
  <2>1. With(p, [list |-> list]) =
            [id |-> p.id, priority |-> p.priority, keyed |-> p.keyed, disabled |-> p.disabled,
             feed |-> p.feed, list |-> list]
    BY DEF With, Providers
  <2> QED
    BY <2>1 DEF Providers
<1> QED
  BY <1>2, <1>3, <1>4

\* The tables, and a serial that is ahead of them.
TablesInv ==
    /\ IsDB(db) /\ nextID \in Nat
    /\ \A p \in db.providers : p.id < nextID

FetchInv ==
    /\ fetch.pc \in {"idle", "read", "done"}
    /\ fetch.pc = "read" => fetch.old \in Seq(Entries)
    /\ fetch.pc = "done" => fetch.final \in Seq(Entries)
    /\ FetchFollowsUpstream

\* Databases apart from what the statements on bindings, models and endpoints set.
LEMMA OtherTables ==
    ASSUME NEW d, IsDB(d), NEW e, DOMAIN e = DOMAIN d, e.providers = d.providers,
           IsFiniteSet(e.bindings), IsFiniteSet(e.endpoints)
    PROVE  IsDB(e)
BY DEF IsDB

\* The statements that may write the providers.
LEMMA ProviderStatements ==
    ASSUME NEW d, IsDB(d), NEW n \in Nat, \A p \in d.providers : p.id < n
    PROVE  /\ \A form \in ProviderColumns :
                /\ IsDB(CreateProvider(d, n, form))
                /\ \A p \in CreateProvider(d, n, form).providers : p.id < n + 1
           /\ \A id, columns :
                columns \in ProviderColumns \/ (\E list \in Seq(Entries) : columns = [list |-> list]) =>
                    /\ IsDB(UpdateProvider(d, id, columns))
                    /\ \A p \in UpdateProvider(d, id, columns).providers : p.id < n
           /\ \A id : /\ IsDB(DeleteProvider(d, id))
                      /\ \A p \in DeleteProvider(d, id).providers : p.id < n
<1>1. /\ DOMAIN d = {"providers", "bindings", "endpoints", "models"}
      /\ IsFiniteSet(d.providers) /\ IsFiniteSet(d.bindings) /\ IsFiniteSet(d.endpoints)
      /\ d.providers \subseteq Providers
      /\ \A p, q \in d.providers : p.id = q.id => p = q
      /\ \A p \in d.providers : p.id \in Nat /\ p.id < n
  BY DEF IsDB, Providers
<1>2. ASSUME NEW form \in ProviderColumns
      PROVE  /\ IsDB(CreateProvider(d, n, form))
             /\ \A p \in CreateProvider(d, n, form).providers : p.id < n + 1
  <2> DEFINE x == With([id |-> n], form)
  <2> DEFINE e == CreateProvider(d, n, form)
  <2>1. x \in Providers /\ x.id = n
    BY WithFacts
  <2>2. /\ DOMAIN e = DOMAIN d /\ e.providers = d.providers \cup {x}
        /\ e.bindings = d.bindings /\ e.endpoints = d.endpoints
    BY <1>1 DEF CreateProvider
  <2> HIDE DEF x, e
  <2>3. IsFiniteSet(d.providers \cup {x})
    BY <1>1, FS_AddElement
  <2>4. \A p \in d.providers : p.id # x.id
    BY <1>1, <2>1
  <2>5. IsDB(e)
    BY <1>1, <2>1, <2>2, <2>3, <2>4 DEF IsDB
  <2>6. \A p \in e.providers : p.id < n + 1
    BY <1>1, <2>1, <2>2
  <2> QED
    BY <2>5, <2>6 DEF e
<1>3. ASSUME NEW id, NEW columns,
             columns \in ProviderColumns \/ \E list \in Seq(Entries) : columns = [list |-> list]
      PROVE  /\ IsDB(UpdateProvider(d, id, columns))
             /\ \A p \in UpdateProvider(d, id, columns).providers : p.id < n
  <2> DEFINE e == UpdateProvider(d, id, columns)
  <2> DEFINE f == [p \in d.providers |-> IF p.id = id THEN With(p, columns) ELSE p]
  <2>1. \A p \in d.providers : f[p] \in Providers /\ f[p].id = p.id
    <3>1. \A p \in d.providers : With(p, columns) \in Providers /\ With(p, columns).id = p.id
      <4>1. CASE columns \in ProviderColumns
        BY <1>1, <4>1, WithFacts
      <4>2. CASE \E list \in Seq(Entries) : columns = [list |-> list]
        BY <1>1, <4>2, WithFacts
      <4> QED
        BY <1>3, <4>1, <4>2
    <3> QED
      BY <1>1, <3>1
  <2>2. /\ DOMAIN e = DOMAIN d /\ e.providers = {f[p] : p \in d.providers}
        /\ e.bindings = d.bindings /\ e.endpoints = d.endpoints
    BY <1>1 DEF UpdateProvider
  <2>3. f \in Surjection(d.providers, {f[p] : p \in d.providers})
    BY DEF Surjection
  <2> HIDE DEF e, f
  <2>4. IsFiniteSet({f[p] : p \in d.providers})
    BY <1>1, <2>3, FS_Surjection
  <2>5. IsDB(e)
    BY <1>1, <2>1, <2>2, <2>4 DEF IsDB
  <2>6. \A p \in e.providers : p.id < n
    BY <1>1, <2>1, <2>2
  <2> QED
    BY <2>5, <2>6 DEF e
<1>4. ASSUME NEW id
      PROVE  IsDB(DeleteProvider(d, id)) /\ \A p \in DeleteProvider(d, id).providers : p.id < n
  <2> DEFINE e == DeleteProvider(d, id)
  <2>1. /\ DOMAIN e = DOMAIN d /\ e.providers \in SUBSET d.providers
        /\ e.bindings = d.bindings /\ e.endpoints = d.endpoints
    BY <1>1 DEF DeleteProvider
  <2> HIDE DEF e
  <2>2. IsFiniteSet(e.providers)
    BY <1>1, <2>1, FS_Subset
  <2>3. IsDB(e)
    BY <1>1, <2>1, <2>2 DEF IsDB
  <2> QED
    BY <1>1, <2>1, <2>3 DEF e
<1> QED
  BY <1>2, <1>3, <1>4

\* The other statements.
LEMMA OtherStatements ==
    ASSUME NEW d, IsDB(d)
    PROVE  \A e : \/ \E b : e = UpsertProviderEndpoint(d, b)
                  \/ \E id, path_ : e = DeleteProviderEndpoint(d, id, path_)
                  \/ \E m : e = UpsertModel(d, m)
                  \/ \E name : e = DeleteModel(d, name)
                  \/ \E x : e = UpsertEndpoint(d, x)
                  \/ \E path_ : e = DeleteEndpoint(d, path_)
                  => IsDB(e) /\ e.providers = d.providers
<1>1. DOMAIN d = {"providers", "bindings", "endpoints", "models"}
      /\ IsFiniteSet(d.bindings) /\ IsFiniteSet(d.endpoints)
  BY DEF IsDB
<1>2. ASSUME NEW e, NEW b, e = UpsertProviderEndpoint(d, b) PROVE IsDB(e) /\ e.providers = d.providers
  <2> DEFINE rest == {c \in d.bindings : <<c.provider, c.path>> # <<b.provider, b.path>>}
  <2>1. /\ DOMAIN e = DOMAIN d /\ e.providers = d.providers
        /\ e.bindings = rest \cup {b} /\ e.endpoints = d.endpoints
    BY <1>1, <1>2 DEF UpsertProviderEndpoint
  <2>2. rest \in SUBSET d.bindings
    OBVIOUS
  <2> HIDE DEF rest
  <2>3. IsFiniteSet(rest \cup {b})
    BY <1>1, <2>2, FS_Subset, FS_AddElement
  <2> QED
    BY <1>1, <2>1, <2>3, OtherTables
<1>3. ASSUME NEW e, NEW id, NEW path_, e = DeleteProviderEndpoint(d, id, path_)
      PROVE  IsDB(e) /\ e.providers = d.providers
  <2>1. /\ DOMAIN e = DOMAIN d /\ e.providers = d.providers
        /\ e.bindings \in SUBSET d.bindings /\ e.endpoints = d.endpoints
    BY <1>1, <1>3 DEF DeleteProviderEndpoint
  <2>2. IsFiniteSet(e.bindings)
    BY <1>1, <2>1, FS_Subset
  <2> QED
    BY <1>1, <2>1, <2>2, OtherTables
<1>4. ASSUME NEW e,
             \/ \E m : e = UpsertModel(d, m)
             \/ \E name : e = DeleteModel(d, name)
      PROVE  IsDB(e) /\ e.providers = d.providers
  <2>1. /\ DOMAIN e = DOMAIN d /\ e.providers = d.providers
        /\ e.bindings = d.bindings /\ e.endpoints = d.endpoints
    BY <1>1, <1>4 DEF UpsertModel, DeleteModel
  <2> QED
    BY <1>1, <2>1, OtherTables
<1>5. ASSUME NEW e, NEW x, e = UpsertEndpoint(d, x) PROVE IsDB(e) /\ e.providers = d.providers
  <2> DEFINE rest == {y \in d.endpoints : y.path # x.path}
  <2>1. /\ DOMAIN e = DOMAIN d /\ e.providers = d.providers
        /\ e.bindings = d.bindings /\ e.endpoints = rest \cup {x}
    BY <1>1, <1>5 DEF UpsertEndpoint
  <2>2. rest \in SUBSET d.endpoints
    OBVIOUS
  <2> HIDE DEF rest
  <2>3. IsFiniteSet(rest \cup {x})
    BY <1>1, <2>2, FS_Subset, FS_AddElement
  <2> QED
    BY <1>1, <2>1, <2>3, OtherTables
<1>6. ASSUME NEW e, NEW path_, e = DeleteEndpoint(d, path_) PROVE IsDB(e) /\ e.providers = d.providers
  <2>1. /\ DOMAIN e = DOMAIN d /\ e.providers = d.providers
        /\ e.bindings = d.bindings /\ e.endpoints \in SUBSET d.endpoints
    BY <1>1, <1>6 DEF DeleteEndpoint
  <2>2. IsFiniteSet(e.endpoints)
    BY <1>1, <2>1, FS_Subset
  <2> QED
    BY <1>1, <2>1, <2>2, OtherTables
<1> QED
  BY <1>2, <1>3, <1>4, <1>5, <1>6

\* At the start.
LEMMA InitTables == RoutesInit => TablesInv /\ FetchInv
<1> SUFFICES ASSUME RoutesInit PROVE TablesInv /\ FetchInv
  OBVIOUS
<1>1. IsDB(db)
  BY RoutingAssumption DEF RoutesInit
<1> DEFINE ids == {p.id : p \in db.providers}
<1>2. IsFiniteSet({0} \cup ids) /\ {0} \cup ids \subseteq Nat
  <2>1. \A p \in db.providers : p.id \in Nat
    BY <1>1 DEF IsDB, Providers
  <2> DEFINE f == [p \in db.providers |-> p.id]
  <2>2. f \in Surjection(db.providers, ids)
    BY DEF Surjection
  <2> HIDE DEF f
  <2>3. IsFiniteSet(ids)
    BY <1>1, <2>2, FS_Surjection DEF IsDB
  <2>4. IsFiniteSet({0} \cup ids)
    BY <2>3, FS_Singleton, FS_Union
  <2> QED
    BY <2>1, <2>4
<1> DEFINE S == {0} \cup ids
<1> HIDE DEF S
<1>3. Max(S) \in S /\ \A x \in S : x <= Max(S)
  BY <1>2, MaxFacts DEF S
<1>4. nextID = 1 + Max(S)
  BY DEF RoutesInit, S
<1>5. Max(S) \in Nat
  BY <1>2, <1>3 DEF S
<1>6. \A p \in db.providers : p.id \in Nat /\ p.id <= Max(S)
  BY <1>2, <1>3 DEF S
<1>7. TablesInv
  BY <1>1, <1>4, <1>5, <1>6 DEF TablesInv
<1>8. FetchInv
  BY DEF RoutesInit, NoFetch, FetchInv, FetchFollowsUpstream
<1> QED
  BY <1>7, <1>8

\* No statement spoils the tables.
LEMMA TablesStep ==
    ASSUME TablesInv, FetchInv, [RoutesNext]_routeVars
    PROVE  TablesInv'
<1>1. IsDB(db) /\ nextID \in Nat /\ \A p \in db.providers : p.id < nextID
  BY DEF TablesInv
<1>2. ASSUME UNCHANGED <<db, nextID>> PROVE TablesInv'
  BY <1>1, <1>2 DEF TablesInv
<1>3. ASSUME NEW columns \in ProviderColumns, Created(columns) PROVE TablesInv'
  <2>1. nextID' = nextID + 1 /\ db' = CreateProvider(db, nextID, columns)
    BY <1>3 DEF Created, Write
  <2>2. IsDB(db') /\ \A p \in db'.providers : p.id < nextID + 1
    BY <1>1, <2>1, ProviderStatements
  <2> QED
    BY <1>1, <2>1, <2>2 DEF TablesInv
<1>4. ASSUME NEW id, NEW columns,
             columns \in ProviderColumns \/ (\E list \in Seq(Entries) : columns = [list |-> list]),
             db' = UpdateProvider(db, id, columns), nextID' = nextID
      PROVE  TablesInv'
  <2>1. IsDB(db') /\ \A p \in db'.providers : p.id < nextID
    BY <1>1, <1>4, ProviderStatements
  <2> QED
    BY <1>1, <1>4, <2>1 DEF TablesInv
<1>5. ASSUME NEW id, db' = DeleteProvider(db, id), nextID' = nextID PROVE TablesInv'
  <2>1. IsDB(db') /\ \A p \in db'.providers : p.id < nextID
    BY <1>1, <1>5, ProviderStatements
  <2> QED
    BY <1>1, <1>5, <2>1 DEF TablesInv
<1>6. ASSUME nextID' = nextID,
             \/ \E b : db' = UpsertProviderEndpoint(db, b)
             \/ \E id, path_ : db' = DeleteProviderEndpoint(db, id, path_)
             \/ \E m : db' = UpsertModel(db, m)
             \/ \E name : db' = DeleteModel(db, name)
             \/ \E x : db' = UpsertEndpoint(db, x)
             \/ \E path_ : db' = DeleteEndpoint(db, path_)
      PROVE  TablesInv'
  <2>1. IsDB(db') /\ db'.providers = db.providers
    BY <1>1, <1>6, OtherStatements
  <2> QED
    BY <1>1, <1>6, <2>1 DEF TablesInv
<1>7. CASE handleCreateProvider
  <2>1. PICK form \in Forms : Created([form EXCEPT !.disabled = FALSE])
    BY <1>7 DEF handleCreateProvider
  <2>2. form \in ProviderColumns
    BY RoutingAssumption
  <2>3. [form EXCEPT !.disabled = FALSE] \in ProviderColumns
    BY <2>2 DEF ProviderColumns
  <2> QED
    BY <1>3, <2>1, <2>3
<1>8. CASE handleUpsertProvider
  <2>1. CASE \E form \in Forms : Created(form)
    BY <1>3, <2>1, RoutingAssumption
  <2>2. CASE \E id \in Ids, form \in Forms :
                Write(UpdateProvider(db, id, form)) /\ UNCHANGED <<nextID, binding, fetch>>
    <3>1. PICK id \in Ids, form \in Forms :
                Write(UpdateProvider(db, id, form)) /\ UNCHANGED <<nextID, binding, fetch>>
      BY <2>2
    <3>2. form \in ProviderColumns
      BY RoutingAssumption
    <3> QED
      BY <1>4, <3>1, <3>2 DEF Write
  <2> QED
    BY <1>8, <2>1, <2>2 DEF handleUpsertProvider
<1>9. CASE handleUpdateProviderModels
  <2>1. PICK id \in Ids, list \in Lists \cup (IF fetch.pc = "done" THEN {fetch.final} ELSE {}) :
            Write(UpdateProvider(db, id, [list |-> list])) /\ UNCHANGED <<nextID, binding, fetch>>
    BY <1>9 DEF handleUpdateProviderModels
  <2>2. list \in Seq(Entries)
    BY RoutingAssumption DEF FetchInv
  <2> QED
    BY <1>4, <2>1, <2>2 DEF Write
<1>10. CASE handleDeleteProvider
  BY <1>5, <1>10 DEF handleDeleteProvider, Write
<1>11. CASE handlePutModel \/ handleDeleteModel
  BY <1>6, <1>11 DEF handlePutModel, handleDeleteModel, Write
<1>12. CASE handleUpsertEndpoint \/ handleDeleteEndpoint \/ handleDeleteProviderEndpoint
  BY <1>6, <1>12 DEF handleUpsertEndpoint, handleDeleteEndpoint, handleDeleteProviderEndpoint, Write
<1>13. CASE UpsertBinding
  BY <1>6, <1>13 DEF UpsertBinding, Write
<1>14. CASE CheckBinding \/ DropBinding \/ ReadProvider \/ FetchModels \/ FetchFails
  BY <1>2, <1>14 DEF CheckBinding, DropBinding, ReadProvider, FetchModels, FetchFails
<1>15. CASE UNCHANGED routeVars
  BY <1>2, <1>15 DEF routeVars
<1> QED
  BY <1>7, <1>8, <1>9, <1>10, <1>11, <1>12, <1>13, <1>14, <1>15 DEF RoutesNext

\* What a refresh returns is what upstream named.
LEMMA FetchStep ==
    ASSUME TablesInv, FetchInv, [RoutesNext]_routeVars
    PROVE  FetchInv'
<1>1. ASSUME fetch' = fetch PROVE FetchInv'
  BY <1>1 DEF FetchInv, FetchFollowsUpstream
<1>2. CASE ReadProvider
  <2>1. PICK id \in Ids : \E p \in GetProviderByID(db, id) :
            p.feed /\ fetch' = [pc |-> "read", id |-> id, old |-> p.list]
    BY <1>2 DEF ReadProvider
  <2>2. PICK p \in db.providers : fetch' = [pc |-> "read", id |-> id, old |-> p.list]
    BY <2>1 DEF GetProviderByID
  <2>3. p.list \in Seq(Entries)
    BY DEF TablesInv, IsDB, Providers
  <2>4. fetch'.pc = "read" /\ fetch'.old = p.list
    BY <2>2
  <2> QED
    BY <2>3, <2>4 DEF FetchInv, FetchFollowsUpstream
<1>3. CASE FetchFails
  BY <1>3 DEF FetchFails, NoFetch, FetchInv, FetchFollowsUpstream
<1>4. CASE FetchModels
  <2> DEFINE Merged(names) == aggregateProviderModels(fetch.old, names)
  <2> DEFINE Final(list) == dedupProviderModelsByPair(Cleaned(list))
  <2> DEFINE Ends(names, list, hooked) ==
            fetch' = [pc |-> "done", id |-> fetch.id, old |-> fetch.old, names |-> names,
                      removed |-> Merged(names).removed, hooked |-> hooked, final |-> Final(list)]
  <2>0. PICK names \in SUBSET UpstreamNames : \E list :
            \/ list \in Lists /\ Ends(names, list, TRUE)
            \/ list = Merged(names).list /\ Ends(names, list, FALSE)
    <3>1. PICK names \in SUBSET UpstreamNames :
            Ends(names, Merged(names).list, FALSE) \/ \E list \in Lists : Ends(names, list, TRUE)
      BY <1>4 DEF FetchModels
    <3> HIDE DEF Ends, Merged
    <3> QED
      BY <3>1, Zenon
  <2>1. PICK list : \/ list \in Lists /\ Ends(names, list, TRUE)
                    \/ list = Merged(names).list /\ Ends(names, list, FALSE)
    BY <2>0
  <2>2. fetch.pc = "read" /\ fetch.old \in Seq(Entries)
    BY <1>4 DEF FetchModels, FetchInv
  <2>3. /\ fetch'.pc = "done" /\ fetch'.old = fetch.old /\ fetch'.names = names
        /\ fetch'.removed = Merged(names).removed
        /\ fetch'.final = Final(list)
        /\ (list \in Lists /\ fetch'.hooked = TRUE) \/ list = Merged(names).list
    BY <2>1
  <2>4. list \in Seq(Entries)
    <3>1. CASE list \in Lists
      BY <3>1, RoutingAssumption
    <3>2. CASE list = Merged(names).list
      BY <2>2, <3>2, AggregateFacts
    <3> QED
      BY <2>3, <3>1, <3>2
  <2>5. Final(list) \in Seq(Entries)
    BY <2>4, CleanedFacts
  <2>6. FetchFollowsUpstream'
    <3> SUFFICES ASSUME ~fetch'.hooked, \A e \in ToSet(fetch.old) : TrimSpace(e.model) # Empty
                 PROVE  LET final == ToSet(Final(list))
                        IN /\ \A e \in final : \E n \in names : Actual(e) \in {n, TrimSpace(n)}
                           /\ \A n \in names : TrimSpace(n) # Empty =>
                                \E e \in final : Actual(e) \in {n, TrimSpace(n)}
                           /\ \A e \in ToSet(fetch.old) :
                                IF Actual(e) \in names
                                THEN Pair(Trim(e)) \in {Pair(d) : d \in final}
                                ELSE Actual(e) \in Merged(names).removed
                           /\ Merged(names).removed \cap names = {}
                           /\ Cardinality({Pair(e) : e \in final}) = Len(Final(list))
      BY <2>3, Zenon DEF FetchFollowsUpstream
    <3>1. list = Merged(names).list
      BY <2>3
    <3> QED
      BY <2>2, <3>1, FinalFacts
  <2> QED
    BY <2>3, <2>5, <2>6 DEF FetchInv
<1>5. CASE \/ handleCreateProvider \/ handleUpsertProvider \/ handleUpdateProviderModels
           \/ handleDeleteProvider \/ handlePutModel \/ handleDeleteModel
           \/ handleUpsertEndpoint \/ handleDeleteEndpoint \/ handleDeleteProviderEndpoint
           \/ CheckBinding \/ UpsertBinding \/ DropBinding \/ UNCHANGED routeVars
  BY <1>1, <1>5 DEF handleCreateProvider, handleUpsertProvider, handleUpdateProviderModels,
        handleDeleteProvider, handlePutModel, handleDeleteModel, handleUpsertEndpoint,
        handleDeleteEndpoint, handleDeleteProviderEndpoint, CheckBinding, UpsertBinding,
        DropBinding, Created, routeVars
<1> QED
  BY <1>2, <1>3, <1>4, <1>5 DEF RoutesNext

\* The tables stay a database's whatever the administrators do
\* (pkg/db/provider.sql.go and its neighbours, the handlers that call them).
THEOREM TablesInvHolds == RoutesSpec => [](TablesInv /\ FetchInv)
<1>1. TablesInv /\ FetchInv /\ [RoutesNext]_routeVars => TablesInv' /\ FetchInv'
  BY TablesStep, FetchStep
<1> QED
  BY <1>1, InitTables, PTL DEF RoutesSpec

\* FetchFollowsUpstream: a refreshed list has the models upstream named, up to
\* the blanks around their names, and no others, configured as before
\* (aggregateProviderModels, handleFetchModels).
THEOREM FetchFollowsUpstreamHolds == RoutesSpec => []FetchFollowsUpstream
<1>1. FetchInv => FetchFollowsUpstream
  BY DEF FetchInv
<1> QED
  BY <1>1, TablesInvHolds, PTL

-----------------------------------------------------------------------------
(* The rows of the routing queries.                                         *)

\* What the code reads of a row, and the provider and binding it was made of.
IsRow(r) == {"provider", "providerPriority", "keyed", "path", "url", "priority"} \subseteq DOMAIN r

Made(r, pb) ==
    /\ IsRow(r)
    /\ r.provider = pb[1].id /\ r.providerPriority = pb[1].priority /\ r.keyed = pb[1].keyed
    /\ r.path = pb[2].path /\ r.url = pb[2].url

\* A provider's list serves a model on a path, or there is none to serve.
Servable(name, pb) ==
    \/ name = Empty
    \/ /\ Enabled(db, name)
       /\ \E i \in DOMAIN pb[1].list : pb[1].list[i].model = name /\ Open(pb[1].list[i], pb[2].path)

Reachable(pb) == pb[2].url # Empty /\ pb[1].keyed

\* Without a model.
LEMMA PlainRowFacts ==
    ASSUME NEW pb
    PROVE  Made(PlainRow(pb), pb) /\ PlainRow(pb).priority = 0
BY DEF PlainRow, Columns, With, Made, IsRow

\* With one.
LEMMA ModelRowFacts ==
    ASSUME NEW pb, NEW name
    PROVE  /\ \A r \in ModelRows(pb, name) :
                /\ Made(r, pb)
                /\ \E i \in DOMAIN pb[1].list : /\ r.priority = pb[1].list[i].priority
                                                /\ pb[1].list[i].model = name
                                                /\ Open(pb[1].list[i], pb[2].path)
           /\ \A i \in DOMAIN pb[1].list :
                pb[1].list[i].model = name /\ Open(pb[1].list[i], pb[2].path) => ModelRows(pb, name) # {}
<1> DEFINE p == pb[1]
<1> DEFINE Row(i) == With(Columns(p, pb[2]), [model |-> name, upstream |-> p.list[i].upstream,
                                            priority |-> p.list[i].priority, entry |-> i])
<1> DEFINE serving == {i \in DOMAIN p.list : p.list[i].model = name /\ Open(p.list[i], pb[2].path)}
<1>1. ModelRows(pb, name) = {Row(i) : i \in serving}
  BY DEF ModelRows
<1>2. \A i : Made(Row(i), pb) /\ Row(i).priority = p.list[i].priority
  BY DEF Columns, With, Made, IsRow
<1> HIDE DEF Row
<1> QED
  BY <1>1, <1>2

\* Beside an endpoint.
LEMMA BesideFacts ==
    ASSUME NEW r, NEW pb, Made(r, pb), NEW e
    PROVE  LET x == With(r, [type |-> e.type, prefix |-> e.prefix, inherited |-> e.resolver])
           IN Made(x, pb) /\ x.type = e.type /\ x.priority = r.priority
<1>1. IsRow(r)
  BY DEF Made
<1> QED
  BY <1>1 DEF Made, IsRow, With

\* The rows a request with or without a model is answered with, on a path.
PathQuery(path_, name) ==
    IF name = Empty THEN GetProvidersByEndpoint(db, path_)
    ELSE GetProvidersByEndpointAndModel(db, path_, name)

\* All rows of either kind.
AllRows(name) ==
    IF name = Empty THEN {PlainRow(pb) : pb \in Joined(db)}
    ELSE IF Enabled(db, name) THEN UNION {ModelRows(pb, name) : pb \in Joined(db)} ELSE {}

LEMMA AllRowsFacts ==
    ASSUME NEW name
    PROVE  /\ \A r \in AllRows(name) : \E pb \in Joined(db) :
                /\ Made(r, pb) /\ Servable(name, pb)
                /\ r.priority = 0 \/ \E i \in DOMAIN pb[1].list : r.priority = pb[1].list[i].priority
           /\ \A pb \in Joined(db) : Servable(name, pb) => \E r \in AllRows(name) : Made(r, pb)
<1>1. CASE name = Empty
  <2>1. AllRows(name) = {PlainRow(pb) : pb \in Joined(db)}
    BY <1>1 DEF AllRows
  <2>2. \A pb : Servable(name, pb)
    BY <1>1 DEF Servable
  <2>3. \A pb \in Joined(db) : PlainRow(pb) \in AllRows(name) /\ Made(PlainRow(pb), pb)
    BY <2>1, PlainRowFacts
  <2>4. \A r \in AllRows(name) : \E pb \in Joined(db) : Made(r, pb) /\ r.priority = 0
    BY <2>1, PlainRowFacts
  <2> QED
    BY <2>2, <2>3, <2>4
<1>2. CASE name # Empty /\ Enabled(db, name)
  <2>1. AllRows(name) = UNION {ModelRows(pb, name) : pb \in Joined(db)}
    BY <1>2 DEF AllRows
  <2>2. ASSUME NEW r \in AllRows(name)
        PROVE  \E pb \in Joined(db) :
                    /\ Made(r, pb) /\ Servable(name, pb)
                    /\ \E i \in DOMAIN pb[1].list : r.priority = pb[1].list[i].priority
    <3>1. PICK pb \in Joined(db) : r \in ModelRows(pb, name)
      BY <2>1
    <3>2. /\ Made(r, pb)
          /\ \E i \in DOMAIN pb[1].list : /\ r.priority = pb[1].list[i].priority
                                          /\ pb[1].list[i].model = name
                                          /\ Open(pb[1].list[i], pb[2].path)
      BY <3>1, ModelRowFacts
    <3>3. Servable(name, pb)
      BY <1>2, <3>2 DEF Servable
    <3> QED
      BY <3>2, <3>3
  <2>3. ASSUME NEW pb \in Joined(db), Servable(name, pb) PROVE \E r \in AllRows(name) : Made(r, pb)
    <3>1. ModelRows(pb, name) # {}
      BY <1>2, <2>3, ModelRowFacts DEF Servable
    <3>2. PICK r \in ModelRows(pb, name) : TRUE
      BY <3>1
    <3>3. r \in AllRows(name)
      BY <2>1
    <3> QED
      BY <3>2, <3>3, ModelRowFacts
  <2> QED
    BY <2>2, <2>3
<1>3. CASE name # Empty /\ ~Enabled(db, name)
  BY <1>3 DEF AllRows, Servable
<1> QED
  BY <1>1, <1>2, <1>3

\* A path's rows are those of all that are on it.
LEMMA PathRows ==
    ASSUME NEW path_, NEW mode
    PROVE  resolveProviders(db, path_, mode) =
                {r \in AllRows(mode.routed) : r.path = path_ /\ r.url # Empty /\ r.keyed}
<1> DEFINE name == mode.routed
<1> DEFINE rows == PathQuery(path_, name)
<1>1. resolveProviders(db, path_, mode) = {r \in rows : r.url # Empty /\ r.keyed}
  BY DEF resolveProviders, Usable, PathQuery
<1>2. rows = {r \in AllRows(name) : r.path = path_}
  <2>1. CASE name = Empty
    <3>1. rows = {PlainRow(pb) : pb \in {x \in Joined(db) : x[2].path = path_}}
      BY <2>1 DEF PathQuery, GetProvidersByEndpoint
    <3>2. AllRows(name) = {PlainRow(pb) : pb \in Joined(db)}
      BY <2>1 DEF AllRows
    <3>3. \A pb : PlainRow(pb).path = pb[2].path
      BY PlainRowFacts DEF Made
    <3> HIDE DEF rows, name
    <3> QED
      BY <3>1, <3>2, <3>3
  <2>2. CASE name # Empty /\ Enabled(db, name)
    <3>1. rows = UNION {ModelRows(pb, name) : pb \in {x \in Joined(db) : x[2].path = path_}}
      BY <2>2 DEF PathQuery, GetProvidersByEndpointAndModel
    <3>2. AllRows(name) = UNION {ModelRows(pb, name) : pb \in Joined(db)}
      BY <2>2 DEF AllRows
    <3>3. \A pb : \A r \in ModelRows(pb, name) : r.path = pb[2].path
      BY ModelRowFacts DEF Made
    <3> HIDE DEF rows, name
    <3> QED
      BY <3>1, <3>2, <3>3
  <2>3. CASE name # Empty /\ ~Enabled(db, name)
    BY <2>3 DEF PathQuery, GetProvidersByEndpointAndModel, AllRows
  <2> QED
    BY <2>1, <2>2, <2>3
<1> HIDE DEF rows, name
<1> QED
  BY <1>1, <1>2 DEF name

\* The modes of a request that no hook has made anything of.
LEMMA ModeFacts ==
    ASSUME NEW mode \in Modes
    PROVE  mode.has <=> mode.routed # Empty
<1>1. PICK m \in ModelNames \cup {Empty} : mode = [has |-> m # Empty, routed |-> m]
  BY DEF Modes
<1>2. mode.routed = m
  BY <1>1
<1>3. mode.has = (m # Empty)
  BY <1>1, Zenon
<1> QED
  BY <1>2, <1>3

\* Each row of a unified route is one of these beside an endpoint.
LEMMA UnifiedShape ==
    ASSUME NEW mode \in Modes, NEW types
    PROVE  UnifiedRows(db, mode, types) =
                UNION {{With(r, [type |-> e.type, prefix |-> e.prefix, inherited |-> e.resolver]) :
                            e \in {x \in db.endpoints : x.path = r.path /\ x.type \in types}} :
                       r \in AllRows(mode.routed)}
<1> DEFINE name == mode.routed
<1> DEFINE all == UnifiedRows(db, mode, types)
<1>1. all = AtEndpoints(db, AllRows(name), types)
  <2>1. CASE name = Empty
    BY <2>1, ModeFacts DEF UnifiedRows, GetProvidersByEndpointTypes, AllRows
  <2>2. CASE name # Empty /\ Enabled(db, name)
    BY <2>2, ModeFacts DEF UnifiedRows, GetProvidersByEndpointTypesAndModel, AllRows
  <2>3. CASE name # Empty /\ ~Enabled(db, name)
    <3>1. all = {} /\ AllRows(name) = {}
      BY <2>3, ModeFacts DEF UnifiedRows, GetProvidersByEndpointTypesAndModel, AllRows
    <3> QED
      BY <3>1 DEF AtEndpoints
  <2> QED
    BY <2>1, <2>2, <2>3
<1> QED
  BY <1>1 DEF AtEndpoints, GetEndpointByPath

\* The rows of a unified route, each beside an endpoint.
LEMMA TypeRows ==
    ASSUME NEW mode \in Modes, NEW types
    PROVE  LET rows == Usable(UnifiedRows(db, mode, types)) IN
           /\ \A x \in rows : \E r \in AllRows(mode.routed), pb \in Joined(db), e \in db.endpoints :
                /\ Made(r, pb) /\ Made(x, pb) /\ Servable(mode.routed, pb) /\ Reachable(pb)
                /\ e.path = pb[2].path /\ e.type \in types /\ x.type = e.type
                /\ x.priority = 0 \/ \E i \in DOMAIN pb[1].list : x.priority = pb[1].list[i].priority
           /\ \A pb \in Joined(db), e \in db.endpoints :
                Servable(mode.routed, pb) /\ Reachable(pb) /\ e.path = pb[2].path /\ e.type \in types =>
                    \E x \in rows : Made(x, pb) /\ x.type = e.type
<1> DEFINE name == mode.routed
<1> DEFINE Beside(r, e) == With(r, [type |-> e.type, prefix |-> e.prefix, inherited |-> e.resolver])
<1> DEFINE all == UnifiedRows(db, mode, types)
<1>1. all = UNION {{Beside(r, e) : e \in {x \in db.endpoints : x.path = r.path /\ x.type \in types}} :
                        r \in AllRows(name)}
  BY UnifiedShape
<1>2. \A x \in all : \E r \in AllRows(name), e \in db.endpoints :
            e.path = r.path /\ e.type \in types /\ x = Beside(r, e)
  BY <1>1
<1>3. \A r \in AllRows(name), e \in db.endpoints :
            e.path = r.path /\ e.type \in types => Beside(r, e) \in all
  BY <1>1
<1>4. \A r, pb, e : Made(r, pb) =>
            Made(Beside(r, e), pb) /\ Beside(r, e).type = e.type /\ Beside(r, e).priority = r.priority
  BY BesideFacts
<1> DEFINE rows == Usable(all)
<1>5. \A x : x \in rows <=> x \in all /\ x.url # Empty /\ x.keyed
  BY DEF Usable
<1>6. \A x, pb : Made(x, pb) => (Reachable(pb) <=> x.url # Empty /\ x.keyed)
  BY DEF Made, Reachable
<1> HIDE DEF Beside, all, rows, name
<1>7. ASSUME NEW x \in rows
      PROVE  \E r \in AllRows(name), pb \in Joined(db), e \in db.endpoints :
                /\ Made(r, pb) /\ Made(x, pb) /\ Servable(name, pb) /\ Reachable(pb)
                /\ e.path = pb[2].path /\ e.type \in types /\ x.type = e.type
                /\ x.priority = 0 \/ \E i \in DOMAIN pb[1].list : x.priority = pb[1].list[i].priority
  <2>1. PICK r \in AllRows(name), e \in db.endpoints :
            e.path = r.path /\ e.type \in types /\ x = Beside(r, e)
    BY <1>2, <1>5
  <2>2. PICK pb \in Joined(db) :
            /\ Made(r, pb) /\ Servable(name, pb)
            /\ r.priority = 0 \/ \E i \in DOMAIN pb[1].list : r.priority = pb[1].list[i].priority
    BY AllRowsFacts
  <2>3. Made(x, pb) /\ x.type = e.type /\ x.priority = r.priority
    BY <1>4, <2>1, <2>2
  <2>4. Reachable(pb)
    BY <1>5, <1>6, <2>3
  <2>5. e.path = pb[2].path
    BY <2>1, <2>2 DEF Made
  <2> QED
    BY <2>1, <2>2, <2>3, <2>4, <2>5
<1>8. ASSUME NEW pb \in Joined(db), NEW e \in db.endpoints,
             Servable(name, pb), Reachable(pb), e.path = pb[2].path, e.type \in types
      PROVE  \E x \in rows : Made(x, pb) /\ x.type = e.type
  <2>1. PICK r \in AllRows(name) : Made(r, pb)
    BY <1>8, AllRowsFacts
  <2>2. Beside(r, e) \in all /\ Made(Beside(r, e), pb) /\ Beside(r, e).type = e.type
    BY <1>3, <1>4, <1>8, <2>1 DEF Made
  <2> QED
    BY <1>5, <1>6, <1>8, <2>2
<1> QED
  BY <1>7, <1>8 DEF rows, all, name

\* ListAgreesWithRoutes: a model that can be called by its name is listed, and
\* a listed one can be called unless only bindings gone astray serve it
\* (ListAvailableModelNames against the routing queries).
THEOREM ListAgreesWithRoutesHolds == RoutesSpec => []ListAgreesWithRoutes
<1>1. ASSUME NEW name \in ModelNames
      PROVE  name \in ListAvailableModelNames(db) <=>
                \E pb \in Joined(db) : Servable(name, pb) /\ Reachable(pb)
  <2>1. name # Empty
    BY RoutingAssumption
  <2>2. name \in ListAvailableModelNames(db) <=>
            \E m \in db.models :
                /\ m.name = name /\ ~m.disabled
                /\ \E pb \in Joined(db) :
                    /\ Reachable(pb)
                    /\ \E i \in DOMAIN pb[1].list :
                        pb[1].list[i].model = m.name /\ Open(pb[1].list[i], pb[2].path)
    BY DEF ListAvailableModelNames, Reachable
  <2> QED
    BY <2>1, <2>2 DEF Servable, Enabled
<1>2. ASSUME NEW name \in ModelNames
      PROVE  name \in ListAvailableModelNames(db) <=>
                \E b \in db.bindings : resolveProviders(db, b.path, [has |-> TRUE, routed |-> name]) # {}
  <2> DEFINE mode == [has |-> TRUE, routed |-> name]
  <2>1. mode.routed = name
    OBVIOUS
  <2> HIDE DEF mode
  <2>2. \A b : resolveProviders(db, b.path, mode) =
                    {r \in AllRows(name) : r.path = b.path /\ r.url # Empty /\ r.keyed}
    BY <2>1, PathRows
  <2>3. ASSUME NEW b \in db.bindings, resolveProviders(db, b.path, mode) # {}
        PROVE  \E pb \in Joined(db) : Servable(name, pb) /\ Reachable(pb)
    <3>1. PICK r \in AllRows(name) : r.url # Empty /\ r.keyed
      BY <2>2, <2>3
    <3>2. PICK pb \in Joined(db) : Made(r, pb) /\ Servable(name, pb)
      BY AllRowsFacts
    <3> QED
      BY <3>1, <3>2 DEF Made, Reachable
  <2>4. ASSUME NEW pb \in Joined(db), Servable(name, pb), Reachable(pb)
        PROVE  \E b \in db.bindings : resolveProviders(db, b.path, mode) # {}
    <3>1. PICK r \in AllRows(name) : Made(r, pb)
      BY <2>4, AllRowsFacts
    <3>2. pb[2] \in db.bindings
      BY DEF Joined
    <3>3. r.path = pb[2].path /\ r.url # Empty /\ r.keyed
      BY <2>4, <3>1 DEF Made, Reachable
    <3> QED
      BY <2>2, <3>2, <3>3
  <2> QED
    BY <1>1, <2>3, <2>4 DEF mode
<1>3. ASSUME NEW name \in ModelNames, NEW route \in Routes, NEW streaming \in BOOLEAN,
             {} \notin resolveProvidersByTypes(db, [has |-> TRUE, routed |-> name],
                                            candidateEndpointTypes(route, streaming), route.source)
      PROVE  name \in ListAvailableModelNames(db)
  <2> DEFINE mode == [has |-> TRUE, routed |-> name]
  <2> DEFINE types == candidateEndpointTypes(route, streaming)
  <2> DEFINE rows == Usable(UnifiedRows(db, mode, types))
  <2>1. rows # {}
    <3> SUFFICES ASSUME rows = {} PROVE {} \in dedupeUnifiedRows(rows, route.source)
      BY <1>3 DEF resolveProvidersByTypes
    <3> HIDE DEF rows
    <3> QED
      BY DEF dedupeUnifiedRows
  <2>2. PICK x \in rows : TRUE
    BY <2>1
  <2>3. mode \in Modes /\ mode.routed = name
    <3>1. name # Empty
      BY RoutingAssumption
    <3>2. mode = [has |-> name # Empty, routed |-> name]
      BY <3>1
    <3> QED
      BY <3>2 DEF Modes
  <2> HIDE DEF mode
  <2>4. \E pb \in Joined(db) : Servable(name, pb) /\ Reachable(pb)
    BY <2>2, <2>3, TypeRows
  <2> QED
    BY <1>1, <2>4
<1>4. ASSUME NEW name \in ModelNames, Callable(name)
      PROVE  name \in ListAvailableModelNames(db)
  <2> DEFINE asked == [has |-> TRUE, routed |-> name]
  <2>1. CASE \E e \in db.endpoints : e.named /\ resolveProviders(db, e.path, asked) # {}
    <3>1. PICK e \in db.endpoints : resolveProviders(db, e.path, asked) # {}
      BY <2>1
    <3>2. asked.routed = name
      OBVIOUS
    <3> HIDE DEF asked
    <3>3. PICK r \in AllRows(name) : r.path = e.path /\ r.url # Empty /\ r.keyed
      BY <3>1, <3>2, PathRows
    <3>4. PICK pb \in Joined(db) : Made(r, pb) /\ Servable(name, pb)
      BY AllRowsFacts
    <3> QED
      BY <1>1, <3>3, <3>4 DEF Made, Reachable
  <2>2. CASE \E route \in Routes, streaming \in BOOLEAN :
                {} \notin resolveProvidersByTypes(db, asked, candidateEndpointTypes(route, streaming),
                                                 route.source)
    BY <1>3, <2>2
  <2> QED
    BY <1>4, <2>1, <2>2 DEF Callable
<1>5. ASSUME NEW name \in ModelNames, name \in ListAvailableModelNames(db)
      PROVE  \/ Callable(name)
             \/ \E b \in db.bindings :
                  Astray(b) /\ resolveProviders(db, b.path, [has |-> TRUE, routed |-> name]) # {}
  <2> DEFINE asked == [has |-> TRUE, routed |-> name]
  <2>1. PICK b \in db.bindings : resolveProviders(db, b.path, asked) # {}
    BY <1>2, <1>5
  <2>2. CASE ~Astray(b)
    <3>1. PICK e \in GetEndpointByPath(db, b.path) : e.named
      BY <2>2 DEF Astray
    <3>2. e \in db.endpoints /\ e.path = b.path
      BY DEF GetEndpointByPath
    <3> HIDE DEF asked
    <3>3. \E d \in db.endpoints : d.named /\ resolveProviders(db, d.path, asked) # {}
      BY <2>1, <3>1, <3>2
    <3> QED
      BY <3>3 DEF Callable, asked
  <2> QED
    BY <2>1, <2>2
<1>6. ListAgreesWithRoutes
  BY <1>4, <1>5 DEF ListAgreesWithRoutes
<1> QED
  BY <1>6, PTL

-----------------------------------------------------------------------------
(* Candidates in their order.                                               *)

\* What compareCandidateOrder needs of rows.
Sortable(rows) ==
    /\ IsFiniteSet(rows)
    /\ \A r \in rows : r.priority \in Int /\ r.providerPriority \in Int /\ r.provider \in Nat

\* Whatever order ties are left in, there is one, and it has each row once.
LEMMA SortedRows ==
    ASSUME NEW rows, Sortable(rows)
    PROVE  /\ Cardinality(rows) \in Nat
           /\ Sorted(rows) # {}
           /\ \A s \in Sorted(rows) :
                /\ DOMAIN s = 1 .. Cardinality(rows)
                /\ \A i \in DOMAIN s : s[i] \in rows
                /\ \A i, j \in DOMAIN s : s[i] = s[j] => i = j
                /\ \A r \in rows : \E i \in DOMAIN s : s[i] = r
                /\ \A i, j \in DOMAIN s : i < j => ~Precedes(s[j], s[i])
<1> DEFINE n == Cardinality(rows)
<1>1. n \in Nat /\ IsFiniteSet(1 .. n) /\ Cardinality(1 .. n) = n /\ IsFiniteSet(rows)
  BY FS_CardinalityType, FS_Interval DEF Sortable
<1>2. PICK place \in Bijection(rows, 1 .. n) : TRUE
  <2>1. ExistsBijection(rows, 1 .. n)
    BY <1>1, FS_SameCardinalityBij
  <2> QED
    BY <2>1 DEF ExistsBijection
<1>3. \A r \in rows : place[r] \in Nat
  BY <1>2 DEF Bijection, Injection
<1>4. \A r, t \in rows : place[r] = place[t] => r = t
  BY <1>2 DEF Bijection, Injection, IsInjective
<1> DEFINE sum == [r \in rows |-> r.priority + r.providerPriority]
<1> DEFINE id == [r \in rows |-> r.provider]
<1>5. \A r \in rows : sum[r] \in Int /\ id[r] \in Nat
  BY DEF Sortable
<1>6. \A r, t \in rows : Precedes(r, t) <=> sum[r] > sum[t] \/ (sum[r] = sum[t] /\ id[r] > id[t])
  BY DEF Precedes
<1> DEFINE R == {rt \in rows \X rows : /\ ~Precedes(rt[2], rt[1])
                                       /\ ~Precedes(rt[1], rt[2]) => place[rt[1]] < place[rt[2]]}
<1>7. \A r, t \in rows : <<r, t>> \in R <=> /\ ~Precedes(t, r)
                                            /\ ~Precedes(r, t) => place[r] < place[t]
  OBVIOUS
<1> HIDE DEF sum, id, R
<1>8. IsOrderOf(R, rows)
  <2>1. \A r \in rows : <<r, r>> \notin R
    <3> SUFFICES ASSUME NEW r \in rows PROVE <<r, r>> \notin R
      OBVIOUS
    <3>1. ~Precedes(r, r)
      BY <1>5, <1>6
    <3>2. ~(place[r] < place[r])
      BY <1>3
    <3> QED
      BY <1>7, <3>1, <3>2
  <2>2. \A r, t \in rows : <<r, t>> \in R \/ <<t, r>> \in R \/ r = t
    <3> SUFFICES ASSUME NEW r \in rows, NEW t \in rows, r # t PROVE <<r, t>> \in R \/ <<t, r>> \in R
      OBVIOUS
    <3>1. place[r] < place[t] \/ place[t] < place[r]
      BY <1>3, <1>4
    <3>2. sum[r] \in Int /\ sum[t] \in Int /\ id[r] \in Nat /\ id[t] \in Nat
      BY <1>5
    <3>3. ~(Precedes(r, t) /\ Precedes(t, r))
      BY <1>6, <3>2
    <3> QED
      BY <1>7, <3>1, <3>3
  <2>3. \A r, t, u \in rows : <<r, t>> \in R /\ <<t, u>> \in R => <<r, u>> \in R
    <3> SUFFICES ASSUME NEW r \in rows, NEW t \in rows, NEW u \in rows, <<r, t>> \in R, <<t, u>> \in R
                 PROVE  <<r, u>> \in R
      OBVIOUS
    <3>1. /\ sum[r] \in Int /\ sum[t] \in Int /\ sum[u] \in Int
          /\ id[r] \in Nat /\ id[t] \in Nat /\ id[u] \in Nat
          /\ place[r] \in Nat /\ place[t] \in Nat /\ place[u] \in Nat
      BY <1>3, <1>5
    <3>2. ~(sum[t] > sum[r] \/ (sum[t] = sum[r] /\ id[t] > id[r]))
      BY <1>6, <1>7
    <3>3. ~(sum[u] > sum[t] \/ (sum[u] = sum[t] /\ id[u] > id[t]))
      BY <1>6, <1>7
    <3>4. sum[r] = sum[t] /\ id[r] = id[t] => place[r] < place[t]
      BY <1>6, <1>7, <3>1
    <3>5. sum[t] = sum[u] /\ id[t] = id[u] => place[t] < place[u]
      BY <1>6, <1>7, <3>1
    <3>6. ~(sum[u] > sum[r] \/ (sum[u] = sum[r] /\ id[u] > id[r]))
      BY <3>1, <3>2, <3>3
    <3>7. ~(sum[r] > sum[u] \/ (sum[r] = sum[u] /\ id[r] > id[u])) => place[r] < place[u]
      BY <3>1, <3>2, <3>3, <3>4, <3>5
    <3> QED
      BY <1>6, <1>7, <3>6, <3>7
  <2> QED
    BY <2>1, <2>2, <2>3 DEF IsOrderOf
<1> DEFINE q == InOrder(rows, R)
<1>9. /\ q \in [1 .. n -> rows]
      /\ \A i, j \in 1 .. n : i < j => <<q[i], q[j]>> \in R
      /\ DOMAIN q = 1 .. n /\ \A i \in 1 .. n : q[i] \in rows
  BY <1>1, <1>8, InOrderFacts
<1> HIDE DEF q
<1>10. q \in Sorted(rows)
  <2>1. \A i, j \in 1 .. n : i < j => ~Precedes(q[j], q[i])
    BY <1>7, <1>9
  <2>2. \A i, j \in 1 .. n : i # j => q[i] # q[j]
    <3> SUFFICES ASSUME NEW i \in 1 .. n, NEW j \in 1 .. n, i < j, q[i] = q[j] PROVE FALSE
      BY <1>1
    <3>1. <<q[i], q[i]>> \in R
      BY <1>9
    <3> QED
      BY <1>8, <1>9, <3>1 DEF IsOrderOf
  <2>3. q \in SetToSeqs(rows)
    BY <1>9, <2>2 DEF SetToSeqs
  <2> QED
    BY <1>9, <2>1, <2>3 DEF Sorted
<1>11. ASSUME NEW s \in Sorted(rows)
       PROVE  /\ DOMAIN s = 1 .. Cardinality(rows)
              /\ \A i \in DOMAIN s : s[i] \in rows
              /\ \A i, j \in DOMAIN s : s[i] = s[j] => i = j
              /\ \A r \in rows : \E i \in DOMAIN s : s[i] = r
              /\ \A i, j \in DOMAIN s : i < j => ~Precedes(s[j], s[i])
  <2>1. s \in SetToSeqs(rows) /\ \A i, j \in DOMAIN s : i < j => ~Precedes(s[j], s[i])
    BY DEF Sorted
  <2>2. s \in [1 .. n -> rows] /\ \A i, j \in 1 .. n : i # j => s[i] # s[j]
    BY <2>1 DEF SetToSeqs
  <2>3. s \in Injection(1 .. n, rows)
    BY <2>2 DEF Injection, IsInjective
  <2>4. s \in Surjection(1 .. n, rows)
    BY <1>1, <2>3, FS_Injection
  <2> QED
    BY <2>1, <2>2, <2>4 DEF Surjection
<1> QED
  BY <1>1, <1>10, <1>11

\* The rows of the tables can be sorted.
LEMMA AllRowsSortable ==
    ASSUME TablesInv, NEW name
    PROVE  /\ IsFiniteSet(AllRows(name))
           /\ \A pb \in Joined(db) :
                /\ pb[1] \in db.providers /\ pb[2] \in db.bindings
                /\ pb[1].id \in Nat /\ pb[1].priority \in Int
                /\ DOMAIN pb[1].list \in SUBSET Nat
                /\ \A i \in DOMAIN pb[1].list : pb[1].list[i].priority \in Int
<1>1. IsFiniteSet(db.providers) /\ IsFiniteSet(db.bindings) /\ db.providers \subseteq Providers
  BY DEF TablesInv, IsDB
<1>2. Joined(db) \in SUBSET (db.providers \X db.bindings)
  BY DEF Joined
<1>3. IsFiniteSet(Joined(db))
  BY <1>1, <1>2, FS_Product, FS_Subset
<1>4. ASSUME NEW p \in db.providers
      PROVE  /\ p.id \in Nat /\ p.priority \in Int /\ p.list \in Seq(Entries)
             /\ \A i \in DOMAIN p.list : p.list[i].priority \in Int
             /\ IsFiniteSet(DOMAIN p.list) /\ DOMAIN p.list \in SUBSET Nat
  <2>1. p.id \in Nat /\ p.priority \in Int /\ p.list \in Seq(Entries)
    BY <1>1 DEF Providers
  <2>2. DOMAIN p.list = 1 .. Len(p.list) /\ Len(p.list) \in Nat
    BY <2>1
  <2>3. \A i \in DOMAIN p.list : p.list[i] \in Entries
    BY <2>1
  <2>4. \A i \in DOMAIN p.list : p.list[i].priority \in Int
    BY <2>3 DEF Entries
  <2>5. IsFiniteSet(1 .. Len(p.list))
    BY <2>2, FS_Interval
  <2> QED
    BY <2>1, <2>2, <2>4, <2>5
<1>5. IsFiniteSet({PlainRow(pb) : pb \in Joined(db)})
  <2> DEFINE f == [pb \in Joined(db) |-> PlainRow(pb)]
  <2>1. f \in Surjection(Joined(db), {PlainRow(pb) : pb \in Joined(db)})
    BY DEF Surjection
  <2> QED
    BY <1>3, <2>1, FS_Surjection
<1>6. IsFiniteSet(UNION {ModelRows(pb, name) : pb \in Joined(db)})
  <2> DEFINE S == {ModelRows(pb, name) : pb \in Joined(db)}
  <2> DEFINE f == [pb \in Joined(db) |-> ModelRows(pb, name)]
  <2>1. f \in Surjection(Joined(db), S)
    BY DEF Surjection
  <2>2. \A pb \in Joined(db) : IsFiniteSet(ModelRows(pb, name))
    <3> SUFFICES ASSUME NEW pb \in Joined(db) PROVE IsFiniteSet(ModelRows(pb, name))
      OBVIOUS
    <3> DEFINE p == pb[1]
    <3> DEFINE Row(i) == With(Columns(p, pb[2]), [model |-> name, upstream |-> p.list[i].upstream,
                                                priority |-> p.list[i].priority, entry |-> i])
    <3> DEFINE serving == {i \in DOMAIN p.list : p.list[i].model = name /\ Open(p.list[i], pb[2].path)}
    <3> DEFINE g == [i \in serving |-> Row(i)]
    <3>1. ModelRows(pb, name) = {Row(i) : i \in serving}
      BY DEF ModelRows
    <3>2. p \in db.providers
      BY <1>2
    <3>3. serving \in SUBSET DOMAIN p.list
      OBVIOUS
    <3> HIDE DEF p, Row, serving
    <3>4. IsFiniteSet(serving)
      BY <1>4, <3>2, <3>3, FS_Subset
    <3>5. g \in Surjection(serving, {Row(i) : i \in serving})
      BY DEF Surjection
    <3> HIDE DEF g
    <3> QED
      BY <3>1, <3>4, <3>5, FS_Surjection
  <2> HIDE DEF f
  <2>3. IsFiniteSet(S)
    BY <1>3, <2>1, FS_Surjection
  <2>4. \A T \in S : IsFiniteSet(T)
    BY <2>2
  <2> HIDE DEF S
  <2> QED
    BY <2>3, <2>4, FS_UNION DEF S
<1>7. IsFiniteSet(AllRows(name))
  BY <1>5, <1>6, FS_EmptySet DEF AllRows
<1>8. \A pb \in Joined(db) : pb[1] \in db.providers /\ pb[2] \in db.bindings
  BY <1>2
<1> QED
  BY <1>4, <1>7, <1>8

\* A path's rows can be sorted.
LEMMA PathRowsSortable ==
    ASSUME TablesInv, NEW path_, NEW mode
    PROVE  Sortable(resolveProviders(db, path_, mode))
<1> DEFINE rows == resolveProviders(db, path_, mode)
<1>1. rows \in SUBSET AllRows(mode.routed)
  BY PathRows
<1>2. IsFiniteSet(rows)
  BY <1>1, AllRowsSortable, FS_Subset
<1>3. ASSUME NEW r \in rows
      PROVE  r.priority \in Int /\ r.providerPriority \in Int /\ r.provider \in Nat
  <2>1. PICK pb \in Joined(db) :
            /\ Made(r, pb)
            /\ r.priority = 0 \/ \E i \in DOMAIN pb[1].list : r.priority = pb[1].list[i].priority
    BY <1>1, AllRowsFacts
  <2> QED
    BY <2>1, AllRowsSortable DEF Made
<1> QED
  BY <1>2, <1>3 DEF Sortable

\* As can a unified route's.
LEMMA TypeRowsSortable ==
    ASSUME TablesInv, NEW mode \in Modes, NEW types
    PROVE  Sortable(Usable(UnifiedRows(db, mode, types)))
<1> DEFINE name == mode.routed
<1> DEFINE all == UnifiedRows(db, mode, types)
<1> DEFINE rows == Usable(all)
<1> DEFINE Beside(r, e) == With(r, [type |-> e.type, prefix |-> e.prefix, inherited |-> e.resolver])
<1> DEFINE Pairs == {re \in AllRows(name) \X db.endpoints : re[2].path = re[1].path /\ re[2].type \in types}
<1> DEFINE f == [re \in Pairs |-> Beside(re[1], re[2])]
<1>1. all \in SUBSET {f[re] : re \in Pairs}
  <2>1. all \in SUBSET UNION {{Beside(r, e) : e \in {x \in db.endpoints : x.path = r.path /\ x.type \in types}} :
                                r \in AllRows(name)}
    BY UnifiedShape
  <2>2. ASSUME NEW x \in all PROVE \E re \in Pairs : x = f[re]
    <3>1. PICK r \in AllRows(name), e \in db.endpoints : e.path = r.path /\ e.type \in types /\ x = Beside(r, e)
      BY <2>1
    <3>2. <<r, e>> \in Pairs
      BY <3>1
    <3>3. f[<<r, e>>] = Beside(r, e)
      BY <3>2
    <3> QED
      BY <3>1, <3>2, <3>3
  <2> QED
    BY <2>2
<1>2. f \in Surjection(Pairs, {f[re] : re \in Pairs})
  BY DEF Surjection
<1>3. IsFiniteSet(Pairs)
  <2>1. IsFiniteSet(AllRows(name)) /\ IsFiniteSet(db.endpoints)
    BY AllRowsSortable DEF TablesInv, IsDB
  <2>2. IsFiniteSet(AllRows(name) \X db.endpoints)
    BY <2>1, FS_Product
  <2>3. Pairs \in SUBSET (AllRows(name) \X db.endpoints)
    OBVIOUS
  <2> HIDE DEF Pairs
  <2> QED
    BY <2>2, <2>3, FS_Subset
<1>4. rows \in SUBSET all
  BY DEF Usable
<1>5. IsFiniteSet(rows)
  <2> HIDE DEF f, Pairs, all, rows
  <2>1. IsFiniteSet({f[re] : re \in Pairs})
    BY <1>2, <1>3, FS_Surjection
  <2>2. rows \in SUBSET {f[re] : re \in Pairs}
    BY <1>1, <1>4
  <2> QED
    BY <2>1, <2>2, FS_Subset
<1>6. ASSUME NEW r \in rows
      PROVE  r.priority \in Int /\ r.providerPriority \in Int /\ r.provider \in Nat
  <2>1. PICK pb \in Joined(db) :
            /\ Made(r, pb)
            /\ r.priority = 0 \/ \E i \in DOMAIN pb[1].list : r.priority = pb[1].list[i].priority
    BY TypeRows
  <2> QED
    BY <2>1, AllRowsSortable DEF Made
<1> QED
  BY <1>5, <1>6 DEF Sortable

\* What each attempt goes by: its own row's provider and path, and of some row
\* of these the URL.
Goes(q, s) ==
    /\ DOMAIN q = DOMAIN s
    /\ \A i \in DOMAIN s :
        /\ q[i].row = s[i]
        /\ q[i].side.provider = s[i].provider /\ q[i].side.path = s[i].path
        /\ \E j \in DOMAIN s : /\ q[i].side.provider = s[j].provider
                               /\ q[i].side.path = s[j].path /\ q[i].side.url = s[j].url

\* lookupCandidateSidecar finds an item with the candidate's own key.
LEMMA SidecarFacts ==
    ASSUME NEW n \in Nat, NEW items, DOMAIN items = 1 .. n, NEW i \in 1 .. n
    PROVE  \E j \in 1 .. n : items[j].key = items[i].key /\ Sidecar(items, i) = items[j].side
<1> DEFINE S == {j \in DOMAIN items : items[j].key = items[i].key}
<1>1. S \in SUBSET (1 .. n) /\ i \in S
  OBVIOUS
<1>2. Sidecar(items, i) = items[Max(S)].side
  BY DEF Sidecar
<1>3. \A j \in S : j \in 1 .. n /\ items[j].key = items[i].key
  OBVIOUS
<1> HIDE DEF S
<1>4. IsFiniteSet(S)
  <2>1. IsFiniteSet(1 .. n)
    BY FS_Interval
  <2> QED
    BY <1>1, <2>1, FS_Subset
<1>5. Max(S) \in S
  <2>1. S \subseteq Nat /\ S # {}
    BY <1>1
  <2> QED
    BY <1>4, <2>1, MaxFacts
<1> QED
  BY <1>2, <1>3, <1>5

\* The attempts of a path route.
LEMMA PathGoes ==
    ASSUME TablesInv, NEW e, NEW suffix, NEW mode, NEW q \in PathAttempts(db, e, suffix, mode)
    PROVE  \E s \in Sorted(resolveProviders(db, e.path, mode)) : Goes(q, s)
<1> DEFINE rows == resolveProviders(db, e.path, mode)
<1> DEFINE Items(s) == buildPathCandidateSet(s, e, suffix)
<1>1. PICK s \in Sorted(rows) :
            q = [i \in DOMAIN Items(s) |-> [row |-> Items(s)[i].row, side |-> Sidecar(Items(s), i)]]
  BY DEF PathAttempts
<1> DEFINE n == Cardinality(rows)
<1>2. n \in Nat /\ DOMAIN s = 1 .. n /\ \A i \in 1 .. n : s[i] \in rows
  BY PathRowsSortable, SortedRows
<1>3. \A r \in rows : r.path = e.path
  BY PathRows
<1> DEFINE items == Items(s)
<1>4. DOMAIN items = DOMAIN s /\ \A i \in DOMAIN s :
            /\ items[i].key = <<s[i].provider>> /\ items[i].row = s[i]
            /\ items[i].side.provider = s[i].provider /\ items[i].side.url = s[i].url
            /\ items[i].side.path = e.path
  BY DEF buildPathCandidateSet
<1>5. q = [i \in DOMAIN items |-> [row |-> items[i].row, side |-> Sidecar(items, i)]]
  BY <1>1
<1> HIDE DEF items, n, rows
<1>6. DOMAIN q = DOMAIN s /\ \A i \in DOMAIN s : q[i].row = s[i] /\ q[i].side = Sidecar(items, i)
  BY <1>4, <1>5
<1>7. ASSUME NEW i \in DOMAIN s
      PROVE  /\ q[i].side.provider = s[i].provider /\ q[i].side.path = s[i].path
             /\ \E j \in DOMAIN s : /\ q[i].side.provider = s[j].provider
                                    /\ q[i].side.path = s[j].path /\ q[i].side.url = s[j].url
  <2>1. PICK j \in 1 .. n : items[j].key = items[i].key /\ Sidecar(items, i) = items[j].side
    <3>1. DOMAIN items = 1 .. n /\ i \in 1 .. n /\ n \in Nat
      BY <1>2, <1>4
    <3> QED
      BY <3>1, SidecarFacts
  <2>2. s[j].provider = s[i].provider
    BY <1>2, <1>4, <2>1
  <2>3. s[i].path = e.path /\ s[j].path = e.path
    BY <1>2, <1>3
  <2> QED
    BY <1>2, <1>4, <1>6, <2>1, <2>2, <2>3
<1>8. Goes(q, s)
  BY <1>6, <1>7 DEF Goes
<1> QED
  BY <1>8 DEF rows

\* The attempts of a unified route.
LEMMA UnifiedGoes ==
    ASSUME NEW rows, Sortable(rows), NEW suffix, NEW s \in Sorted(rows), NEW q,
           LET items == buildUnifiedCandidateSet(s, suffix)
           IN q = [i \in DOMAIN items |-> [row |-> items[i].row, side |-> Sidecar(items, i)]]
    PROVE  Goes(q, s) /\ Len(q) = Cardinality(rows)
<1> DEFINE n == Cardinality(rows)
<1>1. n \in Nat /\ DOMAIN s = 1 .. n
  BY SortedRows
<1> DEFINE items == buildUnifiedCandidateSet(s, suffix)
<1>2. DOMAIN items = DOMAIN s /\ \A i \in DOMAIN s :
            /\ items[i].key = <<s[i].provider, s[i].path>> /\ items[i].row = s[i]
            /\ items[i].side.provider = s[i].provider /\ items[i].side.url = s[i].url
            /\ items[i].side.path = s[i].path
  BY DEF buildUnifiedCandidateSet
<1>3. q = [i \in DOMAIN items |-> [row |-> items[i].row, side |-> Sidecar(items, i)]]
  OBVIOUS
<1> HIDE DEF items, n
<1>4. DOMAIN q = DOMAIN s /\ \A i \in DOMAIN s : q[i].row = s[i] /\ q[i].side = Sidecar(items, i)
  BY <1>2, <1>3
<1>5. ASSUME NEW i \in DOMAIN s
      PROVE  /\ q[i].side.provider = s[i].provider /\ q[i].side.path = s[i].path
             /\ \E j \in DOMAIN s : /\ q[i].side.provider = s[j].provider
                                    /\ q[i].side.path = s[j].path /\ q[i].side.url = s[j].url
  <2>1. PICK j \in 1 .. n : items[j].key = items[i].key /\ Sidecar(items, i) = items[j].side
    <3>1. DOMAIN items = 1 .. n /\ i \in 1 .. n /\ n \in Nat
      BY <1>1, <1>2
    <3> QED
      BY <3>1, SidecarFacts
  <2>2. s[j].provider = s[i].provider /\ s[j].path = s[i].path
    BY <1>1, <1>2, <2>1
  <2> QED
    BY <1>1, <1>2, <1>4, <2>1, <2>2
<1>6. Len(q) = n
  <2>1. q = [i \in 1 .. n |-> [row |-> items[i].row, side |-> Sidecar(items, i)]]
    BY <1>1, <1>2, <1>3
  <2> QED
    BY <1>1, <2>1
<1> QED
  BY <1>4, <1>5, <1>6 DEF Goes, n

\* Rows that were made of providers and bindings.
Drawn(rows) == \A r \in rows : \E pb \in Joined(db) : Made(r, pb)

\* An attempt goes by a binding of its own provider.
LEMMA BindingFacts ==
    ASSUME NEW rows, Sortable(rows), Drawn(rows), NEW es, \A r \in rows : \E e \in es : e.path = r.path,
           NEW s \in Sorted(rows), NEW q, Goes(q, s)
    PROVE  ByABinding(q, es)
<1>1. \A i \in DOMAIN s : s[i] \in rows
  BY SortedRows
<1>2. \A pb \in Joined(db) : pb[2] \in db.bindings /\ pb[2].provider = pb[1].id
  BY DEF Joined
<1>3. ASSUME NEW i \in DOMAIN q
      PROVE  /\ q[i].side.provider = q[i].row.provider
             /\ q[i].side.path \in {e.path : e \in es}
             /\ <<q[i].side.provider, q[i].side.path, q[i].side.url>>
                    \in {<<c.provider, c.path, c.url>> : c \in db.bindings}
  <2>1. PICK j \in DOMAIN s : /\ q[i].side.provider = s[j].provider
                              /\ q[i].side.path = s[j].path /\ q[i].side.url = s[j].url
    BY DEF Goes
  <2>2. PICK pb \in Joined(db) : Made(s[j], pb)
    BY <1>1, <2>1 DEF Drawn
  <2>3. s[j].provider = pb[2].provider /\ s[j].path = pb[2].path /\ s[j].url = pb[2].url
    BY <1>2, <2>2 DEF Made
  <2>4. PICK e \in es : e.path = s[j].path
    BY <1>1
  <2>5. q[i].side.provider = q[i].row.provider
    BY DEF Goes
  <2> QED
    BY <1>2, <2>1, <2>3, <2>4, <2>5
<1> QED
  BY <1>3 DEF ByABinding

\* The dashboard's list has each provider at one place, in GetProviders' order.
LEMMA ListedFacts ==
    ASSUME TablesInv
    PROVE  LET listed == GetProviders(db)
               Place(id) == CHOOSE i \in DOMAIN listed : listed[i].id = id
           IN \A p, r \in db.providers :
                /\ Place(p.id) \in Nat
                /\ Listed(p, r) => Place(p.id) <= Place(r.id)
<1> DEFINE S == db.providers
<1> DEFINE R == {pq \in S \X S : Listed(pq[1], pq[2])}
<1> DEFINE listed == GetProviders(db)
<1> DEFINE Place(id) == CHOOSE i \in DOMAIN listed : listed[i].id = id
<1>1. IsFiniteSet(S) /\ \A p \in S : p.id \in Nat /\ p.priority \in Int
  BY DEF TablesInv, IsDB, Providers
<1>2. \A p, r \in S : p.id = r.id => p = r
  BY DEF TablesInv, IsDB
<1>3. listed = InOrder(S, R)
  BY DEF GetProviders
<1>4. \A p, r \in S : <<p, r>> \in R <=> Listed(p, r)
  OBVIOUS
<1> HIDE DEF S, R, listed
<1>5. IsOrderOf(R, S)
  <2>1. \A p \in S : ~Listed(p, p)
    BY <1>1 DEF Listed
  <2>2. \A p, r \in S : Listed(p, r) \/ Listed(r, p) \/ p = r
    BY <1>1, <1>2 DEF Listed
  <2>3. \A p, r, t \in S : Listed(p, r) /\ Listed(r, t) => Listed(p, t)
    BY <1>1 DEF Listed
  <2> QED
    BY <1>4, <2>1, <2>2, <2>3 DEF IsOrderOf
<1> DEFINE n == Cardinality(S)
<1>6. /\ n \in Nat /\ DOMAIN listed = 1 .. n
      /\ \A i \in 1 .. n : listed[i] \in S
      /\ \A i, j \in 1 .. n : i < j => <<listed[i], listed[j]>> \in R
      /\ \A p \in S : \E i \in 1 .. n : listed[i] = p
  BY <1>1, <1>3, <1>5, InOrderFacts
<1> HIDE DEF n
<1>7. \A p \in S : Place(p.id) \in 1 .. n /\ listed[Place(p.id)] = p
  <2> SUFFICES ASSUME NEW p \in S PROVE Place(p.id) \in 1 .. n /\ listed[Place(p.id)] = p
    OBVIOUS
  <2>1. \E i \in DOMAIN listed : listed[i].id = p.id
    BY <1>6
  <2>2. Place(p.id) \in DOMAIN listed /\ listed[Place(p.id)].id = p.id
    BY <2>1
  <2> HIDE DEF Place
  <2> QED
    BY <1>2, <1>6, <2>2
<1>8. ASSUME NEW p \in S, NEW r \in S
      PROVE  Place(p.id) \in Nat /\ (Listed(p, r) => Place(p.id) <= Place(r.id))
  <2> DEFINE i == Place(p.id)
  <2> DEFINE j == Place(r.id)
  <2>1. i \in 1 .. n /\ j \in 1 .. n /\ listed[i] = p /\ listed[j] = r
    BY <1>7
  <2> HIDE DEF i, j
  <2>2. j < i => <<r, p>> \in R
    BY <1>6, <2>1
  <2>3. Listed(p, r) => ~(<<r, p>> \in R)
    BY <1>4, <1>5 DEF IsOrderOf
  <2>4. i \in Nat /\ j \in Nat
    BY <2>1
  <2> QED
    BY <2>2, <2>3, <2>4 DEF i, j
<1> QED
  BY <1>8 DEF S, listed

\* Attempts come in that order where no entry has a priority of its own.
LEMMA InListedOrderFacts ==
    ASSUME TablesInv, NEW rows, Sortable(rows), Drawn(rows),
           NEW s \in Sorted(rows), NEW q, Goes(q, s)
    PROVE  InListedOrder(q)
<1> DEFINE listed == GetProviders(db)
<1> DEFINE Place(id) == CHOOSE i \in DOMAIN listed : listed[i].id = id
<1>1. \A p, r \in db.providers : Place(p.id) \in Nat /\ (Listed(p, r) => Place(p.id) <= Place(r.id))
  BY ListedFacts
<1> HIDE DEF Place
<1>2. DOMAIN s = 1 .. Cardinality(rows) /\ (\A i \in DOMAIN s : s[i] \in rows)
      /\ \A i, j \in DOMAIN s : i < j => ~Precedes(s[j], s[i])
  BY SortedRows
<1>3. ASSUME \A i \in DOMAIN q : q[i].row.priority = 0, NEW i \in DOMAIN q, NEW j \in DOMAIN q, i < j
      PROVE  Place(q[i].side.provider) <= Place(q[j].side.provider)
  <2>1. /\ i \in DOMAIN s /\ j \in DOMAIN s
        /\ q[i].side.provider = s[i].provider /\ q[j].side.provider = s[j].provider
        /\ s[i].priority = 0 /\ s[j].priority = 0
    BY <1>3 DEF Goes
  <2>2. PICK x \in Joined(db) : Made(s[i], x)
    BY <1>2, <2>1 DEF Drawn
  <2>3. PICK y \in Joined(db) : Made(s[j], y)
    BY <1>2, <2>1 DEF Drawn
  <2> DEFINE p == x[1]
  <2> DEFINE r == y[1]
  <2>4. /\ p \in db.providers /\ r \in db.providers
        /\ p.id \in Nat /\ r.id \in Nat /\ p.priority \in Int /\ r.priority \in Int
    BY AllRowsSortable
  <2>5. /\ s[i].provider = p.id /\ s[j].provider = r.id
        /\ s[i].providerPriority = p.priority /\ s[j].providerPriority = r.priority
    BY <2>2, <2>3 DEF Made
  <2> HIDE DEF p, r
  <2>6. ~Precedes(s[j], s[i])
    BY <1>2, <1>3, <2>1
  <2>7. Listed(p, r) \/ p.id = r.id
    BY <2>1, <2>4, <2>5, <2>6 DEF Precedes, Listed
  <2> QED
    BY <1>1, <2>1, <2>4, <2>5, <2>7
<1> QED
  BY <1>3 DEF InListedOrder, Place

\* Whom attempts try.
LEMMA TriedFacts ==
    ASSUME NEW rows, Sortable(rows), NEW s \in Sorted(rows), NEW q, Goes(q, s)
    PROVE  Tried(q) = {r.provider : r \in rows}
<1>1. (\A i \in DOMAIN s : s[i] \in rows) /\ \A r \in rows : \E i \in DOMAIN s : s[i] = r
  BY SortedRows
<1>2. DOMAIN q = DOMAIN s /\ \A i \in DOMAIN s : q[i].side.provider = s[i].provider
  BY DEF Goes
<1>3. Tried(q) = {s[i].provider : i \in DOMAIN s}
  BY <1>2 DEF Tried
<1> QED
  BY <1>1, <1>3

Reach(e, mode) == {r.provider : r \in resolveProviders(db, e.path, mode)}

\* A path route tries those its rows name, in any of the orders they may come in.
LEMMA ReachFacts ==
    ASSUME TablesInv, NEW e, NEW suffix, NEW mode
    PROVE  UNION {Tried(q) : q \in PathAttempts(db, e, suffix, mode)} = Reach(e, mode)
<1> DEFINE rows == resolveProviders(db, e.path, mode)
<1> DEFINE A == PathAttempts(db, e, suffix, mode)
<1>1. Sortable(rows)
  BY PathRowsSortable
<1>2. \A q \in A : Tried(q) = Reach(e, mode)
  <2> SUFFICES ASSUME NEW q \in A PROVE Tried(q) = Reach(e, mode)
    OBVIOUS
  <2>1. PICK s \in Sorted(rows) : Goes(q, s)
    BY PathGoes
  <2> QED
    BY <1>1, <2>1, TriedFacts DEF Reach
<1>3. A # {}
  <2>1. PICK s \in Sorted(rows) : TRUE
    BY <1>1, SortedRows
  <2> QED
    BY <2>1 DEF PathAttempts
<1> HIDE DEF A
<1>4. {Tried(q) : q \in A} = {Reach(e, mode)}
  BY <1>2, <1>3
<1> QED
  BY <1>4 DEF A

\* A unified route's rows are those of the paths of its types.
LEMMA RowsAgree ==
    ASSUME NEW mode \in Modes, NEW types
    PROVE  LET rows == Usable(UnifiedRows(db, mode, types))
               served == {e \in db.endpoints : e.type \in types}
           IN /\ \A x \in rows : \E e \in served :
                    e.path = x.path /\ e.type = x.type /\ x.provider \in Reach(e, mode)
              /\ \A e \in served : \A id \in Reach(e, mode) : \E x \in rows :
                    x.provider = id /\ x.path = e.path /\ x.type = e.type
<1> DEFINE rows == Usable(UnifiedRows(db, mode, types))
<1> DEFINE served == {e \in db.endpoints : e.type \in types}
<1> HIDE DEF rows
<1>1. ASSUME NEW x \in rows
      PROVE  \E e \in served : e.path = x.path /\ e.type = x.type /\ x.provider \in Reach(e, mode)
  <2>1. PICK r \in AllRows(mode.routed), pb \in Joined(db), e \in db.endpoints :
            /\ Made(r, pb) /\ Made(x, pb) /\ Reachable(pb)
            /\ e.path = pb[2].path /\ e.type \in types /\ x.type = e.type
    BY TypeRows DEF rows
  <2>2. r.path = e.path /\ r.url # Empty /\ r.keyed /\ r.provider = x.provider /\ x.path = e.path
    BY <2>1 DEF Made, Reachable
  <2>3. r \in resolveProviders(db, e.path, mode)
    BY <2>2, PathRows
  <2> QED
    BY <2>1, <2>2, <2>3 DEF Reach
<1>2. ASSUME NEW e \in served, NEW id \in Reach(e, mode)
      PROVE  \E x \in rows : x.provider = id /\ x.path = e.path /\ x.type = e.type
  <2>1. PICK r \in resolveProviders(db, e.path, mode) : r.provider = id
    BY DEF Reach
  <2>2. r \in AllRows(mode.routed) /\ r.path = e.path /\ r.url # Empty /\ r.keyed
    BY PathRows
  <2>3. PICK pb \in Joined(db) : Made(r, pb) /\ Servable(mode.routed, pb)
    BY <2>2, AllRowsFacts
  <2>4. Reachable(pb) /\ e.path = pb[2].path
    BY <2>2, <2>3 DEF Made, Reachable
  <2>5. PICK x \in rows : Made(x, pb) /\ x.type = e.type
    BY <2>3, <2>4, TypeRows DEF rows
  <2> QED
    BY <2>1, <2>3, <2>4, <2>5 DEF Made
<1> QED
  BY <1>1, <1>2 DEF rows

\* dedupeUnifiedRows keeps one row of each provider, no other of its being better.
LEMMA KeptFacts ==
    ASSUME NEW rows, Sortable(rows), NEW source, NEW kept \in dedupeUnifiedRows(rows, source)
    PROVE  /\ kept \in SUBSET rows /\ Sortable(kept)
           /\ {r.provider : r \in kept} = {r.provider : r \in rows}
           /\ \A r, t \in kept : r.provider = t.provider => r = t
           /\ \A r \in kept, t \in rows : t.provider = r.provider => ~BetterRow(t, r, source)
           /\ Cardinality({r.provider : r \in kept}) = Cardinality(kept)
<1> DEFINE best == {r \in rows : \A t \in rows : t.provider = r.provider => ~BetterRow(t, r, source)}
<1> DEFINE Of(id) == {r \in kept : r.provider = id}
<1>1. kept \in SUBSET best /\ \A id \in {r.provider : r \in rows} : Cardinality(Of(id)) = 1
  BY DEF dedupeUnifiedRows
<1>2. kept \in SUBSET rows /\ \A r \in kept, t \in rows : t.provider = r.provider => ~BetterRow(t, r, source)
  BY <1>1
<1> HIDE DEF best
<1>3. IsFiniteSet(kept)
  BY <1>2, FS_Subset DEF Sortable
<1>4. \A id \in {r.provider : r \in rows} : \E x : Of(id) = {x}
  <2> SUFFICES ASSUME NEW id \in {r.provider : r \in rows} PROVE \E x : Of(id) = {x}
    OBVIOUS
  <2>1. Of(id) \in SUBSET kept /\ Cardinality(Of(id)) = 1
    BY <1>1
  <2> HIDE DEF Of
  <2>2. IsFiniteSet(Of(id))
    BY <1>3, <2>1, FS_Subset
  <2> QED
    BY <2>1, <2>2, FS_Singleton
<1>5. {r.provider : r \in kept} = {r.provider : r \in rows}
  BY <1>2, <1>4
<1>6. \A r, t \in kept : r.provider = t.provider => r = t
  <2> SUFFICES ASSUME NEW r \in kept, NEW t \in kept, r.provider = t.provider PROVE r = t
    OBVIOUS
  <2>1. PICK x : Of(r.provider) = {x}
    BY <1>2, <1>4
  <2>2. r \in Of(r.provider) /\ t \in Of(r.provider)
    OBVIOUS
  <2> HIDE DEF Of
  <2> QED
    BY <2>1, <2>2
<1>7. Sortable(kept)
  BY <1>2, <1>3 DEF Sortable
<1>8. Cardinality({r.provider : r \in kept}) = Cardinality(kept)
  <2> DEFINE f == [r \in kept |-> r.provider]
  <2> DEFINE T == {r.provider : r \in kept}
  <2>1. f \in Bijection(kept, T)
    <3>1. f \in [kept -> T] /\ \A x \in T : \E r \in kept : f[r] = x
      OBVIOUS
    <3>2. \A r, t \in kept : f[r] = f[t] => r = t
      BY <1>6
    <3> HIDE DEF f, T
    <3> QED
      BY <3>1, <3>2 DEF Bijection, Injection, Surjection, IsInjective
  <2>2. ExistsBijection(kept, T)
    BY <2>1 DEF ExistsBijection
  <2> HIDE DEF T
  <2> QED
    BY <1>3, <2>2, FS_Bijection DEF T
<1> QED
  BY <1>2, <1>5, <1>6, <1>7, <1>8

\* A row of the request's own format is beaten by none of another.
LEMMA NativeFacts ==
    ASSUME NEW r, NEW t, NEW source, t.type = source, ~BetterRow(t, r, source)
    PROVE  r.type = source
<1> DEFINE Grade(y) == IF y = source THEN 0
                       ELSE CASE y = "anthropic" -> 1 [] y = "chat" -> 2 [] OTHER -> 3
<1>1. ~(Grade(t.type) < Grade(r.type))
  BY DEF BetterRow
<1>2. Grade(t.type) = 0
  OBVIOUS
<1>3. r.type # source => Grade(r.type) \in {1, 2, 3}
  OBVIOUS
<1> HIDE DEF Grade
<1> QED
  BY <1>1, <1>2, <1>3

\* RoutesAgree: a unified route tries whom the path routes of its types would,
\* each once, in its own format where that can be, all by bindings of theirs
\* and in the listed order (resolveProvidersByTypes, dedupeUnifiedRows,
\* compareCandidateOrder, lookupCandidateSidecar).
THEOREM RoutesAgreeHolds == RoutesSpec => []RoutesAgree
<1>1. ASSUME TablesInv, NEW route \in Routes, NEW streaming \in BOOLEAN, NEW mode \in Modes
      PROVE  LET types == candidateEndpointTypes(route, streaming)
                 served == {e \in db.endpoints : e.type \in types}
                 onPath == [e \in served |-> PathAttempts(db, e, route.suffix, mode)]
                 reach == [e \in served |-> UNION {Tried(q) : q \in onPath[e]}]
             IN /\ \A e \in served : \A q \in onPath[e] : ByABinding(q, {e}) /\ InListedOrder(q)
                /\ \A q \in UnifiedAttempts(db, route, streaming, mode) :
                     /\ ByABinding(q, served) /\ InListedOrder(q)
                     /\ Tried(q) = UNION {reach[e] : e \in served}
                     /\ Len(q) = Cardinality(Tried(q))
                     /\ \A i \in DOMAIN q :
                         LET native == {e.path : e \in {x \in served : x.type = route.source
                                                               /\ q[i].side.provider \in reach[x]}}
                         IN native # {} => q[i].side.path \in native
  <2> DEFINE types == candidateEndpointTypes(route, streaming)
  <2> DEFINE served == {e \in db.endpoints : e.type \in types}
  <2> DEFINE onPath == [e \in served |-> PathAttempts(db, e, route.suffix, mode)]
  <2> DEFINE reach == [e \in served |-> UNION {Tried(q) : q \in onPath[e]}]
  <2>1. ASSUME NEW e \in served, NEW q \in onPath[e] PROVE ByABinding(q, {e}) /\ InListedOrder(q)
    <3> DEFINE rows == resolveProviders(db, e.path, mode)
    <3>1. PICK s \in Sorted(rows) : Goes(q, s)
      BY <1>1, <2>1, PathGoes
    <3>2. Sortable(rows)
      BY <1>1, PathRowsSortable
    <3>3. \A r \in rows : r \in AllRows(mode.routed) /\ r.path = e.path
      BY PathRows
    <3>4. Drawn(rows)
      BY <3>3, AllRowsFacts DEF Drawn
    <3> HIDE DEF rows
    <3>5. ByABinding(q, {e})
      BY <3>1, <3>2, <3>3, <3>4, BindingFacts
    <3> QED
      BY <1>1, <3>1, <3>2, <3>4, <3>5, InListedOrderFacts
  <2>2. \A e \in served : reach[e] = Reach(e, mode)
    BY <1>1, ReachFacts
  <2> DEFINE rows == Usable(UnifiedRows(db, mode, types))
  <2>3. Sortable(rows)
    BY <1>1, TypeRowsSortable
  <2>4. Drawn(rows)
    BY <1>1, TypeRows DEF Drawn
  <2>5. /\ \A x \in rows : \E e \in served :
                e.path = x.path /\ e.type = x.type /\ x.provider \in Reach(e, mode)
        /\ \A e \in served : \A id \in Reach(e, mode) : \E x \in rows :
                x.provider = id /\ x.path = e.path /\ x.type = e.type
    BY <1>1, RowsAgree
  <2>6. ASSUME NEW q \in UnifiedAttempts(db, route, streaming, mode)
        PROVE  /\ ByABinding(q, served) /\ InListedOrder(q)
               /\ Tried(q) = UNION {reach[e] : e \in served}
               /\ Len(q) = Cardinality(Tried(q))
               /\ \A i \in DOMAIN q :
                   LET native == {e.path : e \in {x \in served : x.type = route.source
                                                         /\ q[i].side.provider \in reach[x]}}
                   IN native # {} => q[i].side.path \in native
    <3> DEFINE Attempts(s) ==
            LET items == buildUnifiedCandidateSet(s, route.suffix)
            IN [i \in DOMAIN items |-> [row |-> items[i].row, side |-> Sidecar(items, i)]]
    <3>0. PICK kept \in dedupeUnifiedRows(rows, route.source) : \E s \in Sorted(kept) : q = Attempts(s)
      BY DEF UnifiedAttempts, resolveProvidersByTypes
    <3>1. PICK s \in Sorted(kept) : q = Attempts(s)
      BY <3>0
    <3> HIDE DEF rows, types, onPath, reach
    <3>2. /\ kept \in SUBSET rows /\ Sortable(kept)
          /\ {r.provider : r \in kept} = {r.provider : r \in rows}
          /\ \A r \in kept, t \in rows : t.provider = r.provider => ~BetterRow(t, r, route.source)
          /\ Cardinality({r.provider : r \in kept}) = Cardinality(kept)
      <4> DEFINE source == route.source
      <4>1. Sortable(rows) /\ kept \in dedupeUnifiedRows(rows, source)
        BY <2>3, <3>0
      <4> HIDE DEF source
      <4>2. kept \in SUBSET rows /\ Sortable(kept)
        BY <4>1, KeptFacts
      <4>3. {r.provider : r \in kept} = {r.provider : r \in rows}
        BY <4>1, KeptFacts
      <4>4. \A r \in kept, t \in rows : t.provider = r.provider => ~BetterRow(t, r, source)
        BY <4>1, KeptFacts
      <4>5. Cardinality({r.provider : r \in kept}) = Cardinality(kept)
        BY <4>1, KeptFacts
      <4> QED
        BY <4>2, <4>3, <4>4, <4>5 DEF source
    <3>3. Goes(q, s) /\ Len(q) = Cardinality(kept)
      BY <3>1, <3>2, UnifiedGoes
    <3>4. Drawn(kept) /\ \A r \in kept : \E e \in served : e.path = r.path
      BY <2>4, <2>5, <3>2 DEF Drawn
    <3> HIDE DEF served
    <3>5. ByABinding(q, served)
      BY <3>2, <3>3, <3>4, BindingFacts
    <3>6. InListedOrder(q)
      BY <1>1, <3>2, <3>3, <3>4, InListedOrderFacts
    <3>7. Tried(q) = {r.provider : r \in kept}
      BY <3>2, <3>3, TriedFacts
    <3>8. {r.provider : r \in rows} = UNION {reach[e] : e \in served}
      <4>1. \A x \in rows : \E e \in served : x.provider \in reach[e]
        BY <2>2, <2>5
      <4>2. \A e \in served : \A id \in reach[e] : \E x \in rows : x.provider = id
        BY <2>2, <2>5
      <4> QED
        BY <4>1, <4>2
    <3>9. ASSUME NEW i \in DOMAIN q, NEW x \in served, x.type = route.source,
                 q[i].side.provider \in reach[x]
          PROVE  \E e \in served : /\ e.type = route.source /\ q[i].side.provider \in reach[e]
                                   /\ q[i].side.path = e.path
      <4>1. /\ i \in DOMAIN s /\ s[i] \in kept
            /\ q[i].side.provider = s[i].provider /\ q[i].side.path = s[i].path
        BY <3>2, <3>3, SortedRows DEF Goes
      <4>2. PICK t \in rows : t.provider = s[i].provider /\ t.type = route.source
        BY <2>2, <2>5, <3>9, <4>1
      <4>3. ~BetterRow(t, s[i], route.source)
        BY <3>2, <4>1, <4>2
      <4>4. s[i].type = route.source
        BY <4>2, <4>3, NativeFacts
      <4>5. PICK e \in served : e.path = s[i].path /\ e.type = s[i].type /\ s[i].provider \in Reach(e, mode)
        BY <2>5, <3>2, <4>1
      <4> QED
        BY <2>2, <4>1, <4>4, <4>5
    <3>10. \A i \in DOMAIN q :
                LET native == {e.path : e \in {x \in served : x.type = route.source
                                                      /\ q[i].side.provider \in reach[x]}}
                IN native # {} => q[i].side.path \in native
      BY <3>9
    <3> QED
      BY <3>2, <3>3, <3>5, <3>6, <3>7, <3>8, <3>10
  <2> QED
    BY <2>1, <2>6
<1>2. TablesInv => RoutesAgree
  BY <1>1 DEF RoutesAgree
<1> QED
  BY <1>2, TablesInvHolds, PTL
=============================================================================
