--------------------------- MODULE Records_proofs ---------------------------
(***************************************************************************)
(* What holds of the request table while it is recalculated (CostRecalc),  *)
(* while it is read page by page (RequestPages) and while the projects it  *)
(* names are edited and merged (Projects).                                 *)
(*                                                                         *)
(* The first two walk the table by one keyset order.  The first part is    *)
(* about that order: rows are numbered by how many come before them, which *)
(* takes the place of an induction over the lists.  The second proves      *)
(* CostInv, who decides costs by which pricing and how far a clean         *)
(* recalculation has come, and with it what the overview shows (Shows).    *)
(* The third proves PageInv, what the cursors of the readers have passed.  *)
(* The fourth is about projects: what each action does to their table and  *)
(* to its own record, then who names whose project (NamesInv), and whose   *)
(* times span which request (TimesInv, which builds on the first).         *)
(***************************************************************************)
EXTENDS CostRecalc, RequestPages, Projects,
        FiniteSetTheorems, SequenceTheorems, WellFoundedInduction, TLAPS

-----------------------------------------------------------------------------
(* The order of rows.                                                       *)

\* A set of numbers that is not empty has a least one,
LEMMA Least ==
    ASSUME NEW S, S \subseteq Nat, S # {}
    PROVE  Min(S) \in S /\ \A n \in S : Min(S) <= n
<1>1. PICK m \in S : \A n \in S : ~ (<<n, m>> \in OpToRel(<, Nat))
  BY NatLessThanWellFounded, WFMin, Zenon
<1>2. \A n \in S : ~ (n < m)
  <2> SUFFICES ASSUME NEW n \in S PROVE ~ (n < m)
    OBVIOUS
  <2>1. <<n, m>> \notin OpToRel(<, Nat)
    BY <1>1
  <2>2. n \in Nat /\ m \in Nat
    OBVIOUS
  <2> QED
    BY <2>1, <2>2, Zenon DEF OpToRel
<1>3. m \in S /\ \A n \in S : m <= n
  BY <1>2
<1> QED
  BY <1>3 DEF Min

\* and, below a bound, a greatest one.
LEMMA Greatest ==
    ASSUME NEW S, S \subseteq Nat, S # {}, NEW b \in Nat, \A n \in S : n <= b
    PROVE  \E m \in S : \A n \in S : n <= m
<1> DEFINE D == {b - n : n \in S}
<1>1. D \subseteq Nat /\ D # {}
  <2>1. \A n \in S : b - n \in Nat
    OBVIOUS
  <2>2. PICK n \in S : TRUE
    OBVIOUS
  <2>3. b - n \in D
    OBVIOUS
  <2> QED
    BY <2>1, <2>3
<1>2. Min(D) \in D /\ \A d \in D : Min(D) <= d
  BY <1>1, Least
<1>3. PICK m \in S : Min(D) = b - m
  BY <1>2
<1>4. \A n \in S : b - m <= b - n
  BY <1>2, <1>3
<1> QED
  BY <1>4

\* Rows that the order can tell apart.
Keyed(S) ==
    /\ IsFiniteSet(S)
    /\ \A r \in S : r.at \in Int /\ r.id \in Int
    /\ \A r, q \in S : r.id = q.id => r = q

Rank(S, r) == Cardinality({q \in S : Earlier(q, r)})

\* The order is total.
LEMMA EarlierFacts ==
    ASSUME NEW S, Keyed(S)
    PROVE  /\ \A a \in S : ~Earlier(a, a)
           /\ \A a, b \in S : Earlier(a, b) \/ Earlier(b, a) \/ a = b
           /\ \A a, b, c \in S : Earlier(a, b) /\ Earlier(b, c) => Earlier(a, c)
  BY DEF Keyed, Earlier

\* The rows before one number it among all, and every number is some row's.
LEMMA RankFacts ==
    ASSUME NEW S, Keyed(S)
    PROVE  /\ Cardinality(S) \in Nat
           /\ \A r \in S : Rank(S, r) \in 0 .. (Cardinality(S) - 1)
           /\ \A a, b \in S : Earlier(a, b) => Rank(S, a) < Rank(S, b)
           /\ \A i \in 0 .. (Cardinality(S) - 1) : \E r \in S : Rank(S, r) = i
<1> DEFINE n == Cardinality(S)
<1> DEFINE Below(r) == {q \in S : Earlier(q, r)}
<1>1. n \in Nat /\ IsFiniteSet(S)
  BY FS_CardinalityType DEF Keyed
<1>2. \A r \in S : IsFiniteSet(Below(r)) /\ Cardinality(Below(r)) \in Nat /\ Cardinality(Below(r)) < n
  <2> SUFFICES ASSUME NEW r \in S
               PROVE  IsFiniteSet(Below(r)) /\ Cardinality(Below(r)) \in Nat /\ Cardinality(Below(r)) < n
    OBVIOUS
  <2>1. Below(r) \in SUBSET S /\ r \notin Below(r)
    BY EarlierFacts
  <2> HIDE DEF Below
  <2>2. IsFiniteSet(Below(r)) /\ Cardinality(Below(r)) <= n /\ (n = Cardinality(Below(r)) => S = Below(r))
    BY <2>1, <1>1, FS_Subset
  <2>3. Cardinality(Below(r)) \in Nat
    BY <2>2, FS_CardinalityType
  <2> QED
    BY <2>1, <2>2, <2>3, <1>1
<1>3. \A a, b \in S : Earlier(a, b) => Cardinality(Below(a)) < Cardinality(Below(b))
  <2> SUFFICES ASSUME NEW a \in S, NEW b \in S, Earlier(a, b)
               PROVE  Cardinality(Below(a)) < Cardinality(Below(b))
    OBVIOUS
  <2>1. Below(a) \in SUBSET Below(b) /\ a \in Below(b) /\ a \notin Below(a)
    BY EarlierFacts
  <2>2. IsFiniteSet(Below(b)) /\ Cardinality(Below(b)) \in Nat /\ Cardinality(Below(a)) \in Nat
    BY <1>2
  <2> HIDE DEF Below
  <2>3. /\ Cardinality(Below(a)) <= Cardinality(Below(b))
        /\ Cardinality(Below(b)) = Cardinality(Below(a)) => Below(b) = Below(a)
    BY <2>1, <2>2, FS_Subset
  <2>4. Cardinality(Below(b)) # Cardinality(Below(a))
    BY <2>1, <2>3
  <2> QED
    BY <2>2, <2>3, <2>4
<1> DEFINE f == [r \in S |-> Cardinality(Below(r))]
<1>4. f \in Injection(S, 0 .. (n - 1))
  <2>1. f \in [S -> 0 .. (n - 1)]
    <3>1. \A r \in S : Cardinality(Below(r)) \in 0 .. (n - 1)
      <4> HIDE DEF Below
      <4> QED
        BY <1>1, <1>2
    <3> HIDE DEF Below, n
    <3> QED
      BY <3>1
  <2>2. \A a, b \in S : f[a] = f[b] => a = b
    <3> SUFFICES ASSUME NEW a \in S, NEW b \in S, f[a] = f[b], a # b PROVE FALSE
      OBVIOUS
    <3>1. Earlier(a, b) \/ Earlier(b, a)
      BY EarlierFacts
    <3>2. f[a] \in Nat /\ f[b] \in Nat
      BY <1>2
    <3>3. f[a] < f[b] \/ f[b] < f[a]
      BY <1>3, <3>1
    <3> QED
      BY <3>2, <3>3
  <2> QED
    BY <2>1, <2>2 DEF Injection, IsInjective
<1>5. IsFiniteSet(0 .. (n - 1)) /\ Cardinality(0 .. (n - 1)) = n
  <2>1. 0 \in Int /\ n - 1 \in Int
    BY <1>1
  <2>2. IsFiniteSet(0 .. (n - 1)) /\ Cardinality(0 .. (n - 1)) = IF 0 > n - 1 THEN 0 ELSE (n - 1) - 0 + 1
    BY <2>1, FS_Interval
  <2> QED
    BY <1>1, <2>2
<1>6. f \in Surjection(S, 0 .. (n - 1))
  <2> HIDE DEF f
  <2> QED
    BY <1>4, <1>5, FS_Injection
<1>7. \A i \in 0 .. (n - 1) : \E r \in S : f[r] = i
  BY <1>6 DEF Surjection
<1>8. \A r \in S : Rank(S, r) = Cardinality(Below(r)) /\ f[r] = Cardinality(Below(r))
  BY DEF Rank
<1> HIDE DEF f, Below
<1> QED
  BY <1>1, <1>2, <1>3, <1>7, <1>8

\* The rows in their order.
LEMMA NthFacts ==
    ASSUME NEW S, Keyed(S)
    PROVE  /\ \A i \in 1 .. Cardinality(S) : Nth(S, i) \in S
           /\ \A i, j \in 1 .. Cardinality(S) : i < j => Earlier(Nth(S, i), Nth(S, j))
           /\ \A r \in S : \E i \in 1 .. Cardinality(S) : r = Nth(S, i)
<1> DEFINE n == Cardinality(S)
<1>1. n \in Nat
  BY RankFacts
<1>2. \A i \in 1 .. n : Nth(S, i) \in S /\ Rank(S, Nth(S, i)) = i - 1
  <2> SUFFICES ASSUME NEW i \in 1 .. n PROVE Nth(S, i) \in S /\ Rank(S, Nth(S, i)) = i - 1
    OBVIOUS
  <2>1. i - 1 \in 0 .. (n - 1)
    BY <1>1
  <2>2. \E r \in S : Rank(S, r) = i - 1
    BY <2>1, RankFacts
  <2> QED
    BY <2>2 DEF Nth, Rank
<1>3. \A a, b \in S : Rank(S, a) = Rank(S, b) => a = b
  <2> SUFFICES ASSUME NEW a \in S, NEW b \in S, Rank(S, a) = Rank(S, b), a # b PROVE FALSE
    OBVIOUS
  <2>1. Rank(S, a) < Rank(S, b) \/ Rank(S, b) < Rank(S, a)
    BY EarlierFacts, RankFacts
  <2>2. Rank(S, a) \in Int /\ Rank(S, b) \in Int
    BY RankFacts
  <2> QED
    BY <2>1, <2>2
<1>4. \A i, j \in 1 .. n : i < j => Earlier(Nth(S, i), Nth(S, j))
  <2> SUFFICES ASSUME NEW i \in 1 .. n, NEW j \in 1 .. n, i < j
               PROVE  Earlier(Nth(S, i), Nth(S, j))
    OBVIOUS
  <2>1. Rank(S, Nth(S, i)) < Rank(S, Nth(S, j)) /\ Nth(S, i) \in S /\ Nth(S, j) \in S
    BY <1>1, <1>2
  <2>2. ~Earlier(Nth(S, j), Nth(S, i)) /\ Nth(S, i) # Nth(S, j)
    <3>1. Rank(S, Nth(S, i)) \in Int /\ Rank(S, Nth(S, j)) \in Int
      BY <2>1, RankFacts
    <3> QED
      BY <2>1, <3>1, RankFacts
  <2> QED
    BY <2>1, <2>2, EarlierFacts
<1>5. \A r \in S : \E i \in 1 .. n : r = Nth(S, i)
  <2> SUFFICES ASSUME NEW r \in S PROVE \E i \in 1 .. n : r = Nth(S, i)
    OBVIOUS
  <2> DEFINE i == Rank(S, r) + 1
  <2>1. Rank(S, r) \in 0 .. (n - 1)
    BY RankFacts
  <2>2. i \in 1 .. n /\ i - 1 = Rank(S, r)
    BY <1>1, <2>1
  <2> HIDE DEF i
  <2>3. r = Nth(S, i)
    BY <1>2, <1>3, <2>2
  <2> QED
    BY <2>2, <2>3
<1> QED
  BY <1>2, <1>4, <1>5

\* The smaller of two numbers.
LEMMA MinOfTwo ==
    ASSUME NEW a \in Int, NEW b \in Int
    PROVE  Min({a, b}) = IF a <= b THEN a ELSE b
  BY DEF Min

\* And the greater.
LEMMA MaxOfTwo ==
    ASSUME NEW a \in Int, NEW b \in Int
    PROVE  Max({a, b}) \in {a, b} /\ Max({a, b}) \in Int /\ Max({a, b}) >= a /\ Max({a, b}) >= b
<1>1. (\A y \in {a, b} : a >= y) \/ (\A y \in {a, b} : b >= y)
  OBVIOUS
<1>2. Max({a, b}) \in {a, b} /\ \A y \in {a, b} : Max({a, b}) >= y
  BY <1>1 DEF Max
<1> QED
  BY <1>2

\* The first rows of a table in order: what is not among them comes after all of them.
LEMMA OldestFacts ==
    ASSUME NEW S, Keyed(S), NEW limit \in Nat
    PROVE  LET q == Oldest(S, limit) IN
           /\ q \in Seq(S) /\ Len(q) \in Nat /\ DOMAIN q = 1 .. Len(q) /\ Len(q) <= limit
           /\ \A i \in 1 .. Len(q) : q[i] \in S
           /\ \A i, j \in 1 .. Len(q) : i < j => Earlier(q[i], q[j])
           /\ \A r \in S : \/ \E i \in 1 .. Len(q) : q[i] = r
                           \/ Len(q) = limit /\ \A i \in 1 .. Len(q) : Earlier(q[i], r)
<1> DEFINE n == Cardinality(S)
<1> DEFINE m == Min({limit, n})
<1> DEFINE q == Oldest(S, limit)
<1>1. n \in Nat
  BY RankFacts
<1>2. m \in Nat /\ m <= n /\ m <= limit /\ (m = n \/ m = limit)
  BY <1>1, MinOfTwo
<1>3. q = [i \in 1 .. m |-> Nth(S, i)]
  BY DEF Oldest
<1> HIDE DEF m
<1>4. \A i \in 1 .. m : Nth(S, i) \in S
  BY <1>1, <1>2, NthFacts
<1>5. q \in Seq(S) /\ Len(q) = m /\ DOMAIN q = 1 .. m /\ \A i \in 1 .. m : q[i] = Nth(S, i) /\ q[i] \in S
  <2> HIDE DEF n, q
  <2>1. DOMAIN q = 1 .. m /\ \A i \in 1 .. m : q[i] = Nth(S, i)
    BY <1>3
  <2>2. q \in [1 .. m -> S]
    BY <1>3, <1>4
  <2>3. q \in Seq(S) /\ Len(q) = m
    BY <2>2, <1>2
  <2> QED
    BY <2>1, <2>3, <1>4
<1>6. \A i, j \in 1 .. m : i < j => Earlier(q[i], q[j])
  BY <1>1, <1>2, <1>5, NthFacts
<1>7. \A r \in S : \/ \E i \in 1 .. m : q[i] = r
                   \/ m = limit /\ \A i \in 1 .. m : Earlier(q[i], r)
  <2> SUFFICES ASSUME NEW r \in S, ~ \E i \in 1 .. m : q[i] = r
               PROVE  m = limit /\ \A i \in 1 .. m : Earlier(q[i], r)
    OBVIOUS
  <2>1. PICK k \in 1 .. n : r = Nth(S, k)
    BY NthFacts
  <2>2. k > m /\ k \in Nat
    <3>1. k \notin 1 .. m
      BY <1>5, <2>1
    <3> QED
      BY <3>1, <1>1, <1>2
  <2>3. m = limit
    BY <2>2, <1>1, <1>2
  <2>4. \A i \in 1 .. m : i \in 1 .. n /\ i < k
    BY <1>1, <1>2, <2>2
  <2> QED
    BY <2>1, <2>3, <2>4, <1>5, NthFacts
<1> HIDE DEF q
<1> QED
  BY <1>2, <1>4, <1>5, <1>6, <1>7 DEF q

\* The last ones, backwards.
LEMMA NewestFacts ==
    ASSUME NEW S, Keyed(S), NEW limit \in Nat
    PROVE  LET q == Newest(S, limit) IN
           /\ q \in Seq(S) /\ Len(q) \in Nat /\ DOMAIN q = 1 .. Len(q) /\ Len(q) <= limit
           /\ \A i \in 1 .. Len(q) : q[i] \in S
           /\ \A i, j \in 1 .. Len(q) : i < j => Earlier(q[j], q[i])
           /\ \A r \in S : \/ \E i \in 1 .. Len(q) : q[i] = r
                           \/ Len(q) = limit /\ \A i \in 1 .. Len(q) : Earlier(r, q[i])
<1> DEFINE n == Cardinality(S)
<1> DEFINE m == Min({limit, n})
<1> DEFINE q == Newest(S, limit)
<1>1. n \in Nat
  BY RankFacts
<1>2. m \in Nat /\ m <= n /\ m <= limit /\ (m = n \/ m = limit)
  BY <1>1, MinOfTwo
<1>3. q = [i \in 1 .. m |-> Nth(S, n + 1 - i)]
  BY DEF Newest
<1> HIDE DEF m
<1>4. \A i \in 1 .. m : n + 1 - i \in 1 .. n
  BY <1>1, <1>2
<1>5. q \in Seq(S) /\ Len(q) = m /\ DOMAIN q = 1 .. m /\ \A i \in 1 .. m : q[i] = Nth(S, n + 1 - i) /\ q[i] \in S
  <2>1. \A i \in 1 .. m : Nth(S, n + 1 - i) \in S
    BY <1>4, NthFacts
  <2> HIDE DEF n, q
  <2> QED
    BY <1>2, <1>3, <2>1
<1>6. \A i, j \in 1 .. m : i < j => Earlier(q[j], q[i])
  <2> SUFFICES ASSUME NEW i \in 1 .. m, NEW j \in 1 .. m, i < j PROVE Earlier(q[j], q[i])
    OBVIOUS
  <2>1. n + 1 - j < n + 1 - i /\ n + 1 - j \in 1 .. n /\ n + 1 - i \in 1 .. n
    BY <1>1, <1>4
  <2> QED
    BY <2>1, <1>5, NthFacts
<1>7. \A r \in S : \/ \E i \in 1 .. m : q[i] = r
                   \/ m = limit /\ \A i \in 1 .. m : Earlier(r, q[i])
  <2> SUFFICES ASSUME NEW r \in S, ~ \E i \in 1 .. m : q[i] = r
               PROVE  m = limit /\ \A i \in 1 .. m : Earlier(r, q[i])
    OBVIOUS
  <2>1. PICK k \in 1 .. n : r = Nth(S, k)
    BY NthFacts
  <2>2. n + 1 - k > m /\ k \in Nat
    <3>1. n + 1 - k \notin 1 .. m
      <4> SUFFICES ASSUME n + 1 - k \in 1 .. m PROVE FALSE
        OBVIOUS
      <4>1. n + 1 - (n + 1 - k) = k
        BY <1>1
      <4>2. q[n + 1 - k] = r
        BY <4>1, <1>5, <2>1
      <4> QED
        BY <4>2
    <3>2. n + 1 - k >= 1 /\ n + 1 - k \in Int
      BY <1>1
    <3> QED
      BY <3>1, <3>2, <1>1, <1>2
  <2>3. m = limit
    BY <2>2, <1>1, <1>2
  <2>4. \A i \in 1 .. m : n + 1 - i \in 1 .. n /\ k < n + 1 - i
    BY <1>1, <1>2, <2>2
  <2> QED
    BY <2>1, <2>3, <2>4, <1>5, NthFacts
<1> HIDE DEF q
<1> QED
  BY <1>2, <1>5, <1>6, <1>7 DEF q

-----------------------------------------------------------------------------
(* Costs: the invariant.                                                     *)

\* The shape of what recalculations and requests keep.
IsJob(t) ==
    t \in [pc : {"idle", "refused", "scan", "write", "refresh", "done", "failed"}, price : {t.price},
           from : Starts \cup {None}, cursor : {t.cursor}, batch : {t.batch}, updated : {t.updated},
           refreshed : BOOLEAN, clean : BOOLEAN, late : {t.late}]
IsCharge(g) == g \in [pc : {"open", "read", "written"}, price : {g.price}]

CostShapes ==
    /\ IsTable(bill) /\ \A r \in bill : r.equal["model"] = Model
    /\ job = [a \in Admins |-> job[a]]
    /\ \A a \in Admins : IsJob(job[a]) /\ (job[a].pc = "idle" => Unset(job[a].cursor))
    /\ gw = [id \in DOMAIN gw |-> gw[id]] /\ \A id \in DOMAIN gw : IsCharge(gw[id])
    /\ watermark \in Int

\* A request that has not written its end is open.
Open == \A r \in bill : r.id \in DOMAIN gw /\ gw[r.id].pc \in {"open", "read"} => r.reason = None

Inside(t, r) == (Unset(t.from) \/ r.at >= t.from) /\ r.at < Now

\* A batch is in order and of finished table of the window, which stay as they were listed
\* but for their costs.
Listed(table, t, b) == \E r \in table : /\ r.id = b.id /\ r.at = b.at /\ r.tokens = b.tokens
                                      /\ r.reason # None /\ Inside(t, r)
BatchOf(table, t) ==
    /\ Len(t.batch) \in Nat /\ DOMAIN t.batch = 1 .. Len(t.batch)
    /\ 1 <= Len(t.batch) /\ Len(t.batch) <= BatchSize
    /\ \A i \in 1 .. Len(t.batch) : Listed(table, t, t.batch[i])
    /\ \A i, j \in 1 .. Len(t.batch) : i < j => Earlier(t.batch[i], t.batch[j])
Batches == \A a \in Admins : job[a].pc = "write" => BatchOf(bill, job[a])

\* While a recalculation is clean there is one pricing: its own, that of every
\* request's end and of every recalculation that came later.
OnePrice ==
    \A a \in Admins : job[a].clean =>
        /\ job[a].pc \in {"scan", "write", "refresh", "done"}
        /\ \A b \in Admins : Running(b) => job[b].price = price /\ (Running(a) => b = a)
        /\ \A id \in DOMAIN gw : gw[id].pc = "read" => gw[id].price = price

Right(p, r) ==
    r.cost = Cost(p, r) /\ r.currency = IF Unset(Cost(p, r)) THEN None ELSE p.currency

\* The finished table of its window are billed right as far as it has come.
Awaits(t, r) ==
    \/ t.pc = "scan" /\ (Unset(t.cursor) \/ Earlier(t.cursor, r))
    \/ t.pc = "write" /\ \E i \in DOMAIN t.batch : t.batch[i].id = r.id
    \/ t.pc = "write" /\ Len(t.batch) = BatchSize /\ Earlier(t.batch[Len(t.batch)], r)
Billing(table, p, t) ==
    \A r \in table : r.reason # None /\ Inside(t, r) => Right(p, r) \/ Awaits(t, r)
Progress == \A a \in Admins : job[a].clean => Billing(bill, price, job[a])

\* The aggregate shows them once they are refreshed.
Shows ==
    \A a \in Admins : job[a].refreshed => job[a].pc = "done" /\
        (job[a].clean => \A b \in Buckets \ job[a].late :
            Unset(job[a].from) \/ b >= job[a].from =>
                b < watermark /\ shown[b] = BucketCost(bill, b))

\* The buckets a row's end disturbs.
Disturbed(r) == {b \in Buckets : r.at \in b .. (b + Width - 1)}
LateBy(t, r) == [t EXCEPT !.late = @ \cup Disturbed(r)]

\* What a step leaves of a recalculation, and of all others.
SameWork(a) ==
    /\ IsJob(job'[a]) /\ job'[a].pc = job[a].pc /\ job'[a].price = job[a].price
    /\ job'[a].from = job[a].from /\ job'[a].cursor = job[a].cursor /\ job'[a].batch = job[a].batch
    /\ job'[a].refreshed = job[a].refreshed
Only(a) == a \in Admins /\ \A b \in Admins \ {a} : job'[b] = job[b]
JobShape == job' = [a \in Admins |-> job'[a]]

CostInv == CostShapes /\ Open /\ Batches /\ OnePrice /\ Progress

-----------------------------------------------------------------------------
(* Costs: what the steps do, and that they keep it.                         *)

\* A row billed is billed right, and is the same row where it was already.
LEMMA BilledFacts ==
    ASSUME NEW p, NEW r, IsRow(r)
    PROVE  LET e == Billed(p, r) IN
           /\ IsRow(e) /\ e.id = r.id /\ e.at = r.at /\ e.tokens = r.tokens /\ e.reason = r.reason
           /\ e.equal = r.equal /\ Right(p, e) /\ (Right(p, r) => e = r)
<1> DEFINE c == Cost(p, r)
<1> DEFINE k == IF Unset(c) THEN None ELSE p.currency
<1> DEFINE e == [r EXCEPT !.cost = c, !.currency = k]
<1>1. Billed(p, r) = e
  BY DEF Billed
<1> HIDE DEF c, k
<1>2. /\ e.id = r.id /\ e.at = r.at /\ e.tokens = r.tokens /\ e.reason = r.reason
      /\ e.equal = r.equal /\ e.cost = c /\ e.currency = k /\ DOMAIN e = Columns
  BY DEF IsRow, Columns
<1>3. e = [x \in DOMAIN e |-> e[x]]
  BY DEF IsRow
<1>4. IsRow(e)
  BY <1>2, <1>3 DEF IsRow
<1>5. Cost(p, e) = c
  BY <1>2 DEF Cost, c
<1>6. Right(p, e)
  BY <1>2, <1>5 DEF Right, k
<1>7. ASSUME Right(p, r) PROVE e = r
  <2>1. r.cost = c /\ r.currency = k
    BY <1>7 DEF Right, c, k
  <2>2. \A x \in Columns : e[x] = r[x]
    BY <2>1 DEF IsRow, Columns
  <2> QED
    BY <1>2, <1>3, <2>2 DEF IsRow
<1> HIDE DEF e
<1> QED
  BY <1>1, <1>2, <1>4, <1>6, <1>7

\* A request's end writes the four columns of its row.
LEMMA FinishEffect ==
    ASSUME CostShapes, Finish
    PROVE  /\ \E r \in bill, e \in bill' :
                /\ r.id \in DOMAIN gw /\ gw[r.id].pc = "read"
                /\ gw' = [gw EXCEPT ![r.id].pc = "written"]
                /\ IsRow(e) /\ e.id = r.id /\ e.at = r.at /\ e.equal = r.equal /\ e.reason # None
                /\ Right(gw[r.id].price, e)
                /\ bill' = (bill \ {r}) \cup {e}
                /\ job' = [a \in Admins |-> LateBy(job[a], r)]
           /\ UNCHANGED <<price, changes, shown, watermark>>
<1>1. PICK r \in bill :
        /\ r.id \in DOMAIN gw /\ gw[r.id].pc = "read"
        /\ LET ended == Billed(gw[r.id].price, [r EXCEPT !.reason = EOF, !.tokens = Used])
           IN bill' = UpdateRequest(bill, r.id, r.at,
                          [reason |-> EOF, tokens |-> Used,
                           cost |-> ended.cost, currency |-> ended.currency])
        /\ gw' = [gw EXCEPT ![r.id].pc = "written"]
        /\ job' = [a \in Admins |-> [job[a] EXCEPT !.late = @ \cup {b \in Buckets : r \in InBucket({r}, b)}]]
        /\ UNCHANGED <<price, changes, shown, watermark>>
  BY DEF Finish
<1> DEFINE p == gw[r.id].price
<1> DEFINE f == [r EXCEPT !.reason = EOF, !.tokens = Used]
<1> DEFINE e == Billed(p, f)
<1> DEFINE set == [reason |-> EOF, tokens |-> Used, cost |-> e.cost, currency |-> e.currency]
<1> DEFINE g == [c \in DOMAIN r |-> IF c \in DOMAIN set THEN set[c] ELSE r[c]]
<1>2. IsRow(r) /\ \A q \in bill : q.id = r.id => q = r
  BY DEF CostShapes, IsTable
<1>3. /\ DOMAIN f = Columns /\ f = [c \in DOMAIN f |-> f[c]]
      /\ f.id = r.id /\ f.at = r.at /\ f.equal = r.equal /\ f.reason = EOF /\ f.tokens = Used
  BY <1>2 DEF IsRow, Columns
<1>4. IsRow(f)
  BY <1>2, <1>3 DEF IsRow
<1>5. /\ IsRow(e) /\ e.id = r.id /\ e.at = r.at /\ e.equal = r.equal /\ e.reason = EOF
      /\ e.tokens = Used /\ Right(p, e)
  <2> HIDE DEF f, p
  <2> QED
    BY <1>3, <1>4, BilledFacts
<1>6. /\ DOMAIN g = Columns /\ g = [c \in DOMAIN g |-> g[c]]
      /\ g.id = r.id /\ g.at = r.at /\ g.equal = r.equal /\ g.reason = EOF /\ g.tokens = Used
      /\ g.cost = e.cost /\ g.currency = e.currency
  <2> HIDE DEF e
  <2> QED
    BY <1>2 DEF IsRow, Columns
<1>7. IsRow(g)
  BY <1>2, <1>6 DEF IsRow
<1>8. Right(p, g)
  <2> HIDE DEF g, e, p
  <2>1. Cost(p, g) = Cost(p, e)
    BY <1>5, <1>6 DEF Cost
  <2> QED
    BY <1>5, <1>6, <2>1 DEF Right
<1>9. bill' = (bill \ {r}) \cup {g}
  <2>1. bill' = {IF q.id = r.id /\ q.at = r.at THEN [c \in DOMAIN q |-> IF c \in DOMAIN set THEN set[c] ELSE q[c]]
                 ELSE q : q \in bill}
    BY <1>1 DEF UpdateRequest
  <2>2. \A q \in bill : q.id = r.id /\ q.at = r.at <=> q = r
    BY <1>2
  <2> HIDE DEF set
  <2> QED
    BY <2>1, <2>2
<1>10. {b \in Buckets : r \in InBucket({r}, b)} = Disturbed(r)
  BY DEF InBucket, Disturbed
<1>11. job' = [a \in Admins |-> LateBy(job[a], r)]
  BY <1>1, <1>10 DEF LateBy
<1>12. g.reason # None
  <2>1. EOF # None
    BY NoneAssumption DEF EOF
  <2> HIDE DEF g
  <2> QED
    BY <1>6, <2>1
<1> HIDE DEF g, p
<1> QED
  BY <1>1, <1>6, <1>7, <1>8, <1>9, <1>11, <1>12 DEF p

\* A batch bills the table it lists.
LEMMA WriteEffect ==
    ASSUME CostShapes, Batches, NEW a \in Admins, WriteBatch(a)
    PROVE  /\ job[a].pc = "write"
           /\ bill' = {IF \E i \in DOMAIN job[a].batch : job[a].batch[i].id = r.id
                       THEN Billed(job[a].price, r) ELSE r : r \in bill}
           /\ UNCHANGED <<price, changes, gw, shown, watermark>>
<1> DEFINE batch == job[a].batch
<1> DEFINE ids == {batch[i].id : i \in DOMAIN batch}
<1> DEFINE costs == [id \in ids |-> Cost(job[a].price, CHOOSE r \in ToSet(batch) : r.id = id)]
<1>1. /\ job[a].pc = "write" /\ UNCHANGED <<price, changes, gw, shown, watermark>>
      /\ bill' = UpdateRequestCosts(bill, job[a].price.currency, costs)
  BY DEF WriteBatch
<1>2. \A r \in bill : r.id \in ids => costs[r.id] = Cost(job[a].price, r)
  <2> SUFFICES ASSUME NEW r \in bill, r.id \in ids PROVE costs[r.id] = Cost(job[a].price, r)
    OBVIOUS
  <2> DEFINE b == CHOOSE x \in ToSet(batch) : x.id = r.id
  <2>1. \E x \in ToSet(batch) : x.id = r.id
    BY DEF ToSet
  <2>2. b \in ToSet(batch) /\ b.id = r.id
    BY <2>1
  <2> HIDE DEF b
  <2>3. PICK i \in DOMAIN batch : b = batch[i]
    BY <2>2 DEF ToSet
  <2>4. Listed(bill, job[a], batch[i])
    BY <1>1, <2>3 DEF Batches, BatchOf
  <2>5. b.tokens = r.tokens
    BY <2>2, <2>3, <2>4 DEF Listed, CostShapes, IsTable
  <2>6. costs[r.id] = Cost(job[a].price, b)
    BY DEF b
  <2> QED
    BY <2>5, <2>6 DEF Cost
<1>3. \A r \in bill : r.id \in ids <=> \E i \in DOMAIN batch : batch[i].id = r.id
  OBVIOUS
<1>4. bill' = {IF r.id \in ids
               THEN [r EXCEPT !.cost = costs[r.id],
                              !.currency = IF Unset(costs[r.id]) THEN None ELSE job[a].price.currency]
               ELSE r : r \in bill}
  BY <1>1 DEF UpdateRequestCosts
<1> HIDE DEF ids, costs
<1>5. \A r \in bill : r.id \in ids =>
        [r EXCEPT !.cost = costs[r.id],
                  !.currency = IF Unset(costs[r.id]) THEN None ELSE job[a].price.currency]
          = Billed(job[a].price, r)
  BY <1>2 DEF Billed
<1>6. bill' = {IF r.id \in ids THEN Billed(job[a].price, r) ELSE r : r \in bill}
  BY <1>4, <1>5
<1> QED
  BY <1>1, <1>3, <1>6

\* Soiled recalculations are the same but for being clean.
LEMMA SoiledFacts ==
    ASSUME NEW jobs, \A a \in Admins : IsJob(jobs[a])
    PROVE  /\ Soiled(jobs) = [a \in Admins |-> Soiled(jobs)[a]]
           /\ \A a \in Admins :
                LET t == jobs[a]
                    s == Soiled(jobs)[a]
                IN /\ IsJob(s) /\ ~s.clean /\ s.pc = t.pc /\ s.price = t.price /\ s.from = t.from
                   /\ s.cursor = t.cursor /\ s.batch = t.batch /\ s.refreshed = t.refreshed /\ s.late = t.late
  BY DEF Soiled, IsJob

\* A new price disturbs every recalculation,
LEMMA ChangePriceEffect ==
    ASSUME CostShapes, ChangePrice
    PROVE  /\ UNCHANGED <<bill, gw, shown, watermark>> /\ JobShape
           /\ \A a \in Admins : SameWork(a) /\ ~job'[a].clean
<1>1. UNCHANGED <<bill, gw, shown, watermark>> /\ job' = Soiled(job)
  BY DEF ChangePrice
<1>2. \A a \in Admins : IsJob(job[a])
  BY DEF CostShapes
<1> QED
  BY <1>1, <1>2, SoiledFacts DEF SameWork, JobShape

\* a request that reads another pricing than the model's any that is clean,
LEMMA ReadPriceEffect ==
    ASSUME CostShapes, ReadPrice
    PROVE  /\ UNCHANGED <<bill, price, shown, watermark>> /\ JobShape
           /\ \E id \in DOMAIN gw :
                /\ gw[id].pc = "open" /\ gw'[id].pc = "read" /\ IsCharge(gw'[id])
                /\ DOMAIN gw' = DOMAIN gw /\ gw' = [i \in DOMAIN gw |-> gw'[i]]
                /\ \A i \in DOMAIN gw \ {id} : gw'[i] = gw[i]
                /\ \A a \in Admins : job'[a].clean => job[a].clean /\ gw'[id].price = price
           /\ \A a \in Admins : SameWork(a) /\ job'[a].late = job[a].late
<1>1. PICK id \in DOMAIN gw :
        /\ gw[id].pc = "open"
        /\ \/ gw' = [gw EXCEPT ![id] = [pc |-> "read", price |-> price]] /\ UNCHANGED job
           \/ gw' = [gw EXCEPT ![id] = [pc |-> "read", price |-> None]]
              /\ job' = IF price = None THEN job ELSE Soiled(job)
        /\ UNCHANGED <<bill, price, changes, shown, watermark>>
  BY DEF ReadPrice
<1>2. job = [b \in Admins |-> job[b]] /\ \A a \in Admins : IsJob(job[a])
  BY DEF CostShapes
<1>3. JobShape /\ \A a \in Admins : SameWork(a) /\ job'[a].late = job[a].late
  <2>1. CASE job' = job
    <3>1. JobShape
      BY <2>1, <1>2 DEF JobShape
    <3>2. \A a \in Admins : SameWork(a) /\ job'[a].late = job[a].late
      BY <2>1, <1>2 DEF SameWork
    <3> QED
      BY <3>1, <3>2
  <2>2. CASE job' = Soiled(job)
    BY <2>2, <1>2, SoiledFacts DEF JobShape, SameWork
  <2> QED
    BY <1>1, <2>1, <2>2
<1>4. \A a \in Admins : job'[a].clean => job[a].clean /\ gw'[id].price = price
  <2>1. CASE gw' = [gw EXCEPT ![id] = [pc |-> "read", price |-> price]] /\ UNCHANGED job
    BY <2>1
  <2>2. CASE /\ gw' = [gw EXCEPT ![id] = [pc |-> "read", price |-> None]]
             /\ job' = IF price = None THEN job ELSE Soiled(job)
    <3>1. CASE price = None
      BY <2>2, <3>1
    <3>2. CASE price # None
      <4>1. \A a \in Admins : ~job'[a].clean
        BY <2>2, <3>2, <1>2, SoiledFacts
      <4> QED
        BY <4>1
    <3> QED
      BY <3>1, <3>2
  <2> QED
    BY <1>1, <2>1, <2>2
<1>5. /\ gw'[id].pc = "read" /\ IsCharge(gw'[id])
      /\ DOMAIN gw' = DOMAIN gw /\ gw' = [i \in DOMAIN gw |-> gw'[i]]
      /\ \A i \in DOMAIN gw \ {id} : gw'[i] = gw[i]
  <2>1. PICK x : gw' = [gw EXCEPT ![id] = [pc |-> "read", price |-> x]]
    BY <1>1
  <2> QED
    BY <2>1 DEF IsCharge, CostShapes
<1> QED
  BY <1>1, <1>3, <1>4, <1>5

\* a recalculation that begins those it overlaps.
LEMMA BeginEffect ==
    ASSUME CostShapes, NEW a \in Admins, Begin(a)
    PROVE  /\ UNCHANGED <<bill, price, gw, shown, watermark>> /\ JobShape
           /\ IsJob(job'[a]) /\ job[a].pc = "idle" /\ job'[a].pc \in {"refused", "scan"}
           /\ job'[a].pc = "refused" => job'[a].clean = job[a].clean
           /\ Unset(job'[a].cursor) /\ job'[a].refreshed = job[a].refreshed
           /\ job'[a].pc = "scan" =>
                /\ job'[a].price = price
                /\ job'[a].clean => \A b \in Admins \ {a} : ~Running(b)
                /\ job'[a].clean => \A id \in DOMAIN gw : gw[id].pc = "read" => gw[id].price = price
           /\ \A b \in Admins \ {a} :
                /\ SameWork(b) /\ job'[b].late = job[b].late
                /\ job'[b].clean => job[b].clean
                /\ job'[b].clean /\ job'[a].pc = "scan" => ~Running(b)
<1>1. PICK from \in Starts :
        job' = IF price = None THEN [job EXCEPT ![a].pc = "refused"]
               ELSE [(IF Others(a) = {} THEN job ELSE Soiled(job)) EXCEPT
                       ![a] = [@ EXCEPT !.pc = "scan", !.price = price, !.from = from,
                                        !.clean = Others(a) = {} /\ Unread]]
  BY DEF Begin
<1>2. UNCHANGED <<bill, price, gw, shown, watermark>> /\ job[a].pc = "idle"
  BY DEF Begin
<1>3. /\ \A b \in Admins : IsJob(job[b]) /\ Unset(job[a].cursor)
      /\ job = [b \in Admins |-> job[b]]
  BY <1>2 DEF CostShapes
<1> DEFINE clear == Others(a) = {}
<1>4. clear <=> \A b \in Admins \ {a} : ~Running(b)
  BY DEF Others
<1>5. CASE price = None
  <2>1. job' = [job EXCEPT ![a].pc = "refused"]
    BY <1>1, <1>5
  <2>2. IsJob(job'[a]) /\ job'[a].pc = "refused" /\ job'[a].clean = job[a].clean
        /\ job'[a].cursor = job[a].cursor /\ job'[a].refreshed = job[a].refreshed
    BY <2>1, <1>3 DEF IsJob
  <2>3. JobShape /\ \A b \in Admins \ {a} : job'[b] = job[b]
    BY <2>1, <1>3 DEF JobShape
  <2> QED
    BY <1>2, <1>3, <2>2, <2>3 DEF SameWork
<1>6. CASE price # None
  <2> DEFINE old == IF clear THEN job ELSE Soiled(job)
  <2>1. /\ old = [b \in Admins |-> old[b]]
        /\ \A b \in Admins : /\ IsJob(old[b]) /\ old[b].pc = job[b].pc /\ old[b].price = job[b].price
                             /\ old[b].from = job[b].from /\ old[b].cursor = job[b].cursor
                             /\ old[b].batch = job[b].batch /\ old[b].refreshed = job[b].refreshed
                             /\ old[b].late = job[b].late
                             /\ old[b].clean => job[b].clean /\ clear
    <3>1. CASE clear
      BY <3>1, <1>3
    <3>2. CASE ~clear
      <4> HIDE DEF clear
      <4>1. old = Soiled(job)
        BY <3>2
      <4> QED
        BY <4>1, <1>3, SoiledFacts
    <3> QED
      BY <3>1, <3>2
  <2> HIDE DEF old, clear
  <2>2. job' = [old EXCEPT ![a] = [@ EXCEPT !.pc = "scan", !.price = price, !.from = from,
                                            !.clean = clear /\ Unread]]
    BY <1>1, <1>6 DEF old, clear
  <2>3. job'[a] = [old[a] EXCEPT !.pc = "scan", !.price = price, !.from = from, !.clean = clear /\ Unread]
    BY <2>1, <2>2
  <2>4. JobShape /\ \A b \in Admins \ {a} : job'[b] = old[b]
    BY <2>1, <2>2 DEF JobShape
  <2>5. IsJob(old[a])
    BY <2>1
  <2>6. /\ IsJob(job'[a]) /\ job'[a].pc = "scan" /\ job'[a].cursor = old[a].cursor
        /\ job'[a].refreshed = old[a].refreshed
        /\ job'[a].price = price /\ (job'[a].clean <=> clear /\ Unread)
    <3>1. from \in Starts \cup {None}
      OBVIOUS
    <3>2. (clear /\ Unread) \in BOOLEAN
      OBVIOUS
    <3> DEFINE now == clear /\ Unread
    <3> HIDE DEF now
    <3>3. now \in BOOLEAN
      BY <3>2 DEF now
    <3>4. job'[a] = [old[a] EXCEPT !.pc = "scan", !.price = price, !.from = from, !.clean = now]
      BY <2>3 DEF now
    <3>5. IsJob(job'[a])
      BY <3>1, <3>3, <3>4, <2>5 DEF IsJob
    <3>6. /\ job'[a].pc = "scan" /\ job'[a].cursor = old[a].cursor
          /\ job'[a].refreshed = old[a].refreshed /\ job'[a].price = price /\ job'[a].clean = now
      BY <3>4, <2>5 DEF IsJob
    <3> QED
      BY <3>5, <3>6 DEF now
  <2>7. clear => \A b \in Admins \ {a} : ~Running(b)
    BY <1>4 DEF clear
  <2>8. Unread => \A id \in DOMAIN gw : gw[id].pc = "read" => gw[id].price = price
    BY DEF Unread
  <2>9. \A b \in Admins \ {a} :
           /\ SameWork(b) /\ job'[b].late = job[b].late
           /\ job'[b].clean => job[b].clean /\ clear
    BY <2>1, <2>4 DEF SameWork
  <2> QED
    BY <1>2, <1>3, <2>1, <2>4, <2>6, <2>7, <2>8, <2>9
<1> QED
  BY <1>5, <1>6

\* Of listing a batch,
LEMMA ListBatchEffect ==
    ASSUME CostShapes, NEW a \in Admins, ListBatch(a)
    PROVE  /\ UNCHANGED <<bill, price, gw, shown, watermark>> /\ JobShape /\ Only(a)
           /\ IsJob(job'[a]) /\ job[a].pc = "scan"
           /\ job'[a].batch = ListRequestCostRecalcBatch(bill, Model, job[a].from, Now, job[a].cursor, BatchSize)
           /\ job'[a].pc = IF job'[a].batch = <<>> THEN "refresh" ELSE "write"
           /\ job'[a].price = job[a].price /\ job'[a].from = job[a].from
           /\ job'[a].cursor = job[a].cursor /\ job'[a].late = job[a].late
           /\ job'[a].refreshed = job[a].refreshed /\ job'[a].clean = job[a].clean
<1> DEFINE found == ListRequestCostRecalcBatch(bill, Model, job[a].from, Now, job[a].cursor, BatchSize)
<1> DEFINE next == IF found = <<>> THEN "refresh" ELSE "write"
<1> HIDE DEF found, next
<1>1. /\ UNCHANGED <<bill, price, gw, shown, watermark>> /\ job[a].pc = "scan"
      /\ job' = [job EXCEPT ![a].batch = found, ![a].pc = next]
  BY DEF ListBatch, found, next
<1>2. IsJob(job[a]) /\ job = [b \in Admins |-> job[b]]
  BY DEF CostShapes
<1>3. next \in {"refresh", "write"}
  BY DEF next
<1>4. job'[a] = [job[a] EXCEPT !.batch = found, !.pc = next]
  BY <1>1, <1>2
<1>5. IsJob(job'[a])
  BY <1>2, <1>3, <1>4 DEF IsJob
<1>6. /\ job'[a].batch = found /\ job'[a].pc = next
      /\ job'[a].price = job[a].price /\ job'[a].from = job[a].from
      /\ job'[a].cursor = job[a].cursor /\ job'[a].late = job[a].late
      /\ job'[a].refreshed = job[a].refreshed /\ job'[a].clean = job[a].clean
  BY <1>2, <1>4 DEF IsJob
<1>7. JobShape /\ Only(a)
  BY <1>1, <1>2 DEF JobShape, Only
<1> QED
  BY <1>1, <1>5, <1>6, <1>7 DEF found, next

\* writing it,
LEMMA WriteJobEffect ==
    ASSUME CostShapes, NEW a \in Admins, WriteBatch(a)
    PROVE  LET batch == job[a].batch
               last == batch[Len(batch)] IN
           /\ JobShape /\ Only(a) /\ IsJob(job'[a]) /\ job[a].pc = "write"
           /\ job'[a].cursor = [at |-> last.at, id |-> last.id]
           /\ job'[a].pc = IF Len(batch) < BatchSize THEN "refresh" ELSE "scan"
           /\ job'[a].price = job[a].price /\ job'[a].from = job[a].from
           /\ job'[a].late = job[a].late
           /\ job'[a].refreshed = job[a].refreshed /\ job'[a].clean = job[a].clean
<1> DEFINE batch == job[a].batch
<1> DEFINE cursor == [at |-> batch[Len(batch)].at, id |-> batch[Len(batch)].id]
<1> DEFINE next == IF Len(batch) < BatchSize THEN "refresh" ELSE "scan"
<1> DEFINE sum == job[a].updated + Len(batch)
<1>1. /\ job[a].pc = "write"
      /\ job' = [job EXCEPT ![a].updated = sum, ![a].batch = <<>>, ![a].cursor = cursor, ![a].pc = next]
  BY DEF WriteBatch
<1>2. IsJob(job[a]) /\ job = [b \in Admins |-> job[b]]
  BY DEF CostShapes
<1>3. next \in {"refresh", "scan"}
  OBVIOUS
<1> HIDE DEF next, sum, cursor
<1>4. job'[a] = [job[a] EXCEPT !.updated = sum, !.batch = <<>>, !.cursor = cursor, !.pc = next]
  BY <1>1, <1>2
<1>5. IsJob(job'[a])
  BY <1>2, <1>3, <1>4 DEF IsJob
<1>6. /\ job'[a].cursor = cursor /\ job'[a].pc = next
      /\ job'[a].price = job[a].price /\ job'[a].from = job[a].from
      /\ job'[a].late = job[a].late
      /\ job'[a].refreshed = job[a].refreshed /\ job'[a].clean = job[a].clean
  BY <1>2, <1>4 DEF IsJob
<1>7. JobShape /\ Only(a)
  BY <1>1, <1>2 DEF JobShape, Only
<1> QED
  BY <1>1, <1>5, <1>6, <1>7 DEF cursor, next

\* giving up
LEMMA AbortEffect ==
    ASSUME CostShapes, NEW a \in Admins, Abort(a)
    PROVE  /\ UNCHANGED <<bill, price, gw, shown, watermark>> /\ JobShape
           /\ \A b \in Admins : IsJob(job'[b]) /\ ~job'[b].clean /\ job'[b].refreshed = job[b].refreshed
           /\ job[a].pc \in {"scan", "write"} /\ job'[a].pc = "failed"
           /\ \A b \in Admins \ {a} : SameWork(b)
<1> DEFINE mid == [job EXCEPT ![a].pc = "failed"]
<1>1. /\ UNCHANGED <<bill, price, gw, shown, watermark>> /\ job[a].pc \in {"scan", "write"}
      /\ job' = Soiled(mid)
  BY DEF Abort
<1>2. job = [c \in Admins |-> job[c]] /\ \A b \in Admins : IsJob(job[b])
  BY DEF CostShapes
<1>3. \A b \in Admins : mid[b] = IF b = a THEN [job[a] EXCEPT !.pc = "failed"] ELSE job[b]
  BY <1>2
<1> HIDE DEF mid
<1>4. IsJob(mid[a]) /\ mid[a].pc = "failed" /\ mid[a].refreshed = job[a].refreshed
  BY <1>2, <1>3 DEF IsJob
<1>5. \A b \in Admins : IsJob(mid[b])
  BY <1>2, <1>3, <1>4
<1>6. /\ job' = [b \in Admins |-> job'[b]]
      /\ \A b \in Admins :
           /\ IsJob(job'[b]) /\ ~job'[b].clean /\ job'[b].pc = mid[b].pc /\ job'[b].price = mid[b].price
           /\ job'[b].from = mid[b].from /\ job'[b].cursor = mid[b].cursor
           /\ job'[b].batch = mid[b].batch /\ job'[b].refreshed = mid[b].refreshed
  BY <1>1, <1>5, SoiledFacts
<1> QED
  BY <1>1, <1>3, <1>4, <1>6 DEF JobShape, SameWork

\* and refreshing, to the recalculations.
LEMMA RefreshEffect ==
    ASSUME CostShapes, NEW a \in Admins, Refresh(a)
    PROVE  /\ UNCHANGED <<bill, price, gw>> /\ JobShape /\ Only(a)
           /\ IsJob(job'[a]) /\ job[a].pc = "refresh" /\ job'[a].pc = "done"
           /\ job'[a].clean = job[a].clean /\ job'[a].from = job[a].from
           /\ \/ /\ UNCHANGED <<shown, watermark>>
                 /\ job'[a].refreshed = job[a].refreshed /\ job'[a].late = job[a].late
              \/ /\ shown' = Materialized(job[a].from, Now + Width)
                 /\ watermark' = Max(Buckets) + Width
<1>1. IsJob(job[a]) /\ job = [b \in Admins |-> job[b]]
  BY DEF CostShapes
<1>2. /\ job[a].pc = "refresh" /\ UNCHANGED <<bill, price, gw>>
      /\ \/ RefreshOverview(a)
         \/ job' = [job EXCEPT ![a].pc = "done"] /\ UNCHANGED <<shown, watermark>>
  BY DEF Refresh
<1>3. CASE RefreshOverview(a)
  <2>1. /\ shown' = Materialized(job[a].from, Now + Width) /\ watermark' = Max(Buckets) + Width
        /\ job' = [job EXCEPT ![a].pc = "done", ![a].refreshed = TRUE, ![a].late = {}]
    BY <1>3 DEF RefreshOverview
  <2>2. job'[a] = [job[a] EXCEPT !.pc = "done", !.refreshed = TRUE, !.late = {}]
    BY <2>1, <1>1
  <2>3. IsJob(job'[a])
    BY <2>2, <1>1 DEF IsJob
  <2>4. job'[a].pc = "done" /\ job'[a].clean = job[a].clean /\ job'[a].from = job[a].from
    BY <2>2, <1>1 DEF IsJob
  <2>5. JobShape /\ Only(a)
    BY <2>1, <1>1 DEF JobShape, Only
  <2> QED
    BY <1>2, <2>1, <2>3, <2>4, <2>5
<1>4. CASE job' = [job EXCEPT ![a].pc = "done"] /\ UNCHANGED <<shown, watermark>>
  <2>1. job'[a] = [job[a] EXCEPT !.pc = "done"]
    BY <1>4, <1>1
  <2>2. IsJob(job'[a])
    BY <2>1, <1>1 DEF IsJob
  <2>3. /\ job'[a].pc = "done" /\ job'[a].clean = job[a].clean /\ job'[a].from = job[a].from
        /\ job'[a].refreshed = job[a].refreshed /\ job'[a].late = job[a].late
    BY <2>1, <1>1 DEF IsJob
  <2>4. JobShape /\ Only(a)
    BY <1>4, <1>1 DEF JobShape, Only
  <2> QED
    BY <1>2, <1>4, <2>2, <2>3, <2>4
<1> QED
  BY <1>2, <1>3, <1>4

\* A step that writes no row keeps what it does not touch.
LEMMA SameShapes ==
    ASSUME CostShapes, bill' = bill, JobShape, watermark' \in Int,
           \A a \in Admins : IsJob(job'[a]) /\ (job'[a].pc = "idle" => Unset(job'[a].cursor)),
           gw' = [id \in DOMAIN gw' |-> gw'[id]], \A id \in DOMAIN gw' : IsCharge(gw'[id])
    PROVE  CostShapes'
  BY DEF CostShapes, JobShape

\* A batch stays one of finished rows while finished rows stay,
LEMMA BatchKept ==
    ASSUME NEW table, NEW table2, NEW t, NEW s, BatchOf(table, t), s.batch = t.batch, s.from = t.from,
           \A r \in table : r.reason # None =>
               \E q \in table2 : q.id = r.id /\ q.at = r.at /\ q.tokens = r.tokens /\ q.reason # None
    PROVE  BatchOf(table2, s)
<1>1. \A b : Listed(table, t, b) => Listed(table2, s, b)
  BY DEF Listed, Inside
<1> QED
  BY <1>1 DEF BatchOf

\* so all do where the table is left alone.
LEMMA BatchesStay ==
    ASSUME Batches, bill' = bill,
           \A a \in Admins : job'[a].pc = "write" =>
               job[a].pc = "write" /\ job'[a].batch = job[a].batch /\ job'[a].from = job[a].from
    PROVE  Batches'
<1> SUFFICES ASSUME NEW a \in Admins, job'[a].pc = "write" PROVE BatchOf(bill, job'[a])
  BY DEF Batches
<1>1. BatchOf(bill, job[a])
  BY DEF Batches
<1>2. \A r \in bill : r.reason # None =>
         \E q \in bill : q.id = r.id /\ q.at = r.at /\ q.tokens = r.tokens /\ q.reason # None
  OBVIOUS
<1> QED
  BY <1>1, <1>2, BatchKept

\* How far a recalculation has come depends on its own record alone.
LEMMA SameBilling ==
    ASSUME NEW table, NEW p, NEW t, NEW s, Billing(table, p, t), s.from = t.from,
           s.pc = t.pc, s.cursor = t.cursor, s.batch = t.batch
    PROVE  Billing(table, p, s)
  BY DEF Billing, Inside, Awaits

\* The last bucket that has ended begins at a number.
LEMMA BucketNumbers == Now - (Now % Width) \in Int
<1>1. Now \in Int /\ Width \in Int /\ Width > 0
  BY NumbersAssumption
<1> QED
  BY <1>1

\* There is a last bucket.
LEMMA MaxBucket == Max(Buckets) \in Nat /\ \A b \in Buckets : b <= Max(Buckets)
<1>1. Buckets \subseteq Nat /\ \A b \in Buckets : b <= Now
  BY NumbersAssumption DEF Buckets
<1>2. 0 \in Buckets
  <2>1. 0 % Width = 0
    BY NumbersAssumption
  <2> QED
    BY <2>1, NumbersAssumption DEF Buckets
<1>3. \E m \in Buckets : \A n \in Buckets : n <= m
  BY <1>1, <1>2, NumbersAssumption, Greatest
<1>4. \E m \in Buckets : \A n \in Buckets : m >= n
  BY <1>1, <1>3
<1>5. Max(Buckets) \in Buckets /\ \A n \in Buckets : Max(Buckets) >= n
  BY <1>4 DEF Max
<1> QED
  BY <1>1, <1>5

\* Each action keeps the invariant: a price changed,
LEMMA ChangePriceKeeps == ASSUME CostInv, ChangePrice PROVE CostInv'
<1>1. /\ UNCHANGED <<bill, gw, shown, watermark>> /\ JobShape
      /\ \A a \in Admins : SameWork(a) /\ ~job'[a].clean
  BY ChangePriceEffect DEF CostInv
<1>2. CostShapes'
  <2>1. \A a \in Admins : IsJob(job'[a]) /\ (job'[a].pc = "idle" => Unset(job'[a].cursor))
    BY <1>1 DEF SameWork, CostInv, CostShapes
  <2> QED
    BY <1>1, <2>1, SameShapes DEF CostInv, CostShapes
<1>3. Open'
  BY <1>1 DEF CostInv, Open
<1>4. Batches'
  BY <1>1, BatchesStay DEF CostInv, SameWork
<1>5. OnePrice' /\ Progress'
  BY <1>1 DEF OnePrice, Progress
<1> QED
  BY <1>2, <1>3, <1>4, <1>5 DEF CostInv

\* a price read,
LEMMA ReadPriceKeeps == ASSUME CostInv, ReadPrice PROVE CostInv'
<1>1. /\ UNCHANGED <<bill, price, shown, watermark>> /\ JobShape
      /\ \A a \in Admins : SameWork(a)
  BY ReadPriceEffect DEF CostInv
<1>2. PICK id \in DOMAIN gw :
        /\ gw[id].pc = "open" /\ gw'[id].pc = "read" /\ IsCharge(gw'[id])
        /\ DOMAIN gw' = DOMAIN gw /\ gw' = [i \in DOMAIN gw |-> gw'[i]]
        /\ \A i \in DOMAIN gw \ {id} : gw'[i] = gw[i]
        /\ \A a \in Admins : job'[a].clean => job[a].clean /\ gw'[id].price = price
  BY ReadPriceEffect DEF CostInv
<1>3. CostShapes'
  <2>1. \A a \in Admins : IsJob(job'[a]) /\ (job'[a].pc = "idle" => Unset(job'[a].cursor))
    BY <1>1 DEF SameWork, CostInv, CostShapes
  <2>2. gw' = [i \in DOMAIN gw' |-> gw'[i]] /\ \A i \in DOMAIN gw' : IsCharge(gw'[i])
    BY <1>2 DEF CostInv, CostShapes
  <2>3. watermark' \in Int
    BY <1>1 DEF CostInv, CostShapes
  <2> QED
    BY <1>1, <2>1, <2>2, <2>3, SameShapes DEF CostInv
<1>4. Open'
  <2>1. \A i \in DOMAIN gw' : gw'[i].pc \in {"open", "read"} => gw[i].pc \in {"open", "read"}
    BY <1>2
  <2> QED
    BY <1>1, <1>2, <2>1 DEF CostInv, Open
<1>5. Batches'
  BY <1>1, BatchesStay DEF CostInv, SameWork
<1>6. OnePrice'
  <2> SUFFICES ASSUME NEW a \in Admins, job'[a].clean
               PROVE  /\ job'[a].pc \in {"scan", "write", "refresh", "done"}
                      /\ \A b \in Admins : Running(b)' => job'[b].price = price /\ (Running(a)' => b = a)
                      /\ \A i \in DOMAIN gw' : gw'[i].pc = "read" => gw'[i].price = price
    BY <1>1 DEF OnePrice
  <2>1. job[a].clean /\ gw'[id].price = price
    BY <1>2
  <2>2. \A b \in Admins : Running(b)' <=> Running(b)
    BY <1>1 DEF SameWork, Running
  <2>3. \A i \in DOMAIN gw' : gw'[i].pc = "read" => gw'[i].price = price
    BY <1>2, <2>1 DEF CostInv, OnePrice
  <2> QED
    BY <1>1, <2>1, <2>2, <2>3 DEF CostInv, OnePrice, SameWork
<1>7. Progress'
  <2> SUFFICES ASSUME NEW a \in Admins, job'[a].clean PROVE Billing(bill, price, job'[a])
    BY <1>1 DEF Progress
  <2>1. Billing(bill, price, job[a])
    BY <1>2 DEF CostInv, Progress
  <2> QED
    BY <2>1, <1>1, SameBilling DEF SameWork
<1> QED
  BY <1>3, <1>4, <1>5, <1>6, <1>7 DEF CostInv

\* a recalculation begun,
LEMMA BeginKeeps == ASSUME CostInv, NEW a \in Admins, Begin(a) PROVE CostInv'
<1>1. /\ UNCHANGED <<bill, price, gw, shown, watermark>> /\ JobShape
      /\ IsJob(job'[a]) /\ job[a].pc = "idle" /\ job'[a].pc \in {"refused", "scan"}
      /\ job'[a].pc = "refused" => job'[a].clean = job[a].clean
      /\ Unset(job'[a].cursor)
      /\ job'[a].pc = "scan" =>
           /\ job'[a].price = price
           /\ job'[a].clean => \A b \in Admins \ {a} : ~Running(b)
           /\ job'[a].clean => \A id \in DOMAIN gw : gw[id].pc = "read" => gw[id].price = price
      /\ \A b \in Admins \ {a} :
           /\ SameWork(b) /\ job'[b].late = job[b].late
           /\ job'[b].clean => job[b].clean
           /\ job'[b].clean /\ job'[a].pc = "scan" => ~Running(b)
  BY BeginEffect DEF CostInv
<1>2. ~job[a].clean
  BY <1>1 DEF CostInv, OnePrice
<1>3. CostShapes'
  <2>1. \A b \in Admins : IsJob(job'[b]) /\ (job'[b].pc = "idle" => Unset(job'[b].cursor))
    BY <1>1 DEF SameWork, CostInv, CostShapes
  <2> QED
    BY <1>1, <2>1, SameShapes DEF CostInv, CostShapes
<1>4. Open'
  BY <1>1 DEF CostInv, Open
<1>5. Batches'
  BY <1>1, BatchesStay DEF CostInv, SameWork
<1>6. OnePrice'
  <2> SUFFICES ASSUME NEW c \in Admins, job'[c].clean
               PROVE  /\ job'[c].pc \in {"scan", "write", "refresh", "done"}
                      /\ \A b \in Admins : Running(b)' => job'[b].price = price /\ (Running(c)' => b = c)
                      /\ \A i \in DOMAIN gw : gw[i].pc = "read" => gw[i].price = price
    BY <1>1 DEF OnePrice
  <2>1. \A b \in Admins \ {a} : (Running(b)' <=> Running(b)) /\ job'[b].price = job[b].price
    BY <1>1 DEF SameWork, Running
  <2>2. Running(a)' <=> job'[a].pc = "scan"
    BY <1>1 DEF Running
  <2>3. CASE c = a
    <3>1. job'[a].pc = "scan"
      BY <1>1, <1>2, <2>3
    <3> QED
      BY <1>1, <2>1, <2>3, <3>1
  <2>4. CASE c # a
    <3>1. job[c].clean /\ job'[c].pc = job[c].pc
      BY <1>1, <2>4 DEF SameWork
    <3>2. \A b \in Admins : Running(b) => job[b].price = price /\ (Running(c) => b = c)
      BY <3>1 DEF CostInv, OnePrice
    <3>3. \A b \in Admins : Running(b)' => job'[b].price = price
      BY <1>1, <2>1, <2>2, <3>2
    <3>4. \A b \in Admins : Running(b)' /\ Running(c)' => b = c
      BY <1>1, <2>1, <2>2, <2>4, <3>2
    <3> QED
      BY <3>1, <3>3, <3>4 DEF CostInv, OnePrice
  <2> QED
    BY <2>3, <2>4
<1>7. Progress'
  <2> SUFFICES ASSUME NEW c \in Admins, job'[c].clean PROVE Billing(bill, price, job'[c])
    BY <1>1 DEF Progress
  <2>1. CASE c = a
    <3>1. job'[a].pc = "scan" /\ Unset(job'[a].cursor)
      BY <1>1, <1>2, <2>1
    <3> QED
      BY <2>1, <3>1 DEF Billing, Awaits
  <2>2. CASE c # a
    <3>1. Billing(bill, price, job[c])
      BY <1>1, <2>2 DEF CostInv, Progress
    <3> QED
      BY <3>1, <1>1, <2>2, SameBilling DEF SameWork
  <2> QED
    BY <2>1, <2>2
<1> QED
  BY <1>3, <1>4, <1>5, <1>6, <1>7 DEF CostInv

\* a batch listed,
LEMMA ListBatchKeeps == ASSUME CostInv, NEW a \in Admins, ListBatch(a) PROVE CostInv'
<1> DEFINE t == job[a]
<1> DEFINE S == {r \in bill : /\ r.equal["model"] = Model
                              /\ (Unset(t.from) \/ r.at >= t.from) /\ r.at < Now
                              /\ ~Unset(r.reason)
                              /\ Unset(t.cursor) \/ Earlier(t.cursor, r)}
<1> DEFINE q == Oldest(S, BatchSize)
<1>1. /\ UNCHANGED <<bill, price, gw, shown, watermark>> /\ JobShape /\ Only(a)
      /\ IsJob(job'[a]) /\ job[a].pc = "scan"
      /\ job'[a].batch = q
      /\ job'[a].pc = IF job'[a].batch = <<>> THEN "refresh" ELSE "write"
      /\ job'[a].price = job[a].price /\ job'[a].from = job[a].from
      /\ job'[a].cursor = job[a].cursor /\ job'[a].late = job[a].late
      /\ job'[a].refreshed = job[a].refreshed /\ job'[a].clean = job[a].clean
  BY ListBatchEffect DEF CostInv, ListRequestCostRecalcBatch
<1>2. Keyed(S)
  <2>1. IsTable(bill) /\ S \in SUBSET bill
    BY DEF CostInv, CostShapes
  <2>2. IsFiniteSet(S)
    BY <2>1, FS_Subset DEF IsTable
  <2> HIDE DEF S
  <2> QED
    BY <2>1, <2>2 DEF Keyed, IsTable, IsRow
<1>3. BatchSize \in Nat /\ BatchSize >= 1
  BY NumbersAssumption
<1>4. /\ Len(q) \in Nat /\ DOMAIN q = 1 .. Len(q) /\ Len(q) <= BatchSize /\ (q = <<>> <=> Len(q) = 0)
      /\ \A i \in 1 .. Len(q) : q[i] \in S
      /\ \A i, j \in 1 .. Len(q) : i < j => Earlier(q[i], q[j])
      /\ \A r \in S : \/ \E i \in 1 .. Len(q) : q[i] = r
                      \/ Len(q) = BatchSize /\ \A i \in 1 .. Len(q) : Earlier(q[i], r)
  <2> HIDE DEF S
  <2>1. q \in Seq(S)
    BY <1>2, <1>3, OldestFacts
  <2>2. q = <<>> <=> Len(q) = 0
    <3> HIDE DEF q
    <3> QED
      BY <2>1
  <2> QED
    BY <1>2, <1>3, <2>2, OldestFacts
<1>5. \A r \in S : r \in bill /\ Inside(t, r) /\ r.reason # None
  BY DEF Inside, Unset
<1>6. \A r \in bill : r.reason # None /\ Inside(t, r) /\ (Unset(t.cursor) \/ Earlier(t.cursor, r)) => r \in S
  BY DEF Inside, Unset, CostInv, CostShapes
<1> HIDE DEF S, q
<1>7. CostShapes'
  <2>1. \A b \in Admins : IsJob(job'[b]) /\ (job'[b].pc = "idle" => Unset(job'[b].cursor))
    BY <1>1 DEF Only, CostInv, CostShapes
  <2> QED
    BY <1>1, <2>1, SameShapes DEF CostInv, CostShapes
<1>8. Open'
  BY <1>1 DEF CostInv, Open
<1>9. Batches'
  <2> SUFFICES ASSUME NEW b \in Admins, job'[b].pc = "write" PROVE BatchOf(bill, job'[b])
    BY <1>1 DEF Batches
  <2>1. CASE b = a
    <3>1. Len(q) >= 1
      BY <1>1, <1>4, <2>1
    <3>2. \A i \in 1 .. Len(q) : Listed(bill, job'[a], q[i])
      <4> SUFFICES ASSUME NEW i \in 1 .. Len(q) PROVE Listed(bill, job'[a], q[i])
        OBVIOUS
      <4>1. q[i] \in bill /\ Inside(t, q[i]) /\ q[i].reason # None
        BY <1>4, <1>5
      <4> QED
        BY <4>1, <1>1 DEF Listed, Inside
    <3> QED
      BY <1>1, <1>4, <2>1, <3>1, <3>2 DEF BatchOf
  <2>2. CASE b # a
    BY <1>1, <2>2 DEF Only, CostInv, Batches
  <2> QED
    BY <2>1, <2>2
<1>10. OnePrice'
  <2>1. \A b \in Admins : (Running(b)' <=> Running(b)) /\ job'[b].price = job[b].price
                          /\ job'[b].clean = job[b].clean
    BY <1>1 DEF Only, Running
  <2>2. \A b \in Admins : job'[b].clean => job'[b].pc \in {"scan", "write", "refresh", "done"}
    BY <1>1 DEF Only, CostInv, OnePrice
  <2> QED
    BY <1>1, <2>1, <2>2 DEF CostInv, OnePrice
<1>11. Progress'
  <2> SUFFICES ASSUME NEW c \in Admins, job'[c].clean PROVE Billing(bill, price, job'[c])
    BY <1>1 DEF Progress
  <2>1. Billing(bill, price, job[c])
    BY <1>1 DEF Only, CostInv, Progress
  <2>2. CASE c # a
    BY <1>1, <2>1, <2>2 DEF Only
  <2>3. CASE c = a
    <3> SUFFICES ASSUME NEW r \in bill, r.reason # None, Inside(t, r), Awaits(t, r)
                 PROVE  Awaits(job'[a], r)
      BY <1>1, <2>1, <2>3 DEF Billing, Inside
    <3>1. Unset(t.cursor) \/ Earlier(t.cursor, r)
      BY <1>1 DEF Awaits
    <3>2. r \in S
      BY <3>1, <1>6
    <3>3. CASE \E i \in 1 .. Len(q) : q[i] = r
      <4>1. q # <<>>
        BY <3>3, <1>4
      <4> QED
        BY <1>1, <1>4, <3>3, <4>1 DEF Awaits
    <3>4. CASE Len(q) = BatchSize /\ \A i \in 1 .. Len(q) : Earlier(q[i], r)
      <4>1. q # <<>> /\ Len(q) \in 1 .. Len(q)
        BY <3>4, <1>3, <1>4
      <4> QED
        BY <1>1, <3>4, <4>1 DEF Awaits
    <3> QED
      BY <1>4, <3>2, <3>3, <3>4
  <2> QED
    BY <2>2, <2>3
<1> QED
  BY <1>7, <1>8, <1>9, <1>10, <1>11 DEF CostInv

\* a recalculation given up,
LEMMA AbortKeeps == ASSUME CostInv, NEW a \in Admins, Abort(a) PROVE CostInv'
<1>1. /\ UNCHANGED <<bill, price, gw, shown, watermark>> /\ JobShape
      /\ \A b \in Admins : IsJob(job'[b]) /\ ~job'[b].clean
      /\ job'[a].pc = "failed" /\ \A b \in Admins \ {a} : SameWork(b)
  BY AbortEffect DEF CostInv
<1>2. CostShapes'
  <2>1. \A b \in Admins : IsJob(job'[b]) /\ (job'[b].pc = "idle" => Unset(job'[b].cursor))
    BY <1>1 DEF SameWork, CostInv, CostShapes
  <2> QED
    BY <1>1, <2>1, SameShapes DEF CostInv, CostShapes
<1>3. Open'
  BY <1>1 DEF CostInv, Open
<1>4. Batches'
  BY <1>1, BatchesStay DEF CostInv, SameWork
<1>5. OnePrice' /\ Progress'
  BY <1>1 DEF OnePrice, Progress
<1> QED
  BY <1>2, <1>3, <1>4, <1>5 DEF CostInv

\* Once a list comes back short or empty nothing of the window awaits a batch.
LEMMA RefreshKeeps == ASSUME CostInv, NEW a \in Admins, Refresh(a) PROVE CostInv'
<1>1. /\ UNCHANGED <<bill, price, gw>> /\ JobShape /\ Only(a)
      /\ IsJob(job'[a]) /\ job[a].pc = "refresh" /\ job'[a].pc = "done"
      /\ job'[a].clean = job[a].clean /\ job'[a].from = job[a].from
  BY RefreshEffect DEF CostInv
<1>2. CostShapes'
  <2>1. \A b \in Admins : IsJob(job'[b]) /\ (job'[b].pc = "idle" => Unset(job'[b].cursor))
    BY <1>1 DEF Only, CostInv, CostShapes
  <2>2. watermark' \in Int
    BY MaxBucket, RefreshEffect, NumbersAssumption DEF CostInv, CostShapes
  <2> QED
    BY <1>1, <2>1, <2>2, SameShapes DEF CostInv, CostShapes
<1>3. Open'
  BY <1>1 DEF CostInv, Open
<1>4. Batches'
  BY <1>1, BatchesStay DEF CostInv, Only
<1>5. OnePrice'
  <2>1. \A b \in Admins : Running(b)' => Running(b) /\ job'[b].price = job[b].price
    BY <1>1 DEF Only, Running
  <2>2. \A b \in Admins : job'[b].clean = job[b].clean /\ job'[b].pc \in {job[b].pc, "done"}
    BY <1>1 DEF Only
  <2> QED
    BY <1>1, <2>1, <2>2 DEF CostInv, OnePrice
<1>6. Progress'
  <2> SUFFICES ASSUME NEW c \in Admins, job'[c].clean PROVE Billing(bill, price, job'[c])
    BY <1>1 DEF Progress
  <2>1. Billing(bill, price, job[c])
    BY <1>1 DEF Only, CostInv, Progress
  <2>2. CASE c # a
    BY <1>1, <2>1, <2>2 DEF Only
  <2>3. CASE c = a
    BY <1>1, <2>1, <2>3 DEF Billing, Inside, Awaits
  <2> QED
    BY <2>2, <2>3
<1> QED
  BY <1>2, <1>3, <1>4, <1>5, <1>6 DEF CostInv

\* or by the policy.
LEMMA PolicyRefreshKeeps == ASSUME CostInv, PolicyRefresh PROVE CostInv'
<1>1. UNCHANGED <<bill, price, gw, job>> /\ watermark' = Max({watermark, Now - (Now % Width)})
  BY DEF PolicyRefresh
<1>2. CostShapes'
  <2>1. watermark' \in Int
    BY <1>1, MaxOfTwo, BucketNumbers DEF CostInv, CostShapes
  <2> QED
    BY <1>1, <2>1 DEF CostInv, CostShapes
<1>3. Open'
  BY <1>1 DEF CostInv, Open
<1>4. Batches'
  BY <1>1 DEF CostInv, Batches
<1>5. OnePrice'
  BY <1>1 DEF CostInv, OnePrice, Running
<1>6. Progress'
  BY <1>1 DEF CostInv, Progress
<1> QED
  BY <1>2, <1>3, <1>4, <1>5, <1>6 DEF CostInv

\* What a row's end does to a recalculation.
LEMMA LateByFacts ==
    ASSUME NEW t, NEW r, IsJob(t)
    PROVE  LET s == LateBy(t, r) IN
           /\ IsJob(s) /\ s.pc = t.pc /\ s.price = t.price /\ s.from = t.from /\ s.cursor = t.cursor
           /\ s.batch = t.batch /\ s.refreshed = t.refreshed /\ s.clean = t.clean
           /\ s.late = t.late \cup Disturbed(r)
<1> DEFINE late == t.late \cup Disturbed(r)
<1>1. LateBy(t, r) = [t EXCEPT !.late = late]
  BY DEF LateBy
<1> HIDE DEF late
<1>2. IsJob(LateBy(t, r))
  BY <1>1 DEF IsJob
<1>3. LET s == LateBy(t, r) IN
      /\ s.pc = t.pc /\ s.price = t.price /\ s.from = t.from /\ s.cursor = t.cursor
      /\ s.batch = t.batch /\ s.refreshed = t.refreshed /\ s.clean = t.clean /\ s.late = late
  BY <1>1 DEF IsJob
<1> QED
  BY <1>2, <1>3 DEF late

\* A row finished at the one pricing there is is billed right,
LEMMA FinishKeeps == ASSUME CostInv, Finish PROVE CostInv'
<1>1. PICK r \in bill, e \in bill' :
        /\ r.id \in DOMAIN gw /\ gw[r.id].pc = "read"
        /\ gw' = [gw EXCEPT ![r.id].pc = "written"]
        /\ IsRow(e) /\ e.id = r.id /\ e.at = r.at /\ e.equal = r.equal /\ e.reason # None
        /\ Right(gw[r.id].price, e)
        /\ bill' = (bill \ {r}) \cup {e}
        /\ job' = [a \in Admins |-> LateBy(job[a], r)]
  BY FinishEffect DEF CostInv
<1>2. UNCHANGED <<price, watermark>>
  BY FinishEffect DEF CostInv
<1>3. /\ IsTable(bill) /\ \A q \in bill : q.equal["model"] = Model
      /\ \A q \in bill : q.id = r.id => q = r
  BY DEF CostInv, CostShapes, IsTable
<1>4. JobShape /\ \A a \in Admins : SameWork(a) /\ job'[a].clean = job[a].clean
  <2>1. \A a \in Admins : IsJob(job[a])
    BY DEF CostInv, CostShapes
  <2>2. \A a \in Admins : job'[a] = LateBy(job[a], r)
    BY <1>1
  <2>3. \A a \in Admins : SameWork(a) /\ job'[a].clean = job[a].clean
    BY <2>1, <2>2, LateByFacts DEF SameWork
  <2>4. JobShape
    BY <1>1 DEF JobShape
  <2> QED
    BY <2>3, <2>4
<1>5. /\ gw' = [i \in DOMAIN gw' |-> gw'[i]] /\ DOMAIN gw' = DOMAIN gw
      /\ \A i \in DOMAIN gw' : IsCharge(gw'[i])
      /\ gw'[r.id].pc = "written" /\ \A i \in DOMAIN gw \ {r.id} : gw'[i] = gw[i]
  <2>1. \A i \in DOMAIN gw : IsCharge(gw[i])
    BY DEF CostInv, CostShapes
  <2>2. IsCharge(gw'[r.id]) /\ gw'[r.id].pc = "written"
    BY <1>1, <2>1 DEF IsCharge
  <2> QED
    BY <1>1, <2>1, <2>2 DEF CostInv, CostShapes
<1>6. CostShapes'
  <2>1. IsFiniteSet(bill')
    <3>1. IsFiniteSet(bill \ {r})
      BY <1>3, FS_RemoveElement DEF IsTable
    <3> QED
      BY <1>1, <3>1, FS_AddElement
  <2>2. IsTable(bill')
    BY <1>1, <1>3, <2>1 DEF IsTable
  <2>3. \A q \in bill' : q.equal["model"] = Model
    BY <1>1, <1>3
  <2>4. \A a \in Admins : IsJob(job'[a]) /\ (job'[a].pc = "idle" => Unset(job'[a].cursor))
    BY <1>4 DEF SameWork, CostInv, CostShapes
  <2>5. watermark' \in Int
    BY <1>2 DEF CostInv, CostShapes
  <2> QED
    BY <1>4, <1>5, <2>2, <2>3, <2>4, <2>5 DEF CostShapes, JobShape
<1>7. Open'
  <2> SUFFICES ASSUME NEW q \in bill', q.id \in DOMAIN gw', gw'[q.id].pc \in {"open", "read"}
               PROVE  q.reason = None
    BY DEF Open
  <2>1. q # e
    BY <1>1, <1>5
  <2>2. q \in bill /\ q.id # r.id
    BY <1>1, <1>3, <2>1
  <2> QED
    BY <1>5, <2>2 DEF CostInv, Open
<1>8. r.reason = None
  BY <1>1 DEF CostInv, Open
<1>9. Batches'
  <2> SUFFICES ASSUME NEW a \in Admins, job'[a].pc = "write" PROVE BatchOf(bill', job'[a])
    BY DEF Batches
  <2>1. BatchOf(bill, job[a]) /\ job'[a].batch = job[a].batch /\ job'[a].from = job[a].from
    BY <1>4 DEF SameWork, CostInv, Batches
  <2>2. \A p \in bill : p.reason # None =>
           \E q \in bill' : q.id = p.id /\ q.at = p.at /\ q.tokens = p.tokens /\ q.reason # None
    BY <1>1, <1>8
  <2> QED
    BY <2>1, <2>2, BatchKept
<1>10. OnePrice'
  <2>1. \A b \in Admins : (Running(b)' <=> Running(b)) /\ job'[b].price = job[b].price
                          /\ job'[b].clean = job[b].clean /\ job'[b].pc = job[b].pc
    BY <1>4 DEF SameWork, Running
  <2>2. \A i \in DOMAIN gw' : gw'[i].pc = "read" => gw[i].pc = "read" /\ gw'[i].price = gw[i].price
    BY <1>5
  <2> QED
    BY <1>2, <1>5, <2>1, <2>2 DEF CostInv, OnePrice
<1>11. Progress'
  <2> SUFFICES ASSUME NEW a \in Admins, job'[a].clean PROVE Billing(bill', price, job'[a])
    BY <1>2 DEF Progress
  <2>1. Billing(bill, price, job[a]) /\ gw[r.id].price = price
    BY <1>1, <1>4 DEF CostInv, Progress, OnePrice
  <2>2. /\ job'[a].from = job[a].from /\ job'[a].pc = job[a].pc /\ job'[a].cursor = job[a].cursor
        /\ job'[a].batch = job[a].batch
    BY <1>4 DEF SameWork
  <2>3. Billing(bill, price, job'[a])
    BY <2>1, <2>2, SameBilling
  <2>4. Right(price, e)
    BY <1>1, <2>1
  <2>5. \A q \in bill' : q \in bill \/ q = e
    BY <1>1
  <2> QED
    BY <2>3, <2>4, <2>5 DEF Billing
<1> QED
  BY <1>6, <1>7, <1>9, <1>10, <1>11 DEF CostInv

\* and a batch written leaves behind its cursor only rows that are.
LEMMA WriteBatchKeeps == ASSUME CostInv, NEW a \in Admins, WriteBatch(a) PROVE CostInv'
<1> DEFINE t == job[a]
<1> DEFINE Hit(r) == \E i \in DOMAIN t.batch : t.batch[i].id = r.id
<1> DEFINE New(r) == IF Hit(r) THEN Billed(t.price, r) ELSE r
<1>1. /\ bill' = {New(r) : r \in bill} /\ UNCHANGED <<price, gw, shown, watermark>>
  BY WriteEffect DEF CostInv
<1>2. /\ JobShape /\ Only(a) /\ IsJob(job'[a]) /\ t.pc = "write"
      /\ job'[a].cursor = [at |-> t.batch[Len(t.batch)].at, id |-> t.batch[Len(t.batch)].id]
      /\ job'[a].pc = IF Len(t.batch) < BatchSize THEN "refresh" ELSE "scan"
      /\ job'[a].price = t.price /\ job'[a].from = t.from /\ job'[a].clean = t.clean
  BY WriteJobEffect DEF CostInv
<1>3. BatchOf(bill, t)
  BY <1>2 DEF CostInv, Batches
<1>4. \A r \in bill : /\ IsRow(New(r)) /\ New(r).id = r.id /\ New(r).at = r.at /\ New(r).tokens = r.tokens
                      /\ New(r).reason = r.reason /\ New(r).equal = r.equal
                      /\ Hit(r) => Right(t.price, New(r))
                      /\ ~Hit(r) => New(r) = r
                      /\ Right(t.price, r) => New(r) = r
  <2> SUFFICES ASSUME NEW r \in bill
               PROVE  /\ IsRow(New(r)) /\ New(r).id = r.id /\ New(r).at = r.at /\ New(r).tokens = r.tokens
                      /\ New(r).reason = r.reason /\ New(r).equal = r.equal
                      /\ Hit(r) => Right(t.price, New(r))
                      /\ ~Hit(r) => New(r) = r
                      /\ Right(t.price, r) => New(r) = r
    OBVIOUS
  <2>1. IsRow(r)
    BY DEF CostInv, CostShapes, IsTable
  <2> HIDE DEF Hit, t
  <2>2. CASE Hit(r)
    BY <2>1, <2>2, BilledFacts
  <2>3. CASE ~Hit(r)
    BY <2>1, <2>3
  <2> QED
    BY <2>2, <2>3
<1> HIDE DEF Hit, New
<1>5. CostShapes'
  <2>1. IsTable(bill) /\ \A r \in bill : r.equal["model"] = Model
    BY DEF CostInv, CostShapes
  <2>2. IsFiniteSet(bill')
    <3> DEFINE f == [r \in bill |-> New(r)]
    <3>1. f \in Surjection(bill, bill')
      BY <1>1 DEF Surjection
    <3> HIDE DEF f
    <3> QED
      BY <2>1, <3>1, FS_Surjection DEF IsTable
  <2>3. IsTable(bill')
    BY <1>1, <1>4, <2>1, <2>2 DEF IsTable
  <2>4. \A q \in bill' : q.equal["model"] = Model
    BY <1>1, <1>4, <2>1
  <2>5. \A b \in Admins : IsJob(job'[b]) /\ (job'[b].pc = "idle" => Unset(job'[b].cursor))
    BY <1>2 DEF Only, CostInv, CostShapes
  <2> QED
    BY <1>1, <1>2, <2>3, <2>4, <2>5 DEF CostInv, CostShapes, JobShape
<1>6. Open'
  BY <1>1, <1>4 DEF CostInv, Open
<1>7. Batches'
  <2> SUFFICES ASSUME NEW b \in Admins, job'[b].pc = "write" PROVE BatchOf(bill', job'[b])
    BY DEF Batches
  <2>1. b # a /\ job'[b] = job[b]
    BY <1>2 DEF Only
  <2>2. BatchOf(bill, job[b])
    BY <2>1 DEF CostInv, Batches
  <2>3. \A p \in bill : p.reason # None =>
           \E q \in bill' : q.id = p.id /\ q.at = p.at /\ q.tokens = p.tokens /\ q.reason # None
    BY <1>1, <1>4
  <2> QED
    BY <2>1, <2>2, <2>3, BatchKept
<1>8. OnePrice'
  <2>1. \A b \in Admins : /\ Running(b)' => Running(b)
                          /\ job'[b].price = job[b].price /\ job'[b].clean = job[b].clean
    BY <1>2 DEF Only, Running
  <2>2. \A b \in Admins : job'[b].clean => job'[b].pc \in {"scan", "write", "refresh", "done"}
    BY <1>2 DEF Only, CostInv, OnePrice
  <2> QED
    BY <1>1, <2>1, <2>2 DEF CostInv, OnePrice
<1>9. Progress'
  <2> SUFFICES ASSUME NEW c \in Admins, job'[c].clean PROVE Billing(bill', price, job'[c])
    BY <1>1 DEF Progress
  <2>1. job[c].clean /\ job'[c].from = job[c].from /\ Billing(bill, price, job[c])
    BY <1>2 DEF Only, CostInv, Progress
  <2>2. t.price = price /\ (Running(c) => a = c)
    BY <1>2, <2>1 DEF CostInv, OnePrice, Running
  <2> SUFFICES ASSUME NEW r \in bill, New(r).reason # None, Inside(job'[c], New(r))
               PROVE  Right(price, New(r)) \/ Awaits(job'[c], New(r))
    BY <1>1 DEF Billing
  <2>3. r.reason # None /\ Inside(job[c], r)
    BY <1>4, <2>1 DEF Inside
  <2>4. CASE Right(price, r)
    BY <1>4, <2>2, <2>4
  <2>5. CASE Hit(r)
    BY <1>4, <2>2, <2>5
  <2>6. CASE ~Right(price, r) /\ ~Hit(r)
    <3>1. Awaits(job[c], r) /\ New(r) = r
      BY <1>4, <2>1, <2>3, <2>6 DEF Billing
    <3>2. c = a
      BY <2>2, <3>1 DEF Awaits, Running
    <3>3. Len(t.batch) = BatchSize /\ Earlier(t.batch[Len(t.batch)], r)
      BY <1>2, <2>6, <3>1, <3>2 DEF Awaits, Hit
    <3>4. job'[a].pc = "scan"
      BY <1>2, <1>3, <3>3 DEF BatchOf
    <3>5. Earlier(job'[a].cursor, r)
      BY <1>2, <3>3 DEF Earlier
    <3> QED
      BY <3>1, <3>2, <3>4, <3>5 DEF Awaits
  <2> QED
    BY <2>4, <2>5, <2>6
<1> QED
  BY <1>5, <1>6, <1>7, <1>8, <1>9 DEF CostInv

\* The invariant holds at the start
LEMMA InitCosts == CostInit => CostInv
<1> SUFFICES ASSUME CostInit PROVE CostInv
  OBVIOUS
<1> DEFINE All == BilledRows \cup OpenRows
<1> DEFINE New(r) == IF r \in BilledRows THEN Billed(FirstPrice, r) ELSE r
<1>1. IsTable(All) /\ BilledRows \cap OpenRows = {}
  BY RowsAssumption
<1>2. bill = {Billed(FirstPrice, r) : r \in BilledRows} \cup OpenRows
  BY DEF CostInit
<1>3. bill = {New(r) : r \in All}
  BY <1>1, <1>2
<1>4. \A r \in All : /\ IsRow(New(r)) /\ New(r).id = r.id /\ New(r).reason = r.reason
                     /\ New(r).equal = r.equal
  BY <1>1, BilledFacts DEF IsTable
<1>5. IsFiniteSet(bill)
  <2> DEFINE f == [r \in All |-> New(r)]
  <2> HIDE DEF New, All
  <2>1. f \in Surjection(All, bill)
    BY <1>3 DEF Surjection
  <2> HIDE DEF f
  <2> QED
    BY <1>1, <2>1, FS_Surjection DEF IsTable
<1>6. \A r \in All : r.equal["model"] = Model /\ (r \in OpenRows => r.reason = None)
  BY RowsAssumption
<1> HIDE DEF New
<1>7. IsTable(bill) /\ \A q \in bill : q.equal["model"] = Model
  BY <1>1, <1>3, <1>4, <1>5, <1>6 DEF IsTable
<1>8. /\ job = [a \in Admins |-> NoJob] /\ watermark = Now - (Now % Width)
      /\ gw = [id \in {r.id : r \in OpenRows} |-> [pc |-> "open", price |-> None]]
  BY DEF CostInit
<1>9. /\ job = [a \in Admins |-> job[a]]
      /\ \A a \in Admins : IsJob(job[a]) /\ job[a].pc = "idle" /\ Unset(job[a].cursor) /\ ~job[a].clean
  BY <1>8 DEF NoJob, IsJob, Unset
<1>10. /\ gw = [id \in DOMAIN gw |-> gw[id]] /\ \A id \in DOMAIN gw : IsCharge(gw[id])
       /\ \A id \in DOMAIN gw : gw[id].pc = "open"
  BY <1>8 DEF IsCharge
<1>11. CostShapes
  BY <1>7, <1>8, <1>9, <1>10, BucketNumbers DEF CostShapes
<1>12. Open
  <2> SUFFICES ASSUME NEW q \in bill, q.id \in DOMAIN gw PROVE q.reason = None
    BY DEF Open
  <2>1. PICK r \in All : q = New(r)
    BY <1>3
  <2>2. PICK o \in OpenRows : q.id = o.id
    BY <1>8
  <2>3. r = o
    BY <1>1, <1>4, <2>1, <2>2 DEF IsTable
  <2> QED
    BY <1>4, <1>6, <2>1, <2>3
<1> QED
  BY <1>9, <1>11, <1>12 DEF CostInv, Batches, OnePrice, Progress

\* and after every step.
LEMMA CostStep == CostInv /\ [CostNext]_costVars => CostInv'
<1> SUFFICES ASSUME CostInv, [CostNext]_costVars PROVE CostInv'
  OBVIOUS
<1>1. CASE ChangePrice \/ ReadPrice \/ Finish \/ PolicyRefresh
  BY <1>1, ChangePriceKeeps, ReadPriceKeeps, FinishKeeps, PolicyRefreshKeeps
<1>2. ASSUME NEW a \in Admins, Begin(a) \/ ListBatch(a) \/ WriteBatch(a) \/ Abort(a) \/ Refresh(a)
      PROVE  CostInv'
  BY <1>2, BeginKeeps, ListBatchKeeps, WriteBatchKeeps, AbortKeeps, RefreshKeeps
<1>3. CASE UNCHANGED costVars
  BY <1>3 DEF costVars, CostInv, CostShapes, Open, Batches, OnePrice, Running, Progress
<1> QED
  BY <1>1, <1>2, <1>3 DEF CostNext

\* After a recalculation that nothing disturbed, every finished row of its
\* window costs what the model's pricing says (handleRecalculateModelCosts).
THEOREM RecalcRepricesHolds == CostSpec => []RecalcReprices
<1>1. CostInv => RecalcReprices
  <2> SUFFICES ASSUME CostInv, NEW a \in Admins, job[a].pc = "done", job[a].clean,
                      NEW r \in InWindow(a), ~Unset(r.reason)
               PROVE  r.cost = Cost(price, r)
    BY DEF RecalcReprices
  <2>1. r \in bill /\ Inside(job[a], r) /\ r.reason # None
    BY DEF InWindow, Inside, Unset
  <2>2. Right(price, r) \/ Awaits(job[a], r)
    BY <2>1 DEF CostInv, Progress, Billing
  <2> QED
    BY <2>2 DEF Awaits, Right
<1> QED
  BY <1>1, InitCosts, CostStep, PTL DEF CostSpec

\* What a bucket costs depends on its table alone.
LEMMA SameBucket ==
    ASSUME NEW table, NEW table2, NEW b, InBucket(table, b) = InBucket(table2, b)
    PROVE  BucketCost(table, b) = BucketCost(table2, b)
  BY DEF BucketCost

\* A row's end changes the costs of no bucket that it does not make late.
LEMMA FinishBuckets ==
    ASSUME CostInv, Finish
    PROVE  \A a \in Admins, b \in Buckets :
              b \notin job'[a].late => b \notin job[a].late /\ BucketCost(bill', b) = BucketCost(bill, b)
<1>1. PICK r \in bill, e \in bill' :
        /\ e.at = r.at /\ bill' = (bill \ {r}) \cup {e}
        /\ job' = [a \in Admins |-> LateBy(job[a], r)]
  BY FinishEffect DEF CostInv
<1> SUFFICES ASSUME NEW a \in Admins, NEW b \in Buckets, b \notin job'[a].late
             PROVE  b \notin job[a].late /\ BucketCost(bill', b) = BucketCost(bill, b)
  OBVIOUS
<1>2. job'[a].late = job[a].late \cup Disturbed(r)
  BY <1>1, LateByFacts DEF CostInv, CostShapes
<1>3. r.at \notin b .. (b + Width - 1)
  BY <1>2 DEF Disturbed
<1>4. InBucket(bill', b) = InBucket(bill, b)
  BY <1>1, <1>3 DEF InBucket
<1> QED
  BY <1>2, <1>4, SameBucket

\* A batch written after a clean recalculation writes what is there.
LEMMA WriteBuckets ==
    ASSUME CostInv, NEW a \in Admins, WriteBatch(a), NEW c \in Admins, job[c].clean, job[c].pc = "done",
           NEW b \in Buckets, Unset(job[c].from) \/ b >= job[c].from
    PROVE  BucketCost(bill', b) = BucketCost(bill, b)
<1> DEFINE t == job[a]
<1> DEFINE Hit(r) == \E i \in DOMAIN t.batch : t.batch[i].id = r.id
<1> DEFINE New(r) == IF Hit(r) THEN Billed(t.price, r) ELSE r
<1>1. bill' = {New(r) : r \in bill} /\ t.pc = "write"
  BY WriteEffect DEF CostInv
<1>2. t.price = price
  BY <1>1 DEF CostInv, OnePrice, Running
<1>3. b \in Int /\ job[c].from \in Int \cup {None}
  BY NumbersAssumption, StartsAssumption DEF Buckets, CostInv, CostShapes, IsJob
<1>4. \A r \in bill : IsRow(r) /\ New(r).at = r.at
  BY BilledFacts DEF CostInv, CostShapes, IsTable
<1>5. ASSUME NEW r \in bill, r.at \in b .. (b + Width - 1), Hit(r)
      PROVE  Billed(t.price, r) = r
  <2>1. PICK i \in DOMAIN t.batch : t.batch[i].id = r.id
    BY <1>5
  <2>2. Listed(bill, t, t.batch[i])
    BY <1>1, <2>1 DEF CostInv, Batches, BatchOf
  <2>3. r.reason # None /\ r.at < Now
    BY <2>1, <2>2 DEF Listed, Inside, CostInv, CostShapes, IsTable
  <2>4. Inside(job[c], r)
    <3>1. r.at \in Int /\ r.at >= b
      BY <1>3, <1>4, <1>5 DEF IsRow
    <3> QED
      BY <1>3, <2>3, <3>1 DEF Inside, Unset
  <2>5. Right(price, r)
    BY <2>3, <2>4 DEF CostInv, Progress, Billing, Awaits
  <2> QED
    BY <1>2, <1>4, <2>5, BilledFacts
<1>6. \A r \in bill : r.at \in b .. (b + Width - 1) => New(r) = r
  BY <1>5
<1> HIDE DEF New, Hit
<1>7. InBucket(bill', b) = InBucket(bill, b)
  BY <1>1, <1>4, <1>6 DEF InBucket
<1> QED
  BY <1>7, SameBucket

\* What is shown stays right while nothing is materialized and no cost changes.
LEMMA ShowsStay ==
    ASSUME Shows, UNCHANGED <<shown, watermark>>,
           \A a \in Admins : job'[a].refreshed =>
               /\ job[a].refreshed /\ job'[a].pc = job[a].pc
               /\ job'[a].clean => job[a].clean /\ job'[a].from = job[a].from
               /\ \A b \in Buckets \ job'[a].late :
                    job'[a].clean /\ (Unset(job[a].from) \/ b >= job[a].from) =>
                        b \notin job[a].late /\ BucketCost(bill', b) = BucketCost(bill, b)
    PROVE  Shows'
<1> SUFFICES ASSUME NEW a \in Admins, job'[a].refreshed
             PROVE  /\ job'[a].pc = "done"
                    /\ job'[a].clean => \A b \in Buckets \ job'[a].late :
                         Unset(job'[a].from) \/ b >= job'[a].from =>
                             b < watermark /\ shown[b] = BucketCost(bill', b)
  BY DEF Shows
<1>1. job'[a].pc = "done"
  BY DEF Shows
<1>2. ASSUME job'[a].clean, NEW b \in Buckets \ job'[a].late, Unset(job'[a].from) \/ b >= job'[a].from
      PROVE  b < watermark /\ shown[b] = BucketCost(bill', b)
  <2>1. job[a].clean /\ job'[a].from = job[a].from
    BY <1>2
  <2>2. b \notin job[a].late /\ BucketCost(bill', b) = BucketCost(bill, b)
    BY <1>2, <2>1
  <2> QED
    BY <1>2, <2>1, <2>2 DEF Shows
<1> QED
  BY <1>1, <1>2

\* A refresh leaves a bucket or makes it right.
LEMMA MaterializedFacts ==
    ASSUME NEW from, NEW to, shown' = Materialized(from, to), NEW b \in Buckets
    PROVE  /\ shown'[b] \in {shown[b], BucketCost(bill, b)}
           /\ (Unset(from) \/ b >= from) /\ b + Width <= to => shown'[b] = BucketCost(bill, b)
  BY DEF Materialized

\* What a refresh of any window leaves shown of buckets that were shown right.
LEMMA RefreshShows ==
    ASSUME CostInv, Shows, NEW from, NEW to, shown' = Materialized(from, to), bill' = bill,
           NEW a \in Admins, job'[a] = job[a],
           \A b \in Buckets : b < watermark => b < watermark'
    PROVE  job'[a].refreshed => job'[a].pc = "done" /\
               (job'[a].clean => \A b \in Buckets \ job'[a].late :
                    Unset(job'[a].from) \/ b >= job'[a].from =>
                        b < watermark' /\ shown'[b] = BucketCost(bill', b))
<1> SUFFICES ASSUME job[a].refreshed
             PROVE  job[a].pc = "done" /\
               (job[a].clean => \A b \in Buckets \ job[a].late :
                    Unset(job[a].from) \/ b >= job[a].from =>
                        b < watermark' /\ shown'[b] = BucketCost(bill, b))
  OBVIOUS
<1>1. job[a].pc = "done"
  BY DEF Shows
<1>2. ASSUME job[a].clean, NEW b \in Buckets \ job[a].late, Unset(job[a].from) \/ b >= job[a].from
      PROVE  b < watermark' /\ shown'[b] = BucketCost(bill, b)
  <2>1. b < watermark /\ shown[b] = BucketCost(bill, b)
    BY <1>2 DEF Shows
  <2> QED
    BY <2>1, MaterializedFacts
<1> QED
  BY <1>1, <1>2

\* Every step keeps the overview right: this builds on the first invariant.
LEMMA ShowsStep == CostInv /\ Shows /\ [CostNext]_costVars => Shows'
<1> SUFFICES ASSUME CostInv, Shows, [CostNext]_costVars PROVE Shows'
  OBVIOUS
<1>0. CostShapes
  BY DEF CostInv
<1>1. CASE ChangePrice
  <2>1. /\ UNCHANGED <<bill, shown, watermark>>
        /\ \A a \in Admins : SameWork(a) /\ ~job'[a].clean
    BY <1>0, <1>1, ChangePriceEffect
  <2> QED
    BY <2>1, ShowsStay DEF SameWork
<1>2. CASE ReadPrice
  <2>1. /\ UNCHANGED <<bill, shown, watermark>>
        /\ \A a \in Admins : SameWork(a) /\ job'[a].late = job[a].late /\ (job'[a].clean => job[a].clean)
    <3>1. PICK id \in DOMAIN gw : \A a \in Admins : job'[a].clean => job[a].clean /\ gw'[id].price = price
      BY <1>0, <1>2, ReadPriceEffect
    <3> QED
      BY <1>0, <1>2, <3>1, ReadPriceEffect
  <2> QED
    BY <2>1, ShowsStay DEF SameWork
<1>3. CASE Finish
  <2>1. PICK r : job' = [a \in Admins |-> LateBy(job[a], r)]
    BY <1>0, <1>3, FinishEffect
  <2>2. UNCHANGED <<shown, watermark>>
    BY <1>0, <1>3, FinishEffect
  <2>3. \A a \in Admins : IsJob(job[a]) /\ job'[a] = LateBy(job[a], r)
    BY <1>0, <2>1 DEF CostShapes
  <2>4. \A a \in Admins : /\ job'[a].pc = job[a].pc /\ job'[a].from = job[a].from
                          /\ job'[a].refreshed = job[a].refreshed /\ job'[a].clean = job[a].clean
    BY <2>3, LateByFacts
  <2> QED
    BY <1>3, <2>2, <2>4, FinishBuckets, ShowsStay
<1>4. CASE PolicyRefresh
  <2>1. /\ shown' = Materialized(Now - Horizon, Now) /\ UNCHANGED <<bill, job>>
        /\ watermark' = Max({watermark, Now - (Now % Width)})
    BY <1>4 DEF PolicyRefresh
  <2>2. watermark \in Int /\ watermark' \in Int /\ watermark' >= watermark
    BY <1>0, <2>1, BucketNumbers, MaxOfTwo DEF CostShapes
  <2>3. \A b \in Buckets : b < watermark => b < watermark'
    BY <2>2 DEF Buckets
  <2> QED
    BY <2>1, <2>3, RefreshShows DEF Shows
<1>5. ASSUME NEW a \in Admins, Begin(a) PROVE Shows'
  <2>1. /\ UNCHANGED <<bill, shown, watermark>> /\ job[a].pc = "idle" /\ job'[a].refreshed = job[a].refreshed
        /\ \A b \in Admins \ {a} :
             /\ SameWork(b) /\ job'[b].late = job[b].late
             /\ job'[b].clean => job[b].clean
    BY <1>0, <1>5, BeginEffect
  <2>2. ~job'[a].refreshed
    BY <2>1 DEF Shows
  <2> QED
    BY <2>1, <2>2, ShowsStay DEF SameWork
<1>6. ASSUME NEW a \in Admins, ListBatch(a) PROVE Shows'
  <2>1. /\ UNCHANGED <<bill, shown, watermark>> /\ Only(a) /\ job[a].pc = "scan"
        /\ job'[a].refreshed = job[a].refreshed
    BY <1>0, <1>6, ListBatchEffect
  <2>2. ~job'[a].refreshed
    BY <2>1 DEF Shows
  <2>3. \A b \in Admins : job'[b].refreshed => job'[b] = job[b]
    BY <2>1, <2>2 DEF Only
  <2> QED
    BY <2>1, <2>3, ShowsStay
<1>7. ASSUME NEW a \in Admins, WriteBatch(a) PROVE Shows'
  <2>1. Only(a) /\ job[a].pc = "write" /\ job'[a].refreshed = job[a].refreshed
    BY <1>0, <1>7, WriteJobEffect
  <2>2. UNCHANGED <<shown, watermark>>
    BY <1>0, <1>7, WriteEffect DEF CostInv
  <2>3. ~job'[a].refreshed
    BY <2>1 DEF Shows
  <2>4. \A b \in Admins : job'[b].refreshed => job'[b] = job[b]
    BY <2>1, <2>3 DEF Only
  <2>5. ASSUME NEW c \in Admins, job'[c].refreshed, NEW b \in Buckets \ job'[c].late,
               job'[c].clean, Unset(job[c].from) \/ b >= job[c].from
        PROVE  BucketCost(bill', b) = BucketCost(bill, b)
    <3>1. job[c].clean /\ job[c].pc = "done"
      BY <2>4, <2>5 DEF Shows
    <3> QED
      BY <1>7, <2>5, <3>1, WriteBuckets
  <2> QED
    BY <2>2, <2>4, <2>5, ShowsStay
<1>8. ASSUME NEW a \in Admins, Abort(a) PROVE Shows'
  <2>1. /\ UNCHANGED <<bill, shown, watermark>> /\ job[a].pc \in {"scan", "write"}
        /\ \A b \in Admins : ~job'[b].clean /\ job'[b].refreshed = job[b].refreshed
        /\ \A b \in Admins \ {a} : SameWork(b)
    BY <1>0, <1>8, AbortEffect
  <2>2. ~job'[a].refreshed
    BY <2>1 DEF Shows
  <2> QED
    BY <2>1, <2>2, ShowsStay DEF SameWork
<1>9. ASSUME NEW a \in Admins, Refresh(a) PROVE Shows'
  <2>1. /\ bill' = bill /\ Only(a) /\ job[a].pc = "refresh" /\ job'[a].pc = "done"
        /\ job'[a].from = job[a].from
        /\ \/ /\ UNCHANGED <<shown, watermark>>
              /\ job'[a].refreshed = job[a].refreshed
           \/ /\ shown' = Materialized(job[a].from, Now + Width)
              /\ watermark' = Max(Buckets) + Width
    BY <1>0, <1>9, RefreshEffect
  <2>2. CASE UNCHANGED <<shown, watermark>> /\ job'[a].refreshed = job[a].refreshed
    <3>1. ~job'[a].refreshed
      BY <2>1, <2>2 DEF Shows
    <3>2. \A b \in Admins : job'[b].refreshed => job'[b] = job[b]
      BY <2>1, <3>1 DEF Only
    <3> QED
      BY <2>1, <2>2, <3>2, ShowsStay
  <2>3. CASE shown' = Materialized(job[a].from, Now + Width) /\ watermark' = Max(Buckets) + Width
    <3>1. \A b \in Buckets : b < watermark' /\ b + Width <= Now + Width
      BY <2>3, MaxBucket, NumbersAssumption DEF Buckets
    <3>2. \A b \in Buckets : Unset(job'[a].from) \/ b >= job'[a].from => shown'[b] = BucketCost(bill', b)
      BY <2>1, <2>3, <3>1, MaterializedFacts
    <3>3. ASSUME NEW c \in Admins \ {a}
          PROVE  job'[c].refreshed => job'[c].pc = "done" /\
               (job'[c].clean => \A b \in Buckets \ job'[c].late :
                    Unset(job'[c].from) \/ b >= job'[c].from =>
                        b < watermark' /\ shown'[b] = BucketCost(bill', b))
      BY <2>1, <2>3, <3>1, RefreshShows DEF Only
    <3> QED
      BY <2>1, <3>1, <3>2, <3>3 DEF Shows
  <2> QED
    BY <2>1, <2>2, <2>3
<1>10. CASE UNCHANGED costVars
  BY <1>10 DEF costVars, Shows
<1> QED
  BY <1>1, <1>2, <1>3, <1>4, <1>5, <1>6, <1>7, <1>8, <1>9, <1>10 DEF CostNext

\* And the overview shows those costs in every bucket that begins in the
\* window and in which no request ended since (refreshOverviewAfterRecalc).
THEOREM OverviewShowsRecalcHolds == CostSpec => []OverviewShowsRecalc
<1>1. CostInit => Shows
  BY DEF CostInit, Shows, NoJob
<1>2. Shows => OverviewShowsRecalc
  BY DEF Shows, OverviewShowsRecalc, OverviewCost
<1>3. CostInit => CostInv
  BY InitCosts
<1>4. CostInv /\ [CostNext]_costVars => CostInv'
  BY CostStep
<1>5. CostInv /\ Shows /\ [CostNext]_costVars => Shows'
  BY ShowsStep
<1> QED
  BY <1>1, <1>2, <1>3, <1>4, <1>5, PTL DEF CostSpec

-----------------------------------------------------------------------------
(* Pages: the invariant.                                                     *)

IsReader(x) ==
    x \in [pc : {"idle", "paging", "done"}, query : {x.query}, cursor : {x.cursor},
           seen : {x.seen}, steady : {x.steady}]

Listing(seq) ==
    /\ Len(seq) \in Nat /\ DOMAIN seq = 1 .. Len(seq)
    /\ seq \in Seq({seq[i] : i \in 1 .. Len(seq)})

IsKey(k) == k.at \in Nat /\ k.id \in Nat
Passed(cursor, k) == ~Unset(cursor) /\ ~Earlier(k, cursor)
Shown(x, id) == \E i \in 1 .. Len(x.seen) : x.seen[i].id = id

\* A reader that has not begun has seen nothing; a cursor is a key.
ReaderInv(x) ==
    /\ IsReader(x) /\ Listing(x.seen)
    /\ x.pc = "idle" => x.steady = {} /\ Unset(x.cursor)
    /\ x.pc # "done" /\ Unset(x.cursor) => x.seen = <<>>
    /\ x.pc # "done" => Unset(x.cursor) \/ IsKey(x.cursor)

\* Traces are told apart by ids that count them.
IsTraces(ts) ==
    /\ IsFiniteSet(ts)
    /\ \A t \in ts : t \in [id : 1 .. Cardinality(ts), span : {t.span}, user : {t.user},
                            first : {t.first}, last : Nat]
    /\ \A s, t \in ts : s.id = t.id => s = t

Tables == IsTraces(traces) /\ IsTable(request) /\ \A r \in untraced : r.at \in Nat

\* What a change of the tables leaves: no row moves, none that has an owner
\* changes its owner or its span, and a trace moves up only.
InPlace(R, Q) == \A r \in R, q \in Q : q.id = r.id => q.at = r.at
Known(r, q) == q.id = r.id /\ q.at = r.at /\ q.user = r.user /\ q.span = r.span
Keeps(R, Q) == \A r \in R : ~Unset(r.user) => \E q \in Q : Known(r, q)
MovesUp(ts, us) == \A t \in ts : \E s \in us : s.id = t.id /\ s.last \in Nat /\ s.last >= t.last

Waits(x, r, ts) == Matches(r, x.query.user, x.query.filter, ts) /\ ~Passed(x.cursor, r)

RowsInv ==
    /\ ReaderInv(rows) /\ Descending(rows.seen)
    /\ \A i \in 1 .. Len(rows.seen) : IsKey(rows.seen[i])
    /\ rows.pc = "paging" => \A i \in 1 .. Len(rows.seen) : Passed(rows.cursor, rows.seen[i])
    /\ \A id \in rows.steady :
         Shown(rows, id) \/ (rows.pc = "paging" /\ \E r \in request : r.id = id /\ Waits(rows, r, traces))

Key(t) == [at |-> t.last, id |-> t.id]
Asked(x, t) == t.user = x.query.user /\ Within(t.last, x.query.from, x.query.to)

SpansInv ==
    /\ ReaderInv(spans)
    /\ \A i, j \in 1 .. Len(spans.seen) : i < j => spans.seen[i].id # spans.seen[j].id
    /\ spans.pc = "paging" => \A i \in 1 .. Len(spans.seen) :
         \E t \in traces : t.id = spans.seen[i].id /\ Passed(spans.cursor, Key(t))
    /\ spans.steady \subseteq traces
    /\ \A t \in spans.steady :
         Asked(spans, t) /\ (Shown(spans, t.id) \/ (spans.pc = "paging" /\ ~Passed(spans.cursor, Key(t))))

DetailInv ==
    /\ detail \in [pc : {"idle", "got", "done"}, user : {detail.user}, of : {detail.of}, shown : {detail.shown}]
    /\ detail.pc = "got" =>
         /\ ~Unset(detail.of.user) /\ detail.user = detail.of.user
         /\ \E q \in request : Known(detail.of, q)
    /\ SpanShowsItself

PageInv == Tables /\ RowsInv /\ SpansInv /\ DetailInv

-----------------------------------------------------------------------------
(* Pages: what a page and a change of the tables do, and that they keep it.  *)

\* Sequences joined.
LEMMA JoinFacts ==
    ASSUME NEW s, NEW t, Listing(s), Listing(t)
    PROVE  /\ Listing(s \o t) /\ Len(s \o t) = Len(s) + Len(t)
           /\ \A i \in 1 .. Len(s) : (s \o t)[i] = s[i]
           /\ \A i \in 1 .. Len(t) : (s \o t)[Len(s) + i] = t[i]
<1> DEFINE A == {s[i] : i \in 1 .. Len(s)}
<1> DEFINE B == {t[i] : i \in 1 .. Len(t)}
<1> DEFINE C == {(s \o t)[i] : i \in 1 .. Len(s \o t)}
<1>1. s \in Seq(A \cup B) /\ t \in Seq(A \cup B) /\ Len(s) \in Nat /\ Len(t) \in Nat
  <2>1. s \in Seq(A) /\ t \in Seq(B)
    BY DEF Listing
  <2> HIDE DEF A, B
  <2> QED
    BY <2>1, SeqMonotonic DEF Listing
<1> HIDE DEF A, B
<1>2. /\ s \o t \in Seq(A \cup B) /\ Len(s \o t) = Len(s) + Len(t)
      /\ \A i \in 1 .. Len(s) + Len(t) : (s \o t)[i] = IF i <= Len(s) THEN s[i] ELSE t[i - Len(s)]
  BY <1>1, ConcatProperties
<1>3. Len(s \o t) \in Nat /\ DOMAIN (s \o t) = 1 .. Len(s \o t)
  BY <1>1, <1>2, LenProperties
<1>4. s \o t \in Seq(C)
  <2> DEFINE u == s \o t
  <2>1. u \in [1 .. Len(u) -> C]
    <3>1. u \in [1 .. Len(u) -> A \cup B]
      BY <1>2, LenProperties
    <3>2. \A i \in 1 .. Len(u) : u[i] \in C
      OBVIOUS
    <3> HIDE DEF u, C
    <3> QED
      BY <3>1, <3>2
  <2> HIDE DEF u, C
  <2>2. Len(u) \in Nat
    BY <1>3 DEF u
  <2>3. u \in Seq(C)
    BY <2>1, <2>2, SeqDef
  <2> QED
    BY <2>3 DEF u
<1>5. Listing(s \o t)
  BY <1>3, <1>4 DEF Listing, C
<1>6. /\ \A i \in 1 .. Len(s) : (s \o t)[i] = s[i]
      /\ \A i \in 1 .. Len(t) : (s \o t)[Len(s) + i] = t[i]
  BY <1>1, <1>2
<1> QED
  BY <1>2, <1>5, <1>6

\* A sequence of a set lists what is in it.
LEMMA ListingOf ==
    ASSUME NEW S, NEW q \in Seq(S)
    PROVE  Listing(q)
<1> DEFINE C == {q[i] : i \in 1 .. Len(q)}
<1>1. Len(q) \in Nat /\ DOMAIN q = 1 .. Len(q) /\ q \in [1 .. Len(q) -> S]
  BY LenProperties
<1>2. \A i \in 1 .. Len(q) : q[i] \in C
  OBVIOUS
<1> HIDE DEF C
<1>3. q \in Seq(C)
  BY <1>1, <1>2, SeqDef
<1> QED
  BY <1>1, <1>3 DEF Listing, C

\* A page is the first rows of what was fetched, and its last one the next cursor.
LEMMA PageFacts ==
    ASSUME NEW q, Listing(q)
    PROVE  LET p == Page(q)
               m == IF Len(q) > PageSize THEN PageSize ELSE Len(q) IN
           /\ Listing(p.items) /\ Len(p.items) = m /\ m \in Nat
           /\ \A i \in 1 .. m : p.items[i] = q[i]
           /\ p.next = IF Len(q) > PageSize
                       THEN [at |-> q[PageSize].at, id |-> q[PageSize].id] ELSE None
<1> DEFINE m == IF Len(q) > PageSize THEN PageSize ELSE Len(q)
<1> DEFINE C == {q[i] : i \in 1 .. Len(q)}
<1>1. PageSize \in Nat /\ Len(q) \in Nat /\ m \in Nat /\ m <= Len(q)
  BY PageSizeAssumption DEF Listing
<1>2. Min({PageSize, Len(q)}) = m
  BY <1>1, MinOfTwo
<1>3. Page(q).items = SubSeq(q, 1, m)
  BY <1>2 DEF Page
<1>4. \A i \in 1 .. m : q[i] \in C
  BY <1>1
<1> HIDE DEF m, C
<1>5. /\ SubSeq(q, 1, m) \in Seq(C)
      /\ Len(SubSeq(q, 1, m)) = IF 1 <= m THEN m - 1 + 1 ELSE 0
      /\ \A i \in 1 .. m - 1 + 1 : SubSeq(q, 1, m)[i] = q[1 + i - 1]
  BY <1>1, <1>4, SubSeqProperties
<1>6. Len(SubSeq(q, 1, m)) = m /\ \A i \in 1 .. m : SubSeq(q, 1, m)[i] = q[i]
  BY <1>1, <1>5
<1>7. Listing(SubSeq(q, 1, m))
  BY <1>5, ListingOf
<1>8. Page(q).next = IF Len(q) > PageSize
                     THEN [at |-> q[PageSize].at, id |-> q[PageSize].id] ELSE None
  BY DEF Page
<1> QED
  BY <1>1, <1>3, <1>6, <1>7, <1>8 DEF m

\* What a page does to its reader.
LEMMA TurnedFacts ==
    ASSUME NEW x, IsReader(x), Listing(x.seen), NEW q, Listing(q),
           \A i \in 1 .. Len(q) : q[i].at \in Nat /\ q[i].id \in Nat
    PROVE  LET y == Turned(x, Page(q))
               m == IF Len(q) > PageSize THEN PageSize ELSE Len(q) IN
           /\ IsReader(y) /\ y.query = x.query /\ y.steady = x.steady
           /\ Listing(y.seen) /\ Len(y.seen) = Len(x.seen) + m
           /\ \A i \in 1 .. Len(x.seen) : y.seen[i] = x.seen[i]
           /\ \A i \in 1 .. m : y.seen[Len(x.seen) + i] = q[i]
           /\ \/ /\ y.pc = "paging" /\ Len(q) > PageSize /\ ~Unset(y.cursor)
                 /\ y.cursor = [at |-> q[PageSize].at, id |-> q[PageSize].id]
              \/ y.pc = "done" /\ Len(q) <= PageSize
<1> DEFINE m == IF Len(q) > PageSize THEN PageSize ELSE Len(q)
<1> DEFINE p == Page(q)
<1> DEFINE y == Turned(x, p)
<1> DEFINE next == IF Unset(p.next) THEN "done" ELSE "paging"
<1> DEFINE all == x.seen \o p.items
<1>1. PageSize \in Nat \ {0} /\ Len(q) \in Nat
  BY PageSizeAssumption DEF Listing
<1>2. /\ Listing(p.items) /\ Len(p.items) = m /\ m \in Nat
      /\ \A i \in 1 .. m : p.items[i] = q[i]
      /\ p.next = IF Len(q) > PageSize
                  THEN [at |-> q[PageSize].at, id |-> q[PageSize].id] ELSE None
  BY PageFacts
<1>3. y = [x EXCEPT !.pc = next, !.cursor = p.next, !.seen = all]
  BY DEF Turned
<1>4. /\ Listing(all) /\ Len(all) = Len(x.seen) + m
      /\ \A i \in 1 .. Len(x.seen) : all[i] = x.seen[i]
      /\ \A i \in 1 .. m : all[Len(x.seen) + i] = q[i]
  <2> DEFINE s == x.seen
  <2> DEFINE t == p.items
  <2>0. Listing(s) /\ Listing(t)
    BY <1>2
  <2> HIDE DEF s, t
  <2>2. /\ Listing(s \o t) /\ Len(s \o t) = Len(s) + Len(t)
        /\ \A i \in 1 .. Len(s) : (s \o t)[i] = s[i]
        /\ \A i \in 1 .. Len(t) : (s \o t)[Len(s) + i] = t[i]
    BY <2>0, JoinFacts
  <2>1. /\ Listing(all) /\ Len(all) = Len(x.seen) + Len(p.items)
        /\ \A i \in 1 .. Len(x.seen) : all[i] = x.seen[i]
        /\ \A i \in 1 .. Len(p.items) : all[Len(x.seen) + i] = p.items[i]
    BY <2>2 DEF s, t
  <2> HIDE DEF p, m
  <2> HIDE DEF all
  <2> QED
    BY <1>2, <2>1
<1>5. next \in {"done", "paging"}
  OBVIOUS
<1>6. IF Len(q) > PageSize
      THEN /\ p.next = [at |-> q[PageSize].at, id |-> q[PageSize].id]
           /\ ~Unset(p.next) /\ next = "paging"
      ELSE next = "done"
  <2>1. CASE Len(q) > PageSize
    <3>1. PageSize \in 1 .. Len(q)
      BY <1>1, <2>1
    <3>2. [at |-> q[PageSize].at, id |-> q[PageSize].id] \in [at : Nat, id : Nat]
      BY <3>1
    <3> QED
      BY <1>2, <2>1, <3>2, CursorAssumption DEF Unset
  <2>2. CASE ~(Len(q) > PageSize)
    BY <1>2, <2>2 DEF Unset
  <2> QED
    BY <2>1, <2>2
<1> HIDE DEF next, all, p, m, y
<1>7. /\ IsReader(y) /\ y.pc = next /\ y.cursor = p.next /\ y.seen = all
      /\ y.query = x.query /\ y.steady = x.steady
  BY <1>3, <1>5 DEF IsReader
<1>8. \/ /\ y.pc = "paging" /\ Len(q) > PageSize /\ ~Unset(y.cursor)
         /\ y.cursor = [at |-> q[PageSize].at, id |-> q[PageSize].id]
      \/ y.pc = "done" /\ Len(q) <= PageSize
  BY <1>1, <1>6, <1>7
<1>9. y.seen = all
  BY <1>7
<1>10. /\ IsReader(y) /\ y.query = x.query /\ y.steady = x.steady
       /\ Listing(y.seen) /\ Len(y.seen) = Len(x.seen) + m
       /\ \A i \in 1 .. Len(x.seen) : y.seen[i] = x.seen[i]
       /\ \A i \in 1 .. m : y.seen[Len(x.seen) + i] = q[i]
  BY <1>4, <1>7
<1> QED
  BY <1>8, <1>10 DEF y, p, m

\* What a change of the tables does to the readers' records.
LEMMA SettleFacts ==
    ASSUME IsReader(rows), IsReader(spans), NEW rs, NEW ts, Settle(rs, ts)
    PROVE  /\ IsReader(rows') /\ rows'.pc = rows.pc /\ rows'.query = rows.query
           /\ rows'.cursor = rows.cursor /\ rows'.seen = rows.seen
           /\ \A id \in rows'.steady :
                /\ id \in rows.steady
                /\ \E r \in rs : r.id = id /\ Matches(r, rows.query.user, rows.query.filter, ts)
           /\ IsReader(spans') /\ spans'.pc = spans.pc /\ spans'.query = spans.query
           /\ spans'.cursor = spans.cursor /\ spans'.seen = spans.seen
           /\ spans'.steady = spans.steady \cap ts
<1> DEFINE still == {id \in rows.steady : \E r \in rs :
                        r.id = id /\ Matches(r, rows.query.user, rows.query.filter, ts)}
<1> DEFINE kept == spans.steady \cap ts
<1>1. rows' = [rows EXCEPT !.steady = still] /\ spans' = [spans EXCEPT !.steady = kept]
  BY DEF Settle
<1>2. \A id \in still :
        /\ id \in rows.steady
        /\ \E r \in rs : r.id = id /\ Matches(r, rows.query.user, rows.query.filter, ts)
  OBVIOUS
<1> HIDE DEF still, kept
<1>3. /\ IsReader(rows') /\ rows'.pc = rows.pc /\ rows'.query = rows.query
      /\ rows'.cursor = rows.cursor /\ rows'.seen = rows.seen /\ rows'.steady = still
  BY <1>1 DEF IsReader
<1>4. /\ IsReader(spans') /\ spans'.pc = spans.pc /\ spans'.query = spans.query
      /\ spans'.cursor = spans.cursor /\ spans'.seen = spans.seen /\ spans'.steady = kept
  BY <1>1 DEF IsReader
<1> QED
  BY <1>2, <1>3, <1>4 DEF kept

\* A change of the tables that moves no row disturbs no reader of rows,
LEMMA RowsSettle ==
    ASSUME RowsInv, SpansInv, Settle(request', traces'),
           \A r \in request, q \in request' : q.id = r.id => q.at = r.at
    PROVE  RowsInv'
<1>1. IsReader(rows) /\ IsReader(spans)
  BY DEF RowsInv, SpansInv, ReaderInv
<1>2. /\ IsReader(rows') /\ rows'.pc = rows.pc /\ rows'.query = rows.query
      /\ rows'.cursor = rows.cursor /\ rows'.seen = rows.seen
      /\ \A id \in rows'.steady :
           /\ id \in rows.steady
           /\ \E r \in request' : r.id = id /\ Matches(r, rows.query.user, rows.query.filter, traces')
  BY <1>1, SettleFacts
<1>3. ReaderInv(rows')
  BY <1>2 DEF RowsInv, ReaderInv
<1>4. ASSUME NEW id \in rows'.steady
      PROVE  \/ Shown(rows', id)
             \/ rows'.pc = "paging" /\ \E r \in request' : r.id = id /\ Waits(rows', r, traces')
  <2>1. CASE Shown(rows, id)
    BY <1>2, <2>1 DEF Shown
  <2>2. CASE rows.pc = "paging" /\ \E r \in request : r.id = id /\ Waits(rows, r, traces)
    <3>1. PICK r \in request : r.id = id /\ Waits(rows, r, traces)
      BY <2>2
    <3>2. PICK q \in request' : q.id = id /\ Matches(q, rows.query.user, rows.query.filter, traces')
      BY <1>2
    <3>3. q.at = r.at /\ q.id = r.id
      BY <3>1, <3>2
    <3>4. ~Passed(rows.cursor, q)
      BY <3>1, <3>3 DEF Waits, Passed, Earlier
    <3>5. Waits(rows', q, traces')
      BY <1>2, <3>2, <3>4 DEF Waits
    <3> QED
      BY <1>2, <2>2, <3>2, <3>5
  <2> QED
    BY <1>2, <2>1, <2>2 DEF RowsInv
<1>5. /\ Descending(rows'.seen)
      /\ \A i \in 1 .. Len(rows'.seen) : IsKey(rows'.seen[i])
      /\ rows'.pc = "paging" => \A i \in 1 .. Len(rows'.seen) : Passed(rows'.cursor, rows'.seen[i])
  BY <1>2 DEF RowsInv
<1> QED
  BY <1>3, <1>4, <1>5 DEF RowsInv

\* and one that moves traces up, none of traces.
LEMMA SpansSettle ==
    ASSUME RowsInv, SpansInv, NEW rs, Settle(rs, traces'),
           \A t \in traces : t.last \in Nat /\ t.id \in Nat,
           \A t \in traces : \E s \in traces' : s.id = t.id /\ s.last \in Nat /\ s.last >= t.last
    PROVE  SpansInv'
<1>1. IsReader(rows) /\ IsReader(spans)
  BY DEF RowsInv, SpansInv, ReaderInv
<1>2. /\ IsReader(spans') /\ spans'.pc = spans.pc /\ spans'.query = spans.query
      /\ spans'.cursor = spans.cursor /\ spans'.seen = spans.seen
      /\ spans'.steady = spans.steady \cap traces'
  BY <1>1, SettleFacts
<1>3. ReaderInv(spans')
  BY <1>2 DEF SpansInv, ReaderInv
<1>4. ASSUME spans'.pc = "paging", NEW i \in 1 .. Len(spans'.seen)
      PROVE  \E t \in traces' : t.id = spans'.seen[i].id /\ Passed(spans'.cursor, Key(t))
  <2>1. PICK t \in traces : t.id = spans.seen[i].id /\ Passed(spans.cursor, Key(t))
    BY <1>2, <1>4 DEF SpansInv
  <2>2. PICK s \in traces' : s.id = t.id /\ s.last \in Nat /\ s.last >= t.last
    OBVIOUS
  <2>3. t.last \in Nat /\ t.id \in Nat /\ IsKey(spans.cursor)
    BY <1>2, <1>4, <2>1 DEF SpansInv, ReaderInv, Passed
  <2>4. Passed(spans.cursor, Key(s))
    BY <2>1, <2>2, <2>3 DEF Passed, Key, Earlier, IsKey
  <2> QED
    BY <1>2, <2>1, <2>2, <2>4
<1>5. /\ \A i, j \in 1 .. Len(spans'.seen) : i < j => spans'.seen[i].id # spans'.seen[j].id
      /\ spans'.steady \subseteq traces'
  BY <1>2 DEF SpansInv
<1>6. \A t \in spans'.steady :
        Asked(spans', t) /\ (Shown(spans', t.id) \/ (spans'.pc = "paging" /\ ~Passed(spans'.cursor, Key(t))))
  BY <1>2 DEF SpansInv, Asked, Shown
<1> QED
  BY <1>3, <1>4, <1>5, <1>6 DEF SpansInv

----------------------------------------------------------------------------

\* A reader that begins waits for all there is of its query: of rows,
LEMMA OpenRequestsKeeps ==
    ASSUME RowsInv, OpenRequests
    PROVE  RowsInv'
<1>1. PICK q \in Queries :
        rows' = [rows EXCEPT !.pc = "paging", !.query = q,
                             !.steady = {r.id : r \in {r \in request : Matches(r, q.user, q.filter, traces)}}]
  BY DEF OpenRequests
<1> DEFINE first == {r.id : r \in {r \in request : Matches(r, q.user, q.filter, traces)}}
<1>2. rows.pc = "idle" /\ traces' = traces /\ request' = request
  BY DEF OpenRequests
<1>3. \A id \in first : \E r \in request : r.id = id /\ Matches(r, q.user, q.filter, traces)
  OBVIOUS
<1>4. rows' = [rows EXCEPT !.pc = "paging", !.query = q, !.steady = first]
  BY <1>1
<1> HIDE DEF first
<1>5. /\ IsReader(rows') /\ rows'.pc = "paging" /\ rows'.query = q /\ rows'.steady = first
      /\ rows'.cursor = rows.cursor /\ rows'.seen = rows.seen
  BY <1>4 DEF RowsInv, ReaderInv, IsReader
<1>6. ReaderInv(rows')
  BY <1>2, <1>5 DEF RowsInv, ReaderInv
<1>7. Len(rows.seen) = 0 /\ Unset(rows.cursor)
  BY <1>2 DEF RowsInv, ReaderInv
<1>8. Descending(rows'.seen) /\ \A i \in 1 .. Len(rows'.seen) : IsKey(rows'.seen[i]) /\ FALSE
  BY <1>5, <1>7 DEF RowsInv
<1>9. ASSUME NEW id \in first
      PROVE  \E r \in request' : r.id = id /\ Waits(rows', r, traces')
  BY <1>2, <1>3, <1>5, <1>7 DEF Waits, Passed
<1> QED
  BY <1>5, <1>6, <1>8, <1>9 DEF RowsInv

\* and of traces.
LEMMA OpenTracesKeeps ==
    ASSUME SpansInv, OpenTraces
    PROVE  SpansInv'
<1>1. PICK q \in Queries :
        spans' = [spans EXCEPT !.pc = "paging", !.query = q,
                               !.steady = {t \in traces : t.user = q.user /\ Within(t.last, q.from, q.to)}]
  BY DEF OpenTraces
<1> DEFINE first == {t \in traces : t.user = q.user /\ Within(t.last, q.from, q.to)}
<1>2. spans.pc = "idle" /\ traces' = traces
  BY DEF OpenTraces
<1>3. spans' = [spans EXCEPT !.pc = "paging", !.query = q, !.steady = first]
  BY <1>1
<1>4. \A t \in first : t \in traces /\ t.user = q.user /\ Within(t.last, q.from, q.to)
  OBVIOUS
<1> HIDE DEF first
<1>5. /\ IsReader(spans') /\ spans'.pc = "paging" /\ spans'.query = q /\ spans'.steady = first
      /\ spans'.cursor = spans.cursor /\ spans'.seen = spans.seen
  BY <1>3 DEF SpansInv, ReaderInv, IsReader
<1>6. ReaderInv(spans')
  BY <1>2, <1>5 DEF SpansInv, ReaderInv
<1>7. Len(spans.seen) = 0 /\ Unset(spans.cursor)
  BY <1>2 DEF SpansInv, ReaderInv
<1>8. \A t \in first : t \in traces' /\ Asked(spans', t) /\ ~Passed(spans'.cursor, Key(t))
  BY <1>2, <1>4, <1>5, <1>7 DEF Asked, Passed
<1> QED
  BY <1>2, <1>5, <1>6, <1>7, <1>8 DEF SpansInv

\* Rows of the table can be told apart.
LEMMA KeyedRows ==
    ASSUME NEW S, NEW R, IsTable(R), S \subseteq R
    PROVE  Keyed(S) /\ \A r \in S : r.at \in Nat /\ r.id \in Nat
<1>1. IsFiniteSet(S)
  BY FS_Subset DEF IsTable
<1> QED
  BY <1>1 DEF IsTable, IsRow, Keyed

\* A page lists the newest of what the cursor has not passed, and the next
\* cursor passes the page and nothing else.
LEMMA NextPage ==
    ASSUME NEW S, Keyed(S), \A k \in S : IsKey(k),
           NEW x, IsReader(x), ReaderInv(x), x.pc = "paging",
           \A k \in S : ~Passed(x.cursor, k)
    PROVE  LET y == Turned(x, Page(Newest(S, PageSize + 1)))
               n == Len(x.seen) IN
           /\ ReaderInv(y) /\ y.query = x.query /\ y.steady = x.steady /\ y.pc \in {"paging", "done"}
           /\ Len(y.seen) \in Nat /\ n \in Nat /\ Len(y.seen) >= n
           /\ \A i \in 1 .. n : y.seen[i] = x.seen[i]
           /\ \A i \in (n + 1) .. Len(y.seen) :
                y.seen[i] \in S /\ (y.pc = "paging" => Passed(y.cursor, y.seen[i]))
           /\ \A i, j \in (n + 1) .. Len(y.seen) : i < j => Earlier(y.seen[j], y.seen[i])
           /\ y.pc = "paging" => \A k : IsKey(k) /\ Passed(x.cursor, k) => Passed(y.cursor, k)
           /\ \A k \in S : \/ \E i \in (n + 1) .. Len(y.seen) : y.seen[i] = k
                           \/ y.pc = "paging" /\ ~Passed(y.cursor, k)
<1> DEFINE q == Newest(S, PageSize + 1)
<1> DEFINE y == Turned(x, Page(q))
<1> DEFINE n == Len(x.seen)
<1> DEFINE m == IF Len(q) > PageSize THEN PageSize ELSE Len(q)
<1>1. PageSize \in Nat \ {0} /\ PageSize + 1 \in Nat
  BY PageSizeAssumption
<1>2. /\ q \in Seq(S) /\ Len(q) \in Nat /\ Len(q) <= PageSize + 1
      /\ \A i \in 1 .. Len(q) : q[i] \in S
      /\ \A i, j \in 1 .. Len(q) : i < j => Earlier(q[j], q[i])
      /\ \A r \in S : \/ \E i \in 1 .. Len(q) : q[i] = r
                      \/ Len(q) = PageSize + 1 /\ \A i \in 1 .. Len(q) : Earlier(r, q[i])
  BY <1>1, NewestFacts
<1> HIDE DEF q
<1>3. Listing(q)
  BY <1>2, ListingOf
<1>4. \A i \in 1 .. Len(q) : q[i].at \in Nat /\ q[i].id \in Nat
  BY <1>2 DEF IsKey
<1>5. Listing(x.seen) /\ n \in Nat
  BY DEF ReaderInv, Listing
<1>6. /\ IsReader(y) /\ y.query = x.query /\ y.steady = x.steady
      /\ Listing(y.seen) /\ Len(y.seen) = n + m
      /\ \A i \in 1 .. n : y.seen[i] = x.seen[i]
      /\ \A i \in 1 .. m : y.seen[n + i] = q[i]
      /\ \/ /\ y.pc = "paging" /\ Len(q) > PageSize /\ ~Unset(y.cursor)
            /\ y.cursor = [at |-> q[PageSize].at, id |-> q[PageSize].id]
         \/ y.pc = "done" /\ Len(q) <= PageSize
  BY <1>3, <1>4, <1>5, TurnedFacts
<1> HIDE DEF y, n
<1>7. m \in Nat /\ m <= Len(q) /\ (Len(q) > PageSize => m = PageSize) /\ (Len(q) <= PageSize => m = Len(q))
  BY <1>1, <1>2
<1> HIDE DEF m
<1>8. ASSUME NEW i \in (n + 1) .. Len(y.seen)
      PROVE  i - n \in 1 .. m /\ y.seen[i] = q[i - n] /\ i - n \in 1 .. Len(q)
  <2>1. i - n \in 1 .. m
    BY <1>5, <1>6, <1>7
  <2>2. y.seen[n + (i - n)] = q[i - n]
    BY <1>6, <2>1
  <2>3. n + (i - n) = i
    BY <1>5
  <2> QED
    BY <1>2, <1>7, <2>1, <2>2, <2>3
<1>9. y.pc = "paging" => /\ PageSize \in 1 .. Len(q) /\ IsKey(y.cursor) /\ m = PageSize
                         /\ y.cursor.at = q[PageSize].at /\ y.cursor.id = q[PageSize].id
                         /\ ~Unset(y.cursor) /\ Len(q) > PageSize
  BY <1>1, <1>2, <1>4, <1>6, <1>7 DEF IsKey
<1>10. y.pc = "done" => m = Len(q) /\ Len(q) <= PageSize
  BY <1>6, <1>7
<1>11. ReaderInv(y) /\ y.pc \in {"paging", "done"}
  BY <1>6, <1>9 DEF ReaderInv
<1>12. ASSUME NEW i \in (n + 1) .. Len(y.seen)
       PROVE  y.seen[i] \in S /\ (y.pc = "paging" => Passed(y.cursor, y.seen[i]))
  <2>1. i - n \in 1 .. m /\ y.seen[i] = q[i - n] /\ i - n \in 1 .. Len(q)
    BY <1>8
  <2>2. y.seen[i] \in S
    BY <1>2, <2>1
  <2>3. ASSUME y.pc = "paging" PROVE ~Earlier(y.seen[i], y.cursor)
    <3>1. PageSize \in 1 .. Len(q) /\ m = PageSize
      BY <1>9, <2>3
    <3>2. i - n = PageSize \/ Earlier(q[PageSize], q[i - n])
      BY <1>1, <1>2, <2>1, <3>1
    <3>3. IsKey(q[i - n]) /\ IsKey(q[PageSize])
      BY <1>2, <2>1, <3>1
    <3> QED
      BY <1>9, <2>1, <2>3, <3>2, <3>3 DEF Earlier, IsKey
  <2> QED
    BY <1>9, <2>2, <2>3 DEF Passed
<1>13. ASSUME NEW i \in (n + 1) .. Len(y.seen), NEW j \in (n + 1) .. Len(y.seen), i < j
       PROVE  Earlier(y.seen[j], y.seen[i])
  <2>1. i - n < j - n
    BY <1>5, <1>6, <1>7, <1>13
  <2> QED
    BY <1>2, <1>8, <2>1
<1>14. ASSUME y.pc = "paging", NEW k, IsKey(k), Passed(x.cursor, k)
       PROVE  Passed(y.cursor, k)
  <2>1. PageSize \in 1 .. Len(q) /\ q[PageSize] \in S
    BY <1>2, <1>9, <1>14
  <2>2. ~Passed(x.cursor, q[PageSize]) /\ IsKey(q[PageSize])
    BY <2>1
  <2>3. IsKey(x.cursor)
    BY <1>14 DEF ReaderInv, Passed
  <2> QED
    BY <1>9, <1>14, <2>2, <2>3 DEF Passed, Earlier, IsKey
<1>15. ASSUME NEW k \in S
       PROVE  \/ \E i \in (n + 1) .. Len(y.seen) : y.seen[i] = k
              \/ y.pc = "paging" /\ ~Passed(y.cursor, k)
  <2>1. ASSUME NEW i \in 1 .. m, q[i] = k
        PROVE  \E j \in (n + 1) .. Len(y.seen) : y.seen[j] = k
    <3>1. n + i \in (n + 1) .. Len(y.seen)
      BY <1>5, <1>6, <1>7
    <3>2. y.seen[n + i] = k
      BY <1>6, <2>1
    <3> QED
      BY <3>1, <3>2
  <2>2. CASE y.pc = "done"
    <3>1. m = Len(q) /\ Len(q) # PageSize + 1
      BY <1>1, <1>2, <1>10, <2>2
    <3>2. PICK i \in 1 .. Len(q) : q[i] = k
      BY <1>2, <3>1
    <3> QED
      BY <2>1, <3>1, <3>2
  <2>3. CASE y.pc = "paging"
    <3>1. PageSize \in 1 .. Len(q) /\ m = PageSize /\ Len(q) = PageSize + 1
      BY <1>1, <1>2, <1>9, <2>3
    <3>2. CASE Earlier(k, q[PageSize])
      BY <1>9, <2>3, <3>2 DEF Passed, Earlier
    <3>3. CASE ~Earlier(k, q[PageSize])
      <4>1. PICK i \in 1 .. Len(q) : q[i] = k
        BY <1>2, <3>1, <3>3
      <4>2. ~(PageSize < i)
        BY <1>2, <3>1, <3>3, <4>1
      <4>3. i \in 1 .. m
        BY <1>1, <3>1, <4>2
      <4> QED
        BY <2>1, <4>1, <4>3
    <3> QED
      BY <3>2, <3>3
  <2> QED
    BY <1>11, <2>2, <2>3
<1>16. Len(y.seen) \in Nat /\ Len(y.seen) >= n
  BY <1>5, <1>6, <1>7
<1> QED
  BY <1>5, <1>6, <1>11, <1>12, <1>13, <1>14, <1>15, <1>16 DEF q, y, n

\* A page of rows (handleListRequests).
LEMMA ListRequestsPageKeeps ==
    ASSUME Tables, RowsInv, ListRequestsPage
    PROVE  RowsInv'
<1> DEFINE S == {r \in request : /\ Matches(r, rows.query.user, rows.query.filter, traces)
                                 /\ Unset(rows.cursor) \/ Earlier(r, rows.cursor)}
<1> DEFINE y == Turned(rows, Page(Newest(S, PageSize + 1)))
<1> DEFINE n == Len(rows.seen)
<1>1. rows.pc = "paging" /\ rows' = y /\ request' = request /\ traces' = traces
  BY DEF ListRequestsPage, ListRequests
<1>2. Keyed(S) /\ \A k \in S : IsKey(k)
  <2>1. S \subseteq request
    OBVIOUS
  <2> HIDE DEF S
  <2> QED
    BY <2>1, KeyedRows DEF Tables, IsKey
<1>3. \A k \in S : ~Passed(rows.cursor, k) /\ k \in request
  BY DEF Passed
<1>4. \A r \in request : Waits(rows, r, traces) => r \in S
  BY DEF Waits, Passed
<1> HIDE DEF S
<1>5. IsReader(rows) /\ ReaderInv(rows)
  BY DEF RowsInv, ReaderInv
<1>6. /\ ReaderInv(y) /\ y.query = rows.query /\ y.steady = rows.steady /\ y.pc \in {"paging", "done"}
      /\ Len(y.seen) \in Nat /\ n \in Nat /\ Len(y.seen) >= n
      /\ \A i \in 1 .. n : y.seen[i] = rows.seen[i]
      /\ \A i \in (n + 1) .. Len(y.seen) :
           y.seen[i] \in S /\ (y.pc = "paging" => Passed(y.cursor, y.seen[i]))
      /\ \A i, j \in (n + 1) .. Len(y.seen) : i < j => Earlier(y.seen[j], y.seen[i])
      /\ y.pc = "paging" => \A k : IsKey(k) /\ Passed(rows.cursor, k) => Passed(y.cursor, k)
      /\ \A k \in S : \/ \E i \in (n + 1) .. Len(y.seen) : y.seen[i] = k
                      \/ y.pc = "paging" /\ ~Passed(y.cursor, k)
  BY <1>1, <1>2, <1>3, <1>5, NextPage
<1>7. DOMAIN y.seen = 1 .. Len(y.seen) /\ DOMAIN rows.seen = 1 .. n
  BY <1>5, <1>6 DEF ReaderInv, Listing
<1> HIDE DEF y, n
<1>8. \A i \in 1 .. Len(y.seen) : (i \in 1 .. n) \/ (i \in (n + 1) .. Len(y.seen))
  BY <1>6
<1>9. \A i \in 1 .. n : IsKey(rows.seen[i]) /\ Passed(rows.cursor, rows.seen[i])
  BY <1>1 DEF RowsInv, n
<1>10. \A i \in 1 .. Len(y.seen) : IsKey(y.seen[i]) /\ (y.pc = "paging" => Passed(y.cursor, y.seen[i]))
  BY <1>2, <1>6, <1>8, <1>9
<1>11. ASSUME NEW i \in 1 .. Len(y.seen), NEW j \in 1 .. Len(y.seen), i < j
       PROVE  Earlier(y.seen[j], y.seen[i])
  <2>1. CASE j \in 1 .. n
    <3>1. i \in 1 .. n
      BY <1>6, <1>11, <2>1
    <3> QED
      BY <1>6, <1>7, <1>11, <2>1, <3>1 DEF RowsInv, Descending
  <2>2. CASE i \in (n + 1) .. Len(y.seen)
    <3>1. j \in (n + 1) .. Len(y.seen)
      BY <1>6, <1>11, <2>2
    <3> QED
      BY <1>6, <1>11, <2>2, <3>1
  <2>3. CASE i \in 1 .. n /\ j \in (n + 1) .. Len(y.seen)
    <3>1. y.seen[j] \in S /\ IsKey(y.seen[j]) /\ y.seen[i] = rows.seen[i]
      BY <1>2, <1>6, <2>3
    <3>2. ~Passed(rows.cursor, y.seen[j]) /\ Passed(rows.cursor, y.seen[i]) /\ IsKey(y.seen[i])
      BY <1>3, <1>9, <2>3, <3>1
    <3>3. IsKey(rows.cursor)
      BY <1>1, <3>2 DEF RowsInv, ReaderInv, Passed
    <3> QED
      BY <3>1, <3>2, <3>3 DEF Passed, Earlier, IsKey
  <2> QED
    BY <1>8, <2>1, <2>2, <2>3
<1>12. ASSUME NEW id \in y.steady
       PROVE  Shown(y, id) \/ (y.pc = "paging" /\ \E r \in request : r.id = id /\ Waits(y, r, traces))
  <2>1. CASE Shown(rows, id)
    <3>1. PICK i \in 1 .. n : rows.seen[i].id = id
      BY <2>1 DEF Shown, n
    <3>2. i \in 1 .. Len(y.seen) /\ y.seen[i].id = id
      BY <1>6, <3>1
    <3> QED
      BY <3>2 DEF Shown
  <2>2. CASE \E r \in request : r.id = id /\ Waits(rows, r, traces)
    <3>1. PICK r \in request : r.id = id /\ Waits(rows, r, traces)
      BY <2>2
    <3>2. r \in S
      BY <1>4, <3>1
    <3>3. CASE \E i \in (n + 1) .. Len(y.seen) : y.seen[i] = r
      <4>1. PICK i \in (n + 1) .. Len(y.seen) : y.seen[i] = r
        BY <3>3
      <4>2. i \in 1 .. Len(y.seen)
        BY <1>6
      <4> QED
        BY <3>1, <4>1, <4>2 DEF Shown
    <3>4. CASE y.pc = "paging" /\ ~Passed(y.cursor, r)
      <4>1. Waits(y, r, traces)
        BY <1>6, <3>1, <3>4 DEF Waits
      <4> QED
        BY <3>1, <3>4, <4>1
    <3> QED
      BY <1>6, <3>2, <3>3, <3>4
  <2> QED
    BY <1>6, <2>1, <2>2 DEF RowsInv
<1>13. Descending(y.seen)
  BY <1>7, <1>11 DEF Descending
<1> QED
  BY <1>1, <1>6, <1>10, <1>12, <1>13 DEF RowsInv

----------------------------------------------------------------------------

\* A trace is listed by its id and its last request
LEMMA TraceRowKey == \A t : TraceRow(t, request).id = t.id /\ TraceRow(t, request).at = t.last
  BY DEF TraceRow

\* and told apart by them as rows are.
LEMMA KeyedTraces ==
    ASSUME Tables, NEW A, A \subseteq traces
    PROVE  LET B == {TraceRow(t, request) : t \in A} IN
           Keyed(B) /\ \A k \in B : IsKey(k)
<1> DEFINE B == {TraceRow(t, request) : t \in A}
<1>1. IsFiniteSet(A)
  BY FS_Subset DEF Tables, IsTraces
<1>2. \A t \in A : t.id \in Nat /\ t.last \in Nat
  BY DEF Tables, IsTraces
<1>3. \A s, t \in A : s.id = t.id => s = t
  BY DEF Tables, IsTraces
<1> DEFINE f == [t \in A |-> TraceRow(t, request)]
<1>4. f \in Surjection(A, B)
  BY DEF Surjection
<1> HIDE DEF f
<1>5. IsFiniteSet(B)
  BY <1>1, <1>4, FS_Surjection
<1>6. \A k \in B : \E t \in A : k = TraceRow(t, request) /\ k.id = t.id /\ k.at = t.last
  BY TraceRowKey
<1> HIDE DEF B
<1>7. \A k \in B : IsKey(k)
  BY <1>2, <1>6 DEF IsKey
<1>8. \A k, l \in B : k.id = l.id => k = l
  BY <1>3, <1>6
<1> QED
  BY <1>5, <1>7, <1>8 DEF Keyed, IsKey, B

\* A page of traces (handleListRequestTraces).
LEMMA ListTracesPageKeeps ==
    ASSUME Tables, SpansInv, ListTracesPage
    PROVE  SpansInv'
<1> DEFINE A == {t \in traces : t.user = spans.query.user
                                /\ Within(t.last, spans.query.from, spans.query.to)}
<1> DEFINE B == {TraceRow(t, request) : t \in A}
<1> DEFINE S == {k \in B : Unset(spans.cursor) \/ Earlier(k, spans.cursor)}
<1> DEFINE y == Turned(spans, Page(Newest(S, PageSize + 1)))
<1> DEFINE n == Len(spans.seen)
<1>1. spans.pc = "paging" /\ spans' = y /\ request' = request /\ traces' = traces
  BY DEF ListTracesPage, ListRequestTraces
<1>2. \A t \in traces : Asked(spans, t) => t \in A
  BY DEF Asked
<1>3. A \subseteq traces
  OBVIOUS
<1> HIDE DEF A
<1>4. Keyed(B) /\ \A k \in B : IsKey(k)
  BY <1>3, KeyedTraces
<1>5. /\ \A k \in B : \E t \in traces : k.id = t.id /\ k.at = t.last
      /\ \A t \in A : \E k \in B : k.id = t.id /\ k.at = t.last
  BY <1>3, TraceRowKey
<1>6. S \subseteq B /\ \A k \in S : ~Passed(spans.cursor, k)
  BY DEF Passed
<1>7. \A k \in B : ~Passed(spans.cursor, k) => k \in S
  BY DEF Passed
<1> HIDE DEF B, S
<1>8. Keyed(S) /\ \A k \in S : IsKey(k)
  <2>1. IsFiniteSet(S)
    BY <1>4, <1>6, FS_Subset DEF Keyed
  <2> QED
    BY <1>4, <1>6, <2>1 DEF Keyed
<1>9. IsReader(spans) /\ ReaderInv(spans)
  BY DEF SpansInv, ReaderInv
<1>10.
      /\ ReaderInv(y) /\ y.query = spans.query /\ y.steady = spans.steady /\ y.pc \in {"paging", "done"}
      /\ Len(y.seen) \in Nat /\ n \in Nat /\ Len(y.seen) >= n
      /\ \A i \in 1 .. n : y.seen[i] = spans.seen[i]
      /\ \A i \in (n + 1) .. Len(y.seen) :
           y.seen[i] \in S /\ (y.pc = "paging" => Passed(y.cursor, y.seen[i]))
      /\ \A i, j \in (n + 1) .. Len(y.seen) : i < j => Earlier(y.seen[j], y.seen[i])
      /\ y.pc = "paging" => \A k : IsKey(k) /\ Passed(spans.cursor, k) => Passed(y.cursor, k)
      /\ \A k \in S : \/ \E i \in (n + 1) .. Len(y.seen) : y.seen[i] = k
                      \/ y.pc = "paging" /\ ~Passed(y.cursor, k)
  BY <1>1, <1>6, <1>8, <1>9, NextPage
<1> HIDE DEF y, n
<1>11. \A i \in 1 .. Len(y.seen) : (i \in 1 .. n) \/ (i \in (n + 1) .. Len(y.seen))
  BY <1>10
<1>12. \A t \in traces : Key(t).id = t.id /\ Key(t).at = t.last /\ IsKey(Key(t))
  BY DEF Tables, IsTraces, Key, IsKey
<1>13. \A s, t \in traces : s.id = t.id => s = t
  BY DEF Tables, IsTraces
<1>14. ASSUME NEW k, NEW t, k.id = t.id, k.at = t.last, NEW c
       PROVE  Passed(c, k) <=> Passed(c, Key(t))
  BY <1>14 DEF Passed, Earlier, Key
<1>15. \A i \in 1 .. n : \E t \in traces : t.id = spans.seen[i].id /\ Passed(spans.cursor, Key(t))
  BY <1>1 DEF SpansInv, n
<1>16. \A i \in (n + 1) .. Len(y.seen) :
         \E t \in traces : /\ t.id = y.seen[i].id /\ ~Passed(spans.cursor, Key(t))
                           /\ y.pc = "paging" => Passed(y.cursor, Key(t))
  <2> SUFFICES ASSUME NEW i \in (n + 1) .. Len(y.seen)
               PROVE  \E t \in traces : /\ t.id = y.seen[i].id /\ ~Passed(spans.cursor, Key(t))
                                        /\ y.pc = "paging" => Passed(y.cursor, Key(t))
    OBVIOUS
  <2> DEFINE k == y.seen[i]
  <2>1. k \in S /\ k \in B /\ ~Passed(spans.cursor, k) /\ (y.pc = "paging" => Passed(y.cursor, k))
    BY <1>6, <1>10
  <2> HIDE DEF k
  <2>2. PICK t \in traces : k.id = t.id /\ k.at = t.last
    BY <1>5, <2>1
  <2> QED
    BY <1>14, <2>1, <2>2 DEF k
<1>17. ASSUME y.pc = "paging", NEW i \in 1 .. Len(y.seen)
       PROVE  \E t \in traces : t.id = y.seen[i].id /\ Passed(y.cursor, Key(t))
  <2>1. CASE i \in 1 .. n
    <3>1. PICK t \in traces : t.id = spans.seen[i].id /\ Passed(spans.cursor, Key(t))
      BY <1>15, <2>1
    <3> QED
      BY <1>10, <1>12, <1>17, <2>1, <3>1
  <2>2. CASE i \in (n + 1) .. Len(y.seen)
    BY <1>16, <1>17, <2>2
  <2> QED
    BY <1>11, <2>1, <2>2
<1>18. ASSUME NEW i \in 1 .. Len(y.seen), NEW j \in 1 .. Len(y.seen), i < j
       PROVE  y.seen[i].id # y.seen[j].id
  <2>1. CASE j \in 1 .. n
    <3>1. i \in 1 .. n
      BY <1>10, <1>18, <2>1
    <3> QED
      BY <1>10, <1>18, <2>1, <3>1 DEF SpansInv, n
  <2>2. CASE i \in (n + 1) .. Len(y.seen)
    <3>1. j \in (n + 1) .. Len(y.seen)
      BY <1>10, <1>18, <2>2
    <3>2. y.seen[i] \in S /\ y.seen[j] \in S /\ Earlier(y.seen[j], y.seen[i])
      BY <1>10, <1>18, <2>2, <3>1
    <3>3. \A a, b \in S : a.id = b.id => a = b
      BY <1>8 DEF Keyed
    <3> QED
      BY <1>8, <3>2, <3>3 DEF Earlier, IsKey
  <2>3. CASE i \in 1 .. n /\ j \in (n + 1) .. Len(y.seen)
    <3>1. PICK t \in traces : t.id = spans.seen[i].id /\ Passed(spans.cursor, Key(t))
      BY <1>15, <2>3
    <3>2. PICK s \in traces : s.id = y.seen[j].id /\ ~Passed(spans.cursor, Key(s))
      BY <1>16, <2>3
    <3> QED
      BY <1>10, <1>13, <2>3, <3>1, <3>2
  <2> QED
    BY <1>11, <2>1, <2>2, <2>3
<1>19. ASSUME NEW t \in y.steady
       PROVE  Asked(y, t) /\ (Shown(y, t.id) \/ (y.pc = "paging" /\ ~Passed(y.cursor, Key(t))))
  <2>1. t \in traces /\ Asked(spans, t) /\ (Shown(spans, t.id) \/ ~Passed(spans.cursor, Key(t)))
    BY <1>10 DEF SpansInv
  <2>2. Asked(y, t)
    BY <1>10, <2>1 DEF Asked
  <2>3. CASE Shown(spans, t.id)
    <3>1. PICK i \in 1 .. n : spans.seen[i].id = t.id
      BY <2>3 DEF Shown, n
    <3>2. i \in 1 .. Len(y.seen) /\ y.seen[i].id = t.id
      BY <1>10, <3>1
    <3> QED
      BY <2>2, <3>2 DEF Shown
  <2>4. CASE ~Passed(spans.cursor, Key(t))
    <3>1. PICK k \in B : k.id = t.id /\ k.at = t.last
      BY <1>2, <1>5, <2>1
    <3>2. k \in S
      BY <1>7, <1>14, <2>4, <3>1
    <3>3. CASE \E i \in (n + 1) .. Len(y.seen) : y.seen[i] = k
      <4>1. PICK i \in (n + 1) .. Len(y.seen) : y.seen[i] = k
        BY <3>3
      <4>2. i \in 1 .. Len(y.seen)
        BY <1>10
      <4> QED
        BY <2>2, <3>1, <4>1, <4>2 DEF Shown
    <3>4. CASE y.pc = "paging" /\ ~Passed(y.cursor, k)
      BY <1>14, <2>2, <3>1, <3>4
    <3> QED
      BY <1>10, <3>2, <3>3, <3>4
  <2> QED
    BY <2>1, <2>3, <2>4
<1>20. y.steady \subseteq traces
  BY <1>10 DEF SpansInv
<1> QED
  BY <1>1, <1>10, <1>17, <1>18, <1>19, <1>20 DEF SpansInv

\* The operators of the traces' module are those of this one.
LEMMA SameOperators ==
    ASSUME NEW S
    PROVE  T!Cardinality(S) = Cardinality(S) /\ T!Min(S) = Min(S) /\ T!Max(S) = Max(S)
<1>1. T!Cardinality(S) = Cardinality(S)
  BY DEF T!Cardinality, Cardinality
<1>2. T!Min(S) = Min(S) /\ T!Max(S) = Max(S)
  BY DEF T!Min, Min, T!Max, Max
<1> QED
  BY <1>1, <1>2

\* A trace extended moves up and stays the trace it was,
LEMMA ExtendedFacts ==
    ASSUME NEW t, NEW n, t \in [id : 1 .. n, span : {t.span}, user : {t.user}, first : {t.first}, last : Nat],
           NEW at \in Nat
    PROVE  LET e == T!Extended(t, at, at) IN
           /\ e \in [id : 1 .. n, span : {e.span}, user : {e.user}, first : {e.first}, last : Nat]
           /\ e.id = t.id /\ e.last >= t.last
<1> DEFINE lo == Min({t.first, at})
<1> DEFINE hi == Max({t.last, at})
<1> DEFINE e == T!Extended(t, at, at)
<1>1. e = [t EXCEPT !.first = lo, !.last = hi]
  BY SameOperators DEF T!Extended
<1>2. hi \in Nat /\ hi >= t.last
  <2>1. t.last \in Nat
    OBVIOUS
  <2>2. hi \in {t.last, at} /\ hi >= t.last
    BY <2>1, MaxOfTwo
  <2> QED
    BY <2>1, <2>2
<1> HIDE DEF lo, hi, e
<1>3. e.id = t.id /\ e.last = hi /\ e.first = lo /\ e.span = t.span /\ e.user = t.user
  BY <1>1
<1>4. e \in [id : 1 .. n, span : {e.span}, user : {e.user}, first : {e.first}, last : Nat]
  BY <1>1, <1>2, <1>3
<1> QED
  BY <1>2, <1>3, <1>4 DEF e

\* and one put keeps all others (UpsertTrace).
LEMMA UpsertFacts ==
    ASSUME NEW ts, IsTraces(ts), NEW span, NEW user, NEW at \in Nat
    PROVE  LET us == T!UpsertTrace(ts, span, user, at) IN IsTraces(us) /\ MovesUp(ts, us)
<1> DEFINE us == T!UpsertTrace(ts, span, user, at)
<1> DEFINE n == Cardinality(ts)
<1> DEFINE same == {t \in ts : t.span = span /\ t.user = user}
<1> DEFINE new == [id |-> n + 1, span |-> span, user |-> user, first |-> at, last |-> at]
<1>1. IsFiniteSet(ts) /\ n \in Nat /\ \A t \in ts : t.last \in Nat /\ t.id \in 1 .. n
  BY FS_CardinalityType DEF IsTraces
<1>2. \/ us = ts
      \/ us = ts \cup {new}
      \/ us = (ts \ same) \cup {T!Extended(t, at, at) : t \in same}
  BY SameOperators DEF T!UpsertTrace, T!PutTrace
<1>3. CASE us = ts
  BY <1>1, <1>3 DEF MovesUp
<1>4. CASE us = ts \cup {new}
  <2>1. new \notin ts
    BY <1>1
  <2>2. IsFiniteSet(us) /\ Cardinality(us) = n + 1
    BY <1>1, <1>4, <2>1, FS_AddElement
  <2> HIDE DEF us
  <2>3. \A t \in ts : t \in [id : 1 .. n + 1, span : {t.span}, user : {t.user}, first : {t.first}, last : Nat]
    <3>1. ASSUME NEW t \in ts
          PROVE  t \in [id : 1 .. n + 1, span : {t.span}, user : {t.user}, first : {t.first}, last : Nat]
      <4>1. t \in [id : 1 .. n, span : {t.span}, user : {t.user}, first : {t.first}, last : Nat]
        BY DEF IsTraces
      <4> HIDE DEF n
      <4>2. t.id \in 1 .. n + 1
        BY <1>1, <4>1
      <4> QED
        BY <4>1, <4>2
    <3> QED
      BY <3>1
  <2>4. new \in [id : 1 .. n + 1, span : {new.span}, user : {new.user}, first : {new.first}, last : Nat]
    BY <1>1
  <2>5. \A s, t \in us : s.id = t.id => s = t
    <3>1. \A t \in ts : t.id # new.id
      BY <1>1
    <3>2. \A s, t \in ts : s.id = t.id => s = t
      BY DEF IsTraces
    <3> HIDE DEF new
    <3> QED
      BY <1>4, <3>1, <3>2
  <2> HIDE DEF new, n
  <2>6. IsTraces(us)
    BY <1>4, <2>2, <2>3, <2>4, <2>5 DEF IsTraces
  <2>7. MovesUp(ts, us)
    BY <1>1, <1>4 DEF MovesUp
  <2> QED
    BY <2>6, <2>7 DEF us
<1>5. CASE us = (ts \ same) \cup {T!Extended(t, at, at) : t \in same}
  <2> DEFINE F(t) == IF t \in same THEN T!Extended(t, at, at) ELSE t
  <2>1. us = {F(t) : t \in ts}
    BY <1>5
  <2>2. \A t \in ts : LET e == F(t) IN
          /\ e \in [id : 1 .. n, span : {e.span}, user : {e.user}, first : {e.first}, last : Nat]
          /\ e.id = t.id /\ e.last >= t.last
    <3>1. ASSUME NEW t \in ts
          PROVE  LET e == F(t) IN
                 /\ e \in [id : 1 .. n, span : {e.span}, user : {e.user}, first : {e.first}, last : Nat]
                 /\ e.id = t.id /\ e.last >= t.last
      <4>1. t \in [id : 1 .. n, span : {t.span}, user : {t.user}, first : {t.first}, last : Nat]
        BY DEF IsTraces
      <4>2. CASE t \in same
        BY <4>1, <4>2, ExtendedFacts
      <4>3. CASE t \notin same
        BY <4>1, <4>3, <1>1
      <4> QED
        BY <4>2, <4>3
    <3> QED
      BY <3>1
  <2> HIDE DEF F, us
  <2>3. \A s, t \in ts : F(s).id = F(t).id => s = t
    BY <2>2 DEF IsTraces
  <2> DEFINE f == [t \in ts |-> F(t)]
  <2>4. f \in Bijection(ts, us)
    <3>1. f \in Surjection(ts, us)
      BY <2>1 DEF Surjection
    <3>2. f \in Injection(ts, us)
      BY <2>1, <2>3 DEF Injection, IsInjective
    <3> QED
      BY <3>1, <3>2 DEF Bijection
  <2>5. IsFiniteSet(us) /\ Cardinality(us) = n
    <3>1. ExistsBijection(ts, us)
      BY <2>4 DEF ExistsBijection
    <3> QED
      BY <1>1, <3>1, FS_Bijection
  <2>6. \A s, t \in us : s.id = t.id => s = t
    BY <2>1, <2>3
  <2>7. \A e \in us : e \in [id : 1 .. n, span : {e.span}, user : {e.user}, first : {e.first}, last : Nat]
    BY <2>1, <2>2
  <2>8. IsTraces(us)
    BY <2>5, <2>6, <2>7 DEF IsTraces
  <2>9. MovesUp(ts, us)
    BY <2>1, <2>2 DEF MovesUp
  <2> QED
    BY <2>8, <2>9 DEF us
<1> QED
  BY <1>2, <1>3, <1>4, <1>5

----------------------------------------------------------------------------

\* A change of rows that keeps their keys keeps the table and moves none.
LEMMA ChangedTable ==
    ASSUME NEW R, IsTable(R), NEW f, NEW Q, Q = {f[r] : r \in R},
           \A r \in R : IsRow(f[r]) /\ f[r].id = r.id /\ f[r].at = r.at
    PROVE  IsTable(Q) /\ InPlace(R, Q)
<1> DEFINE g == [r \in R |-> f[r]]
<1>1. IsFiniteSet(R) /\ \A r, q \in R : r.id = q.id => r = q
  BY DEF IsTable
<1>2. g \in Surjection(R, Q)
  BY DEF Surjection
<1> HIDE DEF g
<1>3. IsFiniteSet(Q)
  BY <1>1, <1>2, FS_Surjection
<1> QED
  BY <1>1, <1>3 DEF IsTable, InPlace

\* Of UpdateRequest,
LEMMA UpdateFacts ==
    ASSUME NEW R, IsTable(R), NEW id, NEW at, NEW set,
           DOMAIN set \cap {"id", "at", "span"} = {}
    PROVE  LET Q == UpdateRequest(R, id, at, set) IN
           /\ IsTable(Q) /\ InPlace(R, Q)
           /\ \A r \in R : "user" \notin DOMAIN set \/ r.id # id => \E q \in Q : Known(r, q)
<1> DEFINE F(r) == [c \in DOMAIN r |-> IF c \in DOMAIN set THEN set[c] ELSE r[c]]
<1> DEFINE G(r) == IF r.id = id /\ r.at = at THEN F(r) ELSE r
<1> DEFINE Q == UpdateRequest(R, id, at, set)
<1>1. Q = {G(r) : r \in R}
  BY DEF UpdateRequest
<1>2. ASSUME NEW r \in R
      PROVE  /\ IsRow(F(r)) /\ F(r).id = r.id /\ F(r).at = r.at /\ F(r).span = r.span
             /\ "user" \notin DOMAIN set => F(r).user = r.user
  <2>1. IsRow(r)
    BY DEF IsTable
  <2>2. {"id", "at", "span", "user"} \subseteq DOMAIN r
    BY <2>1 DEF IsRow, Columns
  <2>3. /\ F(r).id = r.id /\ F(r).at = r.at /\ F(r).span = r.span
        /\ "user" \notin DOMAIN set => F(r).user = r.user
    BY <2>2
  <2>4. DOMAIN F(r) = Columns /\ F(r) = [c \in DOMAIN F(r) |-> F(r)[c]]
    BY <2>1 DEF IsRow
  <2> HIDE DEF F
  <2> QED
    BY <2>1, <2>3, <2>4 DEF IsRow
<1> HIDE DEF F
<1>3. ASSUME NEW r \in R
      PROVE  /\ IsRow(G(r)) /\ G(r).id = r.id /\ G(r).at = r.at
             /\ "user" \notin DOMAIN set \/ r.id # id => Known(r, G(r))
  BY <1>2 DEF IsTable, Known
<1> HIDE DEF G, Q
<1> DEFINE f == [r \in R |-> G(r)]
<1>4. Q = {f[r] : r \in R} /\ \A r \in R : f[r] = G(r)
  BY <1>1
<1> HIDE DEF f
<1>5. IsTable(Q) /\ InPlace(R, Q)
  BY <1>3, <1>4, ChangedTable
<1> QED
  BY <1>1, <1>3, <1>5 DEF Q

\* and of SetRequestAnnotation.
LEMMA AnnotationFacts ==
    ASSUME NEW R, IsTable(R), NEW id, NEW key, NEW value
    PROVE  LET Q == SetRequestAnnotation(R, id, key, value) IN
           IsTable(Q) /\ InPlace(R, Q) /\ Keeps(R, Q)
<1> DEFINE A(r) == Annotated(r.annotations, key, value)
<1> DEFINE G(r) == IF r.id # id THEN r ELSE [r EXCEPT !.annotations = A(r)]
<1> DEFINE Q == SetRequestAnnotation(R, id, key, value)
<1>1. Q = {G(r) : r \in R}
  BY DEF SetRequestAnnotation
<1> HIDE DEF A
<1>2. ASSUME NEW r \in R PROVE IsRow(G(r)) /\ G(r).id = r.id /\ G(r).at = r.at /\ Known(r, G(r))
  <2>1. IsRow(r)
    BY DEF IsTable
  <2> DEFINE e == [r EXCEPT !.annotations = A(r)]
  <2>2. /\ e.id = r.id /\ e.at = r.at /\ e.user = r.user /\ e.span = r.span /\ DOMAIN e = Columns
        /\ e = [c \in DOMAIN e |-> e[c]]
    BY <2>1 DEF IsRow, Columns
  <2> HIDE DEF e
  <2>3. IsRow(e)
    BY <2>1, <2>2 DEF IsRow
  <2> QED
    BY <2>1, <2>2, <2>3 DEF Known, e
<1> HIDE DEF G, Q
<1> DEFINE f == [r \in R |-> G(r)]
<1>3. Q = {f[r] : r \in R} /\ \A r \in R : f[r] = G(r)
  BY <1>1
<1> HIDE DEF f
<1>4. IsTable(Q) /\ InPlace(R, Q)
  BY <1>2, <1>3, ChangedTable
<1> QED
  BY <1>1, <1>2, <1>4 DEF Q, Keeps

\* Such a change of the tables keeps the invariant.
LEMMA TableStep ==
    ASSUME PageInv, Settle(request', traces'), UNCHANGED detail,
           IsTable(request'), InPlace(request, request'), Keeps(request, request'),
           IsTraces(traces'), MovesUp(traces, traces'), \A r \in untraced' : r.at \in Nat
    PROVE  PageInv'
<1>1. Tables'
  BY DEF Tables
<1>2. RowsInv'
  BY RowsSettle DEF PageInv, InPlace
<1>3. SpansInv'
  <2>1. \A t \in traces : t.last \in Nat /\ t.id \in Nat
    BY DEF PageInv, Tables, IsTraces
  <2> QED
    BY <2>1, SpansSettle DEF PageInv, MovesUp
<1>4. DetailInv'
  <2>1. ASSUME detail.pc = "got"
        PROVE  \E q \in request' : Known(detail.of, q)
    <3>1. PICK r \in request : Known(detail.of, r)
      BY <2>1 DEF PageInv, DetailInv
    <3>2. PICK q \in request' : Known(r, q)
      BY <2>1, <3>1 DEF PageInv, DetailInv, Known, Keeps
    <3> QED
      BY <3>1, <3>2 DEF Known
  <2> QED
    BY <2>1 DEF PageInv, DetailInv, SpanShowsItself
<1> QED
  BY <1>1, <1>2, <1>3, <1>4 DEF PageInv

\* A table left alone is one of them.
LEMMA SameTraces ==
    ASSUME Tables
    PROVE  MovesUp(traces, traces) /\ IsTraces(traces) /\ IsTable(request)
           /\ InPlace(request, request) /\ Keeps(request, request)
<1>1. \A t \in traces : t.last \in Nat
  BY DEF Tables, IsTraces
<1>2. \A r, q \in request : r.id = q.id => r = q
  BY DEF Tables, IsTable
<1> QED
  BY <1>1, <1>2 DEF MovesUp, InPlace, Keeps, Known, Tables

\* The gateway's steps: a row inserted,
LEMMA InsertRowKeeps == ASSUME PageInv, InsertRow PROVE PageInv'
<1>1. PICK r \in Fresh :
        /\ \A q \in request : q.id # r.id
        /\ request' = request \cup {r} /\ untraced' = untraced \cup {r}
        /\ Settle(request', traces) /\ UNCHANGED <<traces, detail>>
  BY DEF InsertRow
<1>2. IsRow(r)
  BY OldAssumption
<1>3. IsTable(request) /\ IsTraces(traces) /\ MovesUp(traces, traces)
  BY SameTraces DEF PageInv
<1>4. IsTable(request')
  <2>1. IsFiniteSet(request')
    BY <1>1, <1>3, FS_AddElement DEF IsTable
  <2> QED
    BY <1>1, <1>2, <1>3, <2>1 DEF IsTable
<1>5. InPlace(request, request') /\ Keeps(request, request')
  BY <1>1, <1>3 DEF IsTable, InPlace, Keeps, Known
<1>6. \A q \in untraced' : q.at \in Nat
  BY <1>1, <1>2 DEF IsRow, PageInv, Tables
<1> QED
  BY <1>1, <1>3, <1>4, <1>5, <1>6, TableStep

\* its trace extended,
LEMMA ExtendTraceKeeps == ASSUME PageInv, ExtendTrace PROVE PageInv'
<1>1. PICK r \in untraced :
        /\ traces' = T!UpsertTrace(traces, r.parent, r.user, r.at)
        /\ untraced' = untraced \ {r}
        /\ Settle(request, traces') /\ UNCHANGED <<request, detail>>
  BY DEF ExtendTrace
<1>2. r.at \in Nat /\ IsTraces(traces)
  BY DEF PageInv, Tables
<1>3. IsTraces(traces') /\ MovesUp(traces, traces')
  BY <1>1, <1>2, UpsertFacts
<1>4. IsTable(request') /\ InPlace(request, request') /\ Keeps(request, request')
  BY <1>1, SameTraces DEF PageInv
<1>5. \A q \in untraced' : q.at \in Nat
  BY <1>1 DEF PageInv, Tables
<1> QED
  BY <1>1, <1>3, <1>4, <1>5, TableStep

\* its owner found,
LEMMA OwnRowKeeps == ASSUME PageInv, OwnRow PROVE PageInv'
<1>1. PICK r \in request, o \in Owners :
        /\ Unset(r.user)
        /\ request' = UpdateRequest(request, r.id, r.at,
                          [user |-> o.user, equal |-> [r.equal EXCEPT !["project"] = o.project]])
        /\ untraced' = untraced \cup {[r EXCEPT !.user = o.user]}
        /\ Settle(request', traces) /\ UNCHANGED <<traces, detail>>
  BY DEF OwnRow
<1> DEFINE equal == [r.equal EXCEPT !["project"] = o.project]
<1> DEFINE set == [user |-> o.user, equal |-> equal]
<1>2. IsTable(request) /\ IsTraces(traces) /\ MovesUp(traces, traces)
  BY SameTraces DEF PageInv
<1>3. DOMAIN set = {"user", "equal"}
  OBVIOUS
<1>4. request' = UpdateRequest(request, r.id, r.at, set)
  BY <1>1
<1> HIDE DEF set
<1>5. /\ IsTable(request') /\ InPlace(request, request')
      /\ \A p \in request : "user" \notin DOMAIN set \/ p.id # r.id => \E q \in request' : Known(p, q)
  <2>1. DOMAIN set \cap {"id", "at", "span"} = {}
    BY <1>3
  <2> QED
    BY <1>2, <1>4, <2>1, UpdateFacts
<1>6. Keeps(request, request')
  <2>1. \A p \in request : ~Unset(p.user) => p.id # r.id
    BY <1>1, <1>2 DEF IsTable
  <2> QED
    BY <1>5, <2>1 DEF Keeps
<1>7. \A q \in untraced' : q.at \in Nat
  <2>1. IsRow(r)
    BY <1>2 DEF IsTable
  <2>2. [r EXCEPT !.user = o.user].at \in Nat
    BY <2>1 DEF IsRow, Columns
  <2> QED
    BY <1>1, <2>2 DEF PageInv, Tables
<1> QED
  BY <1>1, <1>2, <1>5, <1>6, <1>7, TableStep

\* its end,
LEMMA FinishRowKeeps == ASSUME PageInv, FinishRow PROVE PageInv'
<1>1. PICK r \in request, set \in Finishes :
        /\ request' = UpdateRequest(request, r.id, r.at, set)
        /\ Settle(request', traces) /\ UNCHANGED <<traces, untraced, detail>>
  BY DEF FinishRow
<1>2. IsTable(request) /\ IsTraces(traces) /\ MovesUp(traces, traces)
  BY SameTraces DEF PageInv
<1>3. DOMAIN set \cap {"id", "at", "span"} = {} /\ "user" \notin DOMAIN set
  BY FinishesAssumption
<1>4. /\ IsTable(request') /\ InPlace(request, request')
      /\ \A p \in request : "user" \notin DOMAIN set \/ p.id # r.id => \E q \in request' : Known(p, q)
  BY <1>1, <1>2, <1>3, UpdateFacts
<1>5. Keeps(request, request')
  BY <1>3, <1>4 DEF Keeps
<1>6. \A q \in untraced' : q.at \in Nat
  BY <1>1 DEF PageInv, Tables
<1> QED
  BY <1>1, <1>2, <1>4, <1>5, <1>6, TableStep

\* and its annotations.
LEMMA AnnotateRowKeeps == ASSUME PageInv, AnnotateRow PROVE PageInv'
<1>1. PICK a \in Annotations :
        /\ request' = SetRequestAnnotation(request, a[1], a[2], a[3])
        /\ Settle(request', traces) /\ UNCHANGED <<traces, untraced, detail>>
  BY DEF AnnotateRow
<1>2. IsTable(request) /\ IsTraces(traces) /\ MovesUp(traces, traces)
  BY SameTraces DEF PageInv
<1>3. IsTable(request') /\ InPlace(request, request') /\ Keeps(request, request')
  BY <1>1, <1>2, AnnotationFacts
<1>4. \A q \in untraced' : q.at \in Nat
  BY <1>1 DEF PageInv, Tables
<1> QED
  BY <1>1, <1>2, <1>3, <1>4, TableStep

----------------------------------------------------------------------------

\* The reader of a span holds a row that stays there,
LEMMA GetForSpanKeeps == ASSUME PageInv, GetForSpan PROVE DetailInv'
<1>1. PICK r \in request : ~Unset(r.user) /\ detail' = [detail EXCEPT !.pc = "got", !.user = r.user, !.of = r]
  BY DEF GetForSpan
<1>2. request' = request
  BY DEF GetForSpan
<1>3. /\ detail' \in [pc : {"idle", "got", "done"}, user : {detail'.user}, of : {detail'.of}, shown : {detail'.shown}]
      /\ detail'.pc = "got" /\ detail'.user = r.user /\ detail'.of = r
  BY <1>1 DEF PageInv, DetailInv
<1> QED
  BY <1>1, <1>2, <1>3 DEF DetailInv, SpanShowsItself, Known

\* a span lists that row
LEMMA SpanFacts ==
    ASSUME NEW R, IsTable(R), NEW of, NEW q \in R, Known(of, q)
    PROVE  LET found == ListRequestsBySpan(R, of.user, of.id, of.at)
               all == IF found = <<>> THEN <<of>> ELSE found IN
           /\ \E i \in DOMAIN all : all[i].id = of.id
           /\ \A i, j \in DOMAIN all : i < j => Earlier(all[i], all[j])
<1> DEFINE anchors == {a \in GetRequest(R, of.user, of.id, of.at) : ~Unset(a.span)}
<1> DEFINE S == {r \in R : r.user = of.user /\ \E a \in anchors : r.span = a.span}
<1> DEFINE n == Cardinality(S)
<1> DEFINE found == Oldest(S, n)
<1>1. ListRequestsBySpan(R, of.user, of.id, of.at) = found
  BY DEF ListRequestsBySpan
<1>2. S \subseteq R
  OBVIOUS
<1>3. \A a \in anchors : a = q
  BY DEF GetRequest, IsTable, Known
<1>4. IF Unset(q.span) THEN S = {} ELSE q \in S
  <2>1. CASE Unset(q.span)
    <3>1. anchors = {}
      BY <1>3, <2>1
    <3> QED
      BY <2>1, <3>1
  <2>2. CASE ~Unset(q.span)
    <3>1. q \in anchors
      BY <2>2 DEF GetRequest, Known
    <3> QED
      BY <2>2, <3>1 DEF Known
  <2> QED
    BY <2>1, <2>2
<1> HIDE DEF anchors, S
<1>5. Keyed(S) /\ n \in Nat
  BY <1>2, KeyedRows, FS_CardinalityType DEF Keyed
<1>6. /\ found \in Seq(S) /\ Len(found) \in Nat /\ DOMAIN found = 1 .. Len(found) /\ Len(found) <= n
      /\ \A i, j \in 1 .. Len(found) : i < j => Earlier(found[i], found[j])
  BY <1>5, OldestFacts
<1>7. CASE S = {}
  <2>1. n = 0
    BY <1>7, FS_EmptySet
  <2>2. found = <<>>
    BY <1>6, <2>1, EmptySeq
  <2> QED
    BY <1>1, <2>2
<1>8. CASE q \in S
  <2>1. PICK i \in 1 .. n : q = Nth(S, i)
    BY <1>5, <1>8, NthFacts
  <2>2. Min({n, n}) = n
    BY <1>5, MinOfTwo
  <2>3. DOMAIN found = 1 .. n /\ found[i] = q
    BY <2>1, <2>2 DEF Oldest
  <2> HIDE DEF found, n
  <2>4. i \in 1 .. Len(found)
    BY <1>6, <2>1, <2>3
  <2>5. found # <<>>
    <3>1. Len(<<>>) = 0
      OBVIOUS
    <3> QED
      BY <1>6, <2>4, <3>1
  <2> QED
    BY <1>1, <1>6, <2>3, <2>4, <2>5 DEF Known
<1> QED
  BY <1>4, <1>7, <1>8

\* and so its page does.
LEMMA ListSpanKeeps == ASSUME PageInv, ListSpan PROVE DetailInv'
<1> DEFINE found == ListRequestsBySpan(request, detail.user, detail.of.id, detail.of.at)
<1> DEFINE all == IF found = <<>> THEN <<detail.of>> ELSE found
<1>1. detail.pc = "got" /\ detail' = [detail EXCEPT !.pc = "done", !.shown = all]
  BY DEF ListSpan
<1>2. detail.user = detail.of.user /\ \E q \in request : Known(detail.of, q)
  BY <1>1 DEF PageInv, DetailInv
<1>3. IsTable(request)
  BY DEF PageInv, Tables
<1>4. /\ \E i \in DOMAIN all : all[i].id = detail.of.id
      /\ \A i, j \in DOMAIN all : i < j => Earlier(all[i], all[j])
  <2>1. PICK q \in request : Known(detail.of, q)
    BY <1>2
  <2> DEFINE of == detail.of
  <2> DEFINE first == ListRequestsBySpan(request, of.user, of.id, of.at)
  <2> DEFINE list == IF first = <<>> THEN <<of>> ELSE first
  <2> HIDE DEF of
  <2>2. /\ \E i \in DOMAIN list : list[i].id = of.id
        /\ \A i, j \in DOMAIN list : i < j => Earlier(list[i], list[j])
    BY <1>3, <2>1, SpanFacts DEF of
  <2>3. all = list
    BY <1>2 DEF of
  <2> HIDE DEF all, list
  <2> QED
    BY <2>2, <2>3 DEF of
<1> HIDE DEF all, found
<1>5. /\ detail' \in [pc : {"idle", "got", "done"}, user : {detail'.user}, of : {detail'.of}, shown : {detail'.shown}]
      /\ detail'.pc = "done" /\ detail'.shown = all /\ detail'.of = detail.of
  BY <1>1 DEF PageInv, DetailInv
<1> QED
  BY <1>4, <1>5 DEF DetailInv, SpanShowsItself

\* The times of rows have a last one.
LEMMA LastTime ==
    ASSUME NEW S, IsTable(S), NEW r \in S
    PROVE  Max({q.at : q \in S}) \in Nat
<1> DEFINE n == Cardinality(S)
<1> DEFINE times == {q.at : q \in S}
<1>1. Keyed(S) /\ \A q \in S : q.at \in Nat /\ q.id \in Nat
  BY KeyedRows
<1>2. n \in Nat /\ n # 0
  BY <1>1, FS_CardinalityType, FS_EmptySet DEF Keyed
<1>3. Nth(S, n) \in S /\ n \in 1 .. n
  BY <1>1, <1>2, NthFacts
<1>4. \A q \in S : Nth(S, n).at >= q.at
  <2> SUFFICES ASSUME NEW q \in S PROVE Nth(S, n).at >= q.at
    OBVIOUS
  <2>1. PICK i \in 1 .. n : q = Nth(S, i)
    BY <1>1, NthFacts
  <2>2. q = Nth(S, n) \/ Earlier(q, Nth(S, n))
    <3>1. i = n \/ i < n
      BY <1>2
    <3> QED
      BY <1>1, <1>3, <2>1, <3>1, NthFacts
  <2> QED
    BY <1>1, <1>3, <2>2 DEF Earlier
<1> DEFINE m == Nth(S, n).at
<1>5. m \in times /\ \A t \in times : m >= t
  BY <1>3, <1>4
<1>6. times \subseteq Nat
  BY <1>1
<1> HIDE DEF times, m
<1>7. Max(times) \in times
  BY <1>5 DEF Max
<1> QED
  BY <1>6, <1>7 DEF times

\* The traces at the start are numbered by their first rows.
LEMMA InsertedTraces ==
    ASSUME NEW S, IsTable(S)
    PROVE  IsTraces(Inserted(S))
<1> DEFINE F == Firsts(S)
<1> DEFINE n == Cardinality(F)
<1> DEFINE Upto(r) == {q \in F : ~Earlier(r, q)}
<1> DEFINE Until(r) == Max({q.at : q \in Traced(S, r)})
<1> DEFINE Entry(r) == [id |-> Cardinality(Upto(r)), span |-> r.parent, user |-> r.user,
                      first |-> r.at, last |-> Until(r)]
<1> DEFINE I == Inserted(S)
<1>1. I = {Entry(r) : r \in F}
  BY DEF Inserted
<1>2. F \subseteq S
  BY DEF Firsts
<1>3. Keyed(F)
  BY <1>2, KeyedRows
<1>4. n \in Nat /\ IsFiniteSet(F)
  BY <1>3, FS_CardinalityType DEF Keyed
<1>5. ASSUME NEW r \in F PROVE Until(r) \in Nat
  <2>1. Traced(S, r) \subseteq S /\ r \in Traced(S, r)
    BY <1>2 DEF Traced
  <2>2. IsTable(Traced(S, r))
    BY <2>1, FS_Subset DEF IsTable
  <2> QED
    BY <2>1, <2>2, LastTime
<1> HIDE DEF F, Until
<1>6. ASSUME NEW r \in F PROVE Cardinality(Upto(r)) = Rank(F, r) + 1
  <2> DEFINE below == {q \in F : Earlier(q, r)}
  <2>1. Upto(r) = below \cup {r} /\ r \notin below
    BY <1>3, EarlierFacts
  <2>2. IsFiniteSet(below)
    BY <1>4, FS_Subset
  <2> HIDE DEF below
  <2>3. Cardinality(Upto(r)) = Cardinality(below) + 1
    BY <2>1, <2>2, FS_AddElement
  <2> QED
    BY <2>3 DEF Rank, below
<1> HIDE DEF Upto
<1>7. \A r \in F : Entry(r).id \in 1 .. n
  BY <1>3, <1>4, <1>6, RankFacts
<1>8. \A r, q \in F : Entry(r).id = Entry(q).id => r = q
  <2> SUFFICES ASSUME NEW r \in F, NEW q \in F, Entry(r).id = Entry(q).id PROVE r = q
    OBVIOUS
  <2>1. Rank(F, r) = Rank(F, q)
    BY <1>3, <1>4, <1>6, RankFacts
  <2> QED
    BY <1>3, <2>1, <1>4, EarlierFacts, RankFacts
<1>9. \A r \in F : LET t == Entry(r) IN
         t \in [id : 1 .. n, span : {t.span}, user : {t.user}, first : {t.first}, last : Nat]
  BY <1>5, <1>7
<1> HIDE DEF Row, n
<1> DEFINE f == [r \in F |-> Entry(r)]
<1>10. f \in Bijection(F, I)
  <2>1. f \in Surjection(F, I)
    BY <1>1 DEF Surjection
  <2>2. f \in Injection(F, I)
    BY <1>1, <1>8 DEF Injection, IsInjective
  <2> QED
    BY <2>1, <2>2 DEF Bijection
<1>11. IsFiniteSet(I) /\ Cardinality(I) = n
  <2>1. ExistsBijection(F, I)
    BY <1>10 DEF ExistsBijection
  <2> QED
    BY <1>4, <2>1, FS_Bijection DEF n
<1> HIDE DEF I, f
<1>12. \A t \in I : t \in [id : 1 .. n, span : {t.span}, user : {t.user}, first : {t.first}, last : Nat]
  BY <1>1, <1>9
<1>13. \A s, t \in I : s.id = t.id => s = t
  BY <1>1, <1>8
<1> QED
  BY <1>11, <1>12, <1>13 DEF IsTraces, I

\* The invariant holds at the start
LEMMA InitPages == PagesInit => PageInv
<1> SUFFICES ASSUME PagesInit PROVE PageInv
  OBVIOUS
<1>1. Tables
  BY OldAssumption, InsertedTraces DEF PagesInit, Tables
<1>2. \A x \in {rows, spans} : IsReader(x) /\ x.seen = <<>> /\ x.pc = "idle" /\ x.steady = {} /\ Unset(x.cursor)
  BY DEF PagesInit, Idle, IsReader, Unset
<1>3. \A seq : seq = <<>> => Listing(seq) /\ Len(seq) = 0 /\ Descending(seq)
  BY DEF Listing, Descending
<1>4. RowsInv
  BY <1>2, <1>3 DEF RowsInv, ReaderInv
<1>5. SpansInv
  BY <1>2, <1>3 DEF SpansInv, ReaderInv
<1>6. DetailInv
  BY DEF PagesInit, DetailInv, SpanShowsItself
<1> QED
  BY <1>1, <1>4, <1>5, <1>6 DEF PageInv

\* and after every step.
LEMMA PageStep == PageInv /\ [PagesNext]_pageVars => PageInv'
<1> SUFFICES ASSUME PageInv, [PagesNext]_pageVars PROVE PageInv'
  OBVIOUS
<1>1. CASE InsertRow \/ ExtendTrace \/ OwnRow \/ FinishRow \/ AnnotateRow
  BY <1>1, InsertRowKeeps, ExtendTraceKeeps, OwnRowKeeps, FinishRowKeeps, AnnotateRowKeeps
<1>2. CASE OpenRequests \/ ListRequestsPage
  <2>1. RowsInv'
    BY <1>2, OpenRequestsKeeps, ListRequestsPageKeeps DEF PageInv
  <2>2. UNCHANGED <<request, traces, untraced, spans, detail>>
    BY <1>2 DEF OpenRequests, ListRequestsPage
  <2> QED
    BY <2>1, <2>2 DEF PageInv, Tables, SpansInv, DetailInv, SpanShowsItself
<1>3. CASE OpenTraces \/ ListTracesPage
  <2>1. SpansInv'
    BY <1>3, OpenTracesKeeps, ListTracesPageKeeps DEF PageInv
  <2>2. UNCHANGED <<request, traces, untraced, rows, detail>>
    BY <1>3 DEF OpenTraces, ListTracesPage
  <2> QED
    BY <2>1, <2>2 DEF PageInv, Tables, RowsInv, DetailInv, SpanShowsItself
<1>4. CASE GetForSpan \/ ListSpan
  <2>1. DetailInv'
    BY <1>4, GetForSpanKeeps, ListSpanKeeps
  <2>2. UNCHANGED <<request, traces, untraced, rows, spans>>
    BY <1>4 DEF GetForSpan, ListSpan
  <2> QED
    BY <2>1, <2>2 DEF PageInv, Tables, RowsInv, SpansInv
<1>5. CASE UNCHANGED pageVars
  BY <1>5 DEF pageVars, PageInv, Tables, RowsInv, SpansInv, DetailInv, SpanShowsItself
<1> QED
  BY <1>1, <1>2, <1>3, <1>4, <1>5 DEF PagesNext

\* Whatever changes between two pages, a reader who pages to the end was shown
\* every row and every trace that was part of the query all along, none twice and
\* rows in order; and the page of a request shows it in its span.
THEOREM EveryItemListedHolds == PagesSpec => []EveryItemListed
<1>1. PageInv => EveryItemListed
  <2> SUFFICES ASSUME PageInv PROVE EveryItemListed
    OBVIOUS
  <2>1. EveryRowListed
    <3>1. DOMAIN rows.seen = 1 .. Len(rows.seen)
      BY DEF PageInv, RowsInv, ReaderInv, Listing
    <3>2. Descending(rows.seen)
      BY DEF PageInv, RowsInv
    <3>3. rows.pc = "done" => \A id \in rows.steady : \E i \in DOMAIN rows.seen : rows.seen[i].id = id
      BY <3>1 DEF PageInv, RowsInv, Shown
    <3> QED
      BY <3>2, <3>3 DEF EveryRowListed
  <2>2. EveryTraceListed
    <3>1. DOMAIN spans.seen = 1 .. Len(spans.seen)
      BY DEF PageInv, SpansInv, ReaderInv, Listing
    <3>2. spans.pc = "done" => \A t \in spans.steady : \E i \in DOMAIN spans.seen : spans.seen[i].id = t.id
      BY <3>1 DEF PageInv, SpansInv, Shown
    <3>3. \A i, j \in DOMAIN spans.seen : i < j => spans.seen[i].id # spans.seen[j].id
      BY <3>1 DEF PageInv, SpansInv
    <3> QED
      BY <3>2, <3>3 DEF EveryTraceListed
  <2> QED
    BY <2>1, <2>2 DEF EveryItemListed, PageInv, DetailInv
<1> QED
  BY <1>1, InitPages, PageStep, PTL DEF PagesSpec

-----------------------------------------------------------------------------
(* Projects: the invariants.                                                *)

\* The table has one row for an id, and none beyond the sequence.
Rows ==
    /\ lastId \in Nat
    /\ \A p \in project : IsProject(p) /\ p.id <= lastId
    /\ \A p, q \in project : p.id = q.id => p = q

\* A merge that has read its source, written its target, found the requests of
\* the source, and changed them.
Reading == {"read", "updated", "listed", "moved", "deleted"}
Holding == {"updated", "listed", "moved", "deleted"}
Late == {"listed", "moved", "deleted"}
Firm == {"moved", "deleted"}

\* The shape of what requests and merges keep.
Extraction == [pc : {"new", "create", "found", "named", "done"},
               paths : Mentions \cup {{}}, id : Nat \cup {Null}]
IsMerge(t) ==
    t \in [pc : {"idle", "begun", "read", "updated", "listed", "moved", "deleted", "done", "failed"},
           src : Nat \cup {Null}, tgt : Nat \cup {Null}, read : {t.read}, row : {t.row},
           moved : SUBSET Requests]

Shapes ==
    /\ ex \in [Requests -> Extraction]
    /\ named \in [Requests -> Nat \cup {Null}]
    /\ merge = [m \in Merges |-> merge[m]] /\ \A m \in Merges : IsMerge(merge[m])
    /\ astray \in [named : SUBSET Requests, seen : SUBSET Requests]

\* The ids they keep were all given out.
Given(id) == id \in Nat /\ id <= lastId
Numbered ==
    /\ \A r \in Requests : ex[r].pc \in {"found", "named"} => Given(ex[r].id)
    /\ \A r \in Requests : named[r] # Null => Given(named[r]) /\ ex[r].pc \in {"named", "done"}
    /\ \A m \in Merges : merge[m].pc \in Active =>
          Given(merge[m].src) /\ Given(merge[m].tgt) /\ merge[m].src # merge[m].tgt

\* A project found or named is there, and the user's own.
Has(id, user) == \E p \in project : p.id = id /\ p.user = user
FoundThere == \A r \in Requests : ex[r].pc = "found" /\ r \notin astray.named => Has(ex[r].id, OwnerOf[r])
NamedThere == \A r \in Requests : named[r] # Null /\ r \notin astray.named => Has(named[r], OwnerOf[r])

\* What a merge knows: its sides are of one user; the source it has read was a row;
\* its target is there, locked by no other merge.
SameOwner ==
    \A m \in Merges : merge[m].pc \in Active =>
        \A p, q \in project : p.id = merge[m].src /\ q.id = merge[m].tgt => p.user = q.user
ReadRow == \A m \in Merges : merge[m].pc = "read" => \A s \in merge[m].read : IsProject(s)
Held ==
    \A m \in Merges : merge[m].pc \in Holding =>
        /\ IsProject(merge[m].row) /\ merge[m].row.id = merge[m].tgt
        /\ Has(merge[m].tgt, merge[m].row.user)
        /\ \A n \in Merges \ {m} :
              /\ merge[n].pc \in Holding => merge[n].tgt # merge[m].tgt
              /\ merge[n].pc = "deleted" => merge[n].src # merge[m].tgt

\* What it found is the target's owner's, and every request that names its source
\* but those astray; what it changed is no other merge's and names its source.
MovedBelong ==
    \A m \in Merges : merge[m].pc \in Late => \A r \in merge[m].moved :
        r \notin astray.named => OwnerOf[r] = merge[m].row.user
MovedAll ==
    \A m \in Merges : merge[m].pc \in Late => \A r \in Requests :
        named[r] = merge[m].src /\ r \notin astray.named => r \in merge[m].moved
Changed ==
    \A m \in Merges : merge[m].pc \in Firm =>
        /\ \A r \in merge[m].moved : named[r] = merge[m].src
        /\ \A n \in Merges \ {m} : merge[n].pc \in Firm => merge[n].moved \cap merge[m].moved = {}

MergesInv == SameOwner /\ ReadRow /\ Held /\ MovedBelong /\ MovedAll /\ Changed
NamesInv == Rows /\ Shapes /\ Numbered /\ FoundThere /\ NamedThere /\ MergesInv

\* A row's times span a request's.
Spans(p, r) == p.first \in Nat /\ p.last \in Nat /\ p.first <= r /\ r <= p.last

\* The requests whose project has noted them: it spans them, and so do the source
\* a merge has read and the row that will replace its target.
Noted(r) == ex[r].pc = "done" /\ r \notin astray.seen /\ named[r] # Null
SpansNoted == \A r \in Requests : Noted(r) =>
    \A p \in project : p.id = named[r] => Spans(p, r)
ReadSpans == \A m \in Merges : merge[m].pc = "read" => \A r \in Requests :
    Noted(r) /\ named[r] = merge[m].src =>
        merge[m].read # {} /\ \A s \in merge[m].read : Spans(s, r)
RowSpans == \A m \in Merges : merge[m].pc \in Holding => \A r \in Requests :
    Noted(r) /\ named[r] \in {merge[m].src, merge[m].tgt} => Spans(merge[m].row, r)
NamedBound == \A r \in Requests : ex[r].pc = "named" /\ r \notin astray.seen => named[r] = ex[r].id
SourceSeen == \A m \in Merges : merge[m].pc \in Reading => \A r \in Requests :
    ex[r].pc \in {"found", "named"} /\ ex[r].id = merge[m].src => r \in astray.seen
Exists(id) == \E p \in project : p.id = id
SeenThere == \A r \in Requests : r \notin astray.seen =>
    /\ named[r] # Null => Exists(named[r])
    /\ ex[r].pc = "found" => Exists(ex[r].id)
MovedSeen == \A m \in Merges : merge[m].pc \in Late => \A r \in Requests :
    named[r] = merge[m].src /\ r \notin astray.seen => r \in merge[m].moved
TimesInv == SpansNoted /\ ReadSpans /\ RowSpans /\ NamedBound /\ SourceSeen /\ SeenThere /\ MovedSeen

-----------------------------------------------------------------------------
(* What a step does, as far as the invariants see it.                       *)

\* What a step does to the rows.
SameRow(p, q) == p.id = q.id /\ p.user = q.user
RowsKeep(Gone) == \A p \in project : p.id \notin Gone => \E q \in project' : SameRow(p, q)
RowsOnly == \A q \in project' : q.id <= lastId => \E p \in project : SameRow(p, q)

\* What it does to the requests and to the merges.
AstrayGrows == astray.named \subseteq astray'.named /\ astray.seen \subseteq astray'.seen
RowsStay == project' = project /\ lastId' = lastId
OneExtraction(r) == r \in Requests /\ \A q \in Requests \ {r} : ex'[q] = ex[q]
OneMerge(m) == m \in Merges /\ \A n \in Merges \ {m} : merge'[n] = merge[n]
SameSides(m) == merge'[m].src = merge[m].src /\ merge'[m].tgt = merge[m].tgt

\* A merge that is under way after a step was so before, on the same projects, with
\* the same rows, with the same requests.
SidesStay(pcs) == \A m \in Merges : merge'[m].pc \in pcs => merge[m].pc \in pcs /\ SameSides(m)
RowStays(pcs) == \A m \in Merges : merge'[m].pc \in pcs =>
    /\ merge[m].pc \in pcs /\ SameSides(m)
    /\ merge'[m].read = merge[m].read /\ merge'[m].row = merge[m].row
MergesStay(pcs) == \A m \in Merges : merge'[m].pc \in pcs =>
    /\ merge[m].pc \in pcs /\ SameSides(m)
    /\ merge'[m].read = merge[m].read /\ merge'[m].row = merge[m].row
    /\ merge'[m].moved = merge[m].moved

\* No row's times change, no request is newly noted,
TimesOnly == \A q \in project' : q.id <= lastId =>
    \E p \in project : p.id = q.id /\ p.first = q.first /\ p.last = q.last
NotedStay == \A r \in Requests :
    ex'[r].pc = "done" /\ r \notin astray'.seen /\ named'[r] # Null =>
        Noted(r) /\ named'[r] = named[r]
\* and no project of a request goes unseen.
NoneGoes == \A p \in project :
    \/ \E q \in project' : q.id = p.id
    \/ \A r \in Requests : named[r] = p.id \/ (ex[r].pc = "found" /\ ex[r].id = p.id) => r \in astray'.seen

-----------------------------------------------------------------------------
(* Matches and times.                                                       *)

\* A directory above a path, or the path, is no longer than the path.
LEMMA AncestorFacts ==
    ASSUME NEW p, p \in Seq({p[i] : i \in DOMAIN p}), NEW a \in Ancestors(p)
    PROVE  Len(a) \in Nat /\ Len(a) <= Len(p)
<1>1. PICK n \in 1..Len(p) : a = SubSeq(p, 1, n)
  BY DEF Ancestors
<1>2. Len(p) \in Nat
  OBVIOUS
<1>3. n <= Len(p) /\ n \in Nat /\ n >= 1
  BY <1>1, <1>2
<1>4. Len(a) = n
  BY <1>1, <1>2, <1>3
<1> QED
  BY <1>4, <1>3

\* A match is a project of the user: among the longest matching paths of the
\* finitely many lengths there is one, and among their projects a least id.
LEMMA MatchIsAProject ==
    ASSUME Rows, NEW user, NEW paths \in Mentions,
           MatchProjectByPaths(user, UNION {Ancestors(p) : p \in paths}) # Null
    PROVE  \E p \in project :
              /\ p.id = MatchProjectByPaths(user, UNION {Ancestors(q) : q \in paths})
              /\ p.user = user
<1> DEFINE C == UNION {Ancestors(p) : p \in paths}
<1> DEFINE hits == {h \in project \X C : h[1].user = user /\ h[2] \in h[1].paths}
<1> DEFINE longest == {h \in hits : \A g \in hits : Len(h[2]) >= Len(g[2])}
<1>1. MatchProjectByPaths(user, C) =
       (IF hits = {} THEN Null ELSE Min({h[1].id : h \in longest}))
  BY DEF MatchProjectByPaths
<1>2. hits # {}
  BY <1>1
<1>3. \A h \in hits : h[1] \in project /\ h[1].user = user /\ h[1].id \in Nat /\ h[2] \in C
  BY DEF Rows, IsProject
<1>4. PICK q \in paths : \A o \in paths : Len(o) <= Len(q)
  <2>1. paths # {}
    BY <1>2
  <2> QED
    BY <2>1, MentionsAssumption
<1>5. Len(q) \in Nat
  BY MentionsAssumption
<1>6. \A a \in C : Len(a) \in Nat /\ Len(a) <= Len(q)
  <2> SUFFICES ASSUME NEW a \in C PROVE Len(a) \in Nat /\ Len(a) <= Len(q)
    OBVIOUS
  <2>1. PICK p \in paths : a \in Ancestors(p)
    OBVIOUS
  <2>2. p \in Seq({p[i] : i \in DOMAIN p})
    BY MentionsAssumption
  <2>3. Len(a) \in Nat /\ Len(a) <= Len(p)
    BY <2>1, <2>2, AncestorFacts
  <2>4. Len(p) <= Len(q) /\ Len(p) \in Nat
    BY <1>4, <2>2
  <2> QED
    BY <2>3, <2>4, <1>5
<1> HIDE DEF C
<1>7. longest # {}
  <2> DEFINE L == {Len(h[2]) : h \in hits}
  <2>1. L \subseteq Nat /\ L # {} /\ \A n \in L : n <= Len(q)
    BY <1>2, <1>3, <1>6
  <2>2. PICK m \in L : \A n \in L : n <= m
    <3> HIDE DEF L
    <3> QED
      BY <2>1, <1>5, Greatest
  <2>3. PICK h \in hits : Len(h[2]) = m
    BY <2>2
  <2>4. \A g \in hits : Len(h[2]) >= Len(g[2])
    BY <2>1, <2>2, <2>3
  <2> QED
    BY <2>3, <2>4
<1>8. Min({h[1].id : h \in longest}) \in {h[1].id : h \in longest}
  <2> DEFINE I == {h[1].id : h \in longest}
  <2>1. I \subseteq Nat /\ I # {}
    BY <1>3, <1>7
  <2> HIDE DEF I
  <2>2. Min(I) \in I
    BY <2>1, Least
  <2> QED
    BY <2>2 DEF I
<1>9. PICK h \in longest : MatchProjectByPaths(user, C) = h[1].id
  BY <1>1, <1>2, <1>8
<1> QED
  BY <1>3, <1>9 DEF C

\* The rows at the start.
LEMMA SeedRows ==
    ASSUME ProjectsInit PROVE Rows
<1>1. PICK p \in Seeds : \A q \in Seeds : q.id <= p.id
  BY SeedsAssumption
<1>2. \A q \in Seeds : IsProject(q) /\ q.id \in Nat
  BY SeedsAssumption DEF IsProject
<1> DEFINE I == {q.id : q \in Seeds}
<1>3. p.id \in I /\ \A n \in I : p.id >= n /\ n \in Nat
  BY <1>1, <1>2
<1>4. Max(I) \in I /\ \A n \in I : Max(I) >= n
  <2> HIDE DEF I
  <2> QED
    BY <1>3 DEF Max
<1>5. lastId = Max(I) /\ project = Seeds
  BY DEF ProjectsInit
<1> QED
  BY <1>2, <1>3, <1>4, <1>5, SeedsAssumption DEF Rows

\* A row is added,
LEMMA RowAdded ==
    ASSUME Rows, NEW new, IsProject(new), new.id = lastId + 1, project' = project \cup {new},
           lastId' = lastId + 1
    PROVE  Rows' /\ RowsKeep({}) /\ RowsOnly
<1>1. \A p \in project : p.id \in Nat /\ p.id <= lastId /\ p.id # new.id
  BY DEF Rows, IsProject
<1>2. Rows'
  BY <1>1 DEF Rows, IsProject
<1> QED
  BY <1>2, <1>1 DEF RowsKeep, RowsOnly, SameRow, Rows

\* edited,
LEMMA RowEdited ==
    ASSUME Rows, NEW p \in project, NEW new, IsProject(new), SameRow(p, new),
           project' = (project \ {p}) \cup {new}, lastId' = lastId
    PROVE  Rows' /\ RowsKeep({}) /\ RowsOnly
<1>1. \A q \in project : q.id \in Nat /\ q.id <= lastId /\ (q # p => q.id # new.id)
  BY DEF Rows, IsProject, SameRow
<1>2. Rows'
  BY <1>1 DEF Rows, IsProject, SameRow
<1> QED
  BY <1>2, <1>1 DEF RowsKeep, RowsOnly, SameRow

\* or taken out.
LEMMA RowsDropped ==
    ASSUME Rows, NEW p \in project, project' = project \ {p}, lastId' = lastId
    PROVE  Rows' /\ RowsKeep({p.id}) /\ RowsOnly
  BY DEF Rows, RowsKeep, RowsOnly, SameRow

\* SQL's LEAST is at most either time it is given,
LEMMA EarliestFacts ==
    ASSUME NEW a \in Nat \cup {Null}, NEW b \in Nat \cup {Null}
    PROVE  /\ Earliest(a, b) \in Nat \cup {Null}
           /\ a \in Nat => Earliest(a, b) \in Nat /\ Earliest(a, b) <= a
           /\ b \in Nat => Earliest(a, b) \in Nat /\ Earliest(a, b) <= b
<1>1. CASE a = Null \/ b = Null
  BY <1>1, NullApart DEF Earliest
<1>2. CASE a \in Nat /\ b \in Nat
  <2>1. Min({a, b}) \in {a, b} /\ Min({a, b}) <= a /\ Min({a, b}) <= b
    BY <1>2, Least
  <2> QED
    BY <1>2, <2>1, NullApart DEF Earliest
<1> QED
  BY <1>1, <1>2

\* and GREATEST at least.
LEMMA LatestFacts ==
    ASSUME NEW a \in Nat \cup {Null}, NEW b \in Nat \cup {Null}
    PROVE  /\ Latest(a, b) \in Nat \cup {Null}
           /\ a \in Nat => Latest(a, b) \in Nat /\ a <= Latest(a, b)
           /\ b \in Nat => Latest(a, b) \in Nat /\ b <= Latest(a, b)
<1>1. CASE a = Null \/ b = Null
  BY <1>1, NullApart DEF Latest
<1>2. CASE a \in Nat /\ b \in Nat
  <2>1. (\A y \in {a, b} : a >= y) \/ (\A y \in {a, b} : b >= y)
    BY <1>2
  <2>2. Max({a, b}) \in {a, b} /\ \A y \in {a, b} : Max({a, b}) >= y
    BY <2>1 DEF Max
  <2> QED
    BY <1>2, <2>2, NullApart DEF Latest
<1> QED
  BY <1>1, <1>2

\* Seeing a request spans it, and whatever was spanned before.
LEMMA SeenFacts ==
    ASSUME NEW p, IsProject(p), NEW at \in Nat
    PROVE  /\ IsProject(Seen(p, at)) /\ SameRow(p, Seen(p, at)) /\ Spans(Seen(p, at), at)
           /\ \A r \in Nat : Spans(p, r) => Spans(Seen(p, at), r)
<1> DEFINE f == Earliest(p.first, at)
<1> DEFINE l == Latest(p.last, at)
<1>1. Seen(p, at) = [p EXCEPT !.first = f, !.last = l]
  BY DEF Seen
<1>2. p.first \in Nat \cup {Null} /\ p.last \in Nat \cup {Null} /\ p.id \in Nat
  BY DEF IsProject
<1>3. f \in Nat /\ f <= at /\ (p.first \in Nat => f <= p.first)
  BY <1>2, EarliestFacts
<1>4. l \in Nat /\ at <= l /\ (p.last \in Nat => p.last <= l)
  BY <1>2, LatestFacts
<1> HIDE DEF f, l
<1>5. Seen(p, at).first = f /\ Seen(p, at).last = l /\ Seen(p, at).id = p.id /\ Seen(p, at).user = p.user
  BY <1>1 DEF IsProject
<1>6. IsProject(Seen(p, at))
  BY <1>1, <1>2, <1>3, <1>4 DEF IsProject
<1>7. \A r \in Nat : Spans(p, r) => Spans(Seen(p, at), r)
  BY <1>3, <1>4, <1>5 DEF Spans
<1>8. SameRow(p, Seen(p, at)) /\ Spans(Seen(p, at), at)
  BY <1>3, <1>4, <1>5 DEF Spans, SameRow
<1> QED
  BY <1>6, <1>7, <1>8

\* The row a merge sums spans whatever one of its two did.
LEMMA MergedFacts ==
    ASSUME NEW t, NEW s, IsProject(t), IsProject(s)
    PROVE  /\ IsProject(MergedRow(t, s)) /\ SameRow(t, MergedRow(t, s))
           /\ \A r \in Nat : Spans(t, r) \/ Spans(s, r) => Spans(MergedRow(t, s), r)
<1> DEFINE f == Earliest(t.first, s.first)
<1> DEFINE l == Latest(t.last, s.last)
<1>1. MergedRow(t, s) = [t EXCEPT !.paths = t.paths \cup s.paths, !.first = f, !.last = l]
  BY DEF MergedRow
<1>2. /\ t.first \in Nat \cup {Null} /\ t.last \in Nat \cup {Null} /\ t.id \in Nat
      /\ s.first \in Nat \cup {Null} /\ s.last \in Nat \cup {Null}
  BY DEF IsProject
<1>3. /\ f \in Nat \cup {Null}
      /\ t.first \in Nat => f \in Nat /\ f <= t.first
      /\ s.first \in Nat => f \in Nat /\ f <= s.first
  BY <1>2, EarliestFacts
<1>4. /\ l \in Nat \cup {Null}
      /\ t.last \in Nat => l \in Nat /\ t.last <= l
      /\ s.last \in Nat => l \in Nat /\ s.last <= l
  BY <1>2, LatestFacts
<1> HIDE DEF f, l
<1> DEFINE M == MergedRow(t, s)
<1>5. M.first = f /\ M.last = l /\ M.id = t.id /\ M.user = t.user
  BY <1>1 DEF IsProject
<1>6. IsProject(M)
  BY <1>1, <1>2, <1>3, <1>4 DEF IsProject
<1>7. \A r \in Nat : Spans(t, r) \/ Spans(s, r) => Spans(M, r)
  BY <1>3, <1>4, <1>5 DEF Spans
<1>8. SameRow(t, M)
  BY <1>5 DEF SameRow
<1> QED
  BY <1>6, <1>7, <1>8

\* What each action does, point by point: the middleware that matches a project,
LEMMA ExtractEffect ==
    ASSUME Rows, Shapes, NEW r \in Requests, Extract(r)
    PROVE  /\ Shapes' /\ RowsStay /\ UNCHANGED <<named, merge>> /\ OneExtraction(r) /\ AstrayGrows
           /\ ex[r].pc = "new" /\ ex'[r].pc \in {"found", "create", "done"}
           /\ ex'[r].pc = "found" => Has(ex'[r].id, OwnerOf[r])
           /\ ex'[r].pc = "found" => (Merging(ex'[r].id) => r \in astray'.seen)
<1>1. PICK paths \in Mentions :
        LET id == MatchProjectByPaths(OwnerOf[r], UNION {Ancestors(p) : p \in paths})
        IN \/ /\ id # Null
              /\ ex' = [ex EXCEPT ![r] = [pc |-> "found", paths |-> paths, id |-> id]]
              /\ GoAstray({}, IF Merging(id) THEN {r} ELSE {})
           \/ /\ ex' = [ex EXCEPT ![r] = [pc |-> "create", paths |-> paths, id |-> Null]]
              /\ UNCHANGED astray
           \/ /\ ex' = [ex EXCEPT ![r] = [pc |-> "done", paths |-> paths, id |-> Null]]
              /\ UNCHANGED astray
  BY DEF Extract
<1> DEFINE id == MatchProjectByPaths(OwnerOf[r], UNION {Ancestors(p) : p \in paths})
<1>2. id # Null => Has(id, OwnerOf[r])
  BY MatchIsAProject DEF Has
<1>3. RowsStay /\ UNCHANGED <<named, merge>> /\ ex[r].pc = "new"
  BY DEF Extract, RowsStay
<1>4. id # Null => id \in Nat
  BY <1>2 DEF Has, Rows, IsProject
<1>5. \/ /\ id # Null
         /\ ex' = [ex EXCEPT ![r] = [pc |-> "found", paths |-> paths, id |-> id]]
         /\ GoAstray({}, IF Merging(id) THEN {r} ELSE {})
      \/ \E pc \in {"create", "done"} :
           /\ ex' = [ex EXCEPT ![r] = [pc |-> pc, paths |-> paths, id |-> Null]]
           /\ UNCHANGED astray
  BY <1>1
<1> HIDE DEF id
<1>6. CASE /\ id # Null
           /\ ex' = [ex EXCEPT ![r] = [pc |-> "found", paths |-> paths, id |-> id]]
           /\ GoAstray({}, IF Merging(id) THEN {r} ELSE {})
  <2>1. /\ astray' \in [named : SUBSET Requests, seen : SUBSET Requests] /\ AstrayGrows
        /\ Merging(id) => r \in astray'.seen
    BY <1>6 DEF AstrayGrows, GoAstray, Shapes
  <2>2. [pc |-> "found", paths |-> paths, id |-> id] \in Extraction
    BY <1>4, <1>6 DEF Extraction
  <2>3. ex' \in [Requests -> Extraction] /\ OneExtraction(r) /\ ex'[r].pc = "found" /\ ex'[r].id = id
    BY <1>6, <2>2 DEF Shapes, OneExtraction
  <2>4. Shapes'
    BY <1>3, <2>1, <2>3 DEF Shapes
  <2> QED
    BY <1>2, <1>3, <1>6, <2>1, <2>3, <2>4
<1>7. ASSUME NEW pc \in {"create", "done"},
             ex' = [ex EXCEPT ![r] = [pc |-> pc, paths |-> paths, id |-> Null]], UNCHANGED astray
      PROVE  Shapes' /\ AstrayGrows /\ OneExtraction(r) /\ ex'[r].pc \in {"create", "done"}
  <2>1. [pc |-> pc, paths |-> paths, id |-> Null] \in Extraction
    BY DEF Extraction
  <2>2. ex' \in [Requests -> Extraction] /\ OneExtraction(r) /\ ex'[r].pc = pc
    BY <1>7, <2>1 DEF Shapes, OneExtraction
  <2> QED
    BY <1>3, <1>7, <2>2 DEF Shapes, AstrayGrows
<1> QED
  BY <1>3, <1>5, <1>6, <1>7

\* the one that creates a row,
LEMMA AutoCreateEffect ==
    ASSUME Rows, Shapes, NEW r \in Requests, AutoCreate(r)
    PROVE  /\ Shapes' /\ Rows' /\ RowsKeep({}) /\ RowsOnly /\ lastId' = lastId + 1
           /\ UNCHANGED <<named, merge, astray>> /\ OneExtraction(r)
           /\ ex[r].pc = "create" /\ ex'[r].pc = "found" /\ ex'[r].id = lastId'
           /\ Has(ex[r].id, OwnerOf[r])'
           /\ project \subseteq project' /\ \A p \in project' : p \in project \/ p.id = lastId'
<1>1. PICK name, paths : project' = project \cup {Row(lastId + 1, OwnerOf[r], name, paths)}
  BY DEF AutoCreate
<1> DEFINE new == Row(lastId + 1, OwnerOf[r], name, paths)
<1>2. IsProject(new) /\ new.id = lastId + 1 /\ new.user = OwnerOf[r]
  BY DEF Row, IsProject, Rows
<1> HIDE DEF new
<1>3. project' = project \cup {new} /\ lastId' = lastId + 1
  BY <1>1 DEF new, AutoCreate
<1>4. Rows' /\ RowsKeep({}) /\ RowsOnly
  BY <1>2, <1>3, RowAdded
<1>5. UNCHANGED <<named, merge, astray>> /\ ex[r].pc = "create"
      /\ ex' = [ex EXCEPT ![r].pc = "found", ![r].id = lastId + 1]
  BY DEF AutoCreate
<1>6. /\ ex' \in [Requests -> Extraction] /\ OneExtraction(r)
      /\ ex'[r].pc = "found" /\ ex'[r].id = lastId + 1
  <2> DEFINE e == [ex[r] EXCEPT !.pc = "found", !.id = lastId + 1]
  <2>1. ex[r] \in Extraction /\ lastId + 1 \in Nat
    BY DEF Shapes, Rows
  <2>2. e \in Extraction /\ e.pc = "found" /\ e.id = lastId + 1
    BY <2>1 DEF Extraction
  <2>3. ex' = [ex EXCEPT ![r] = e]
    BY <1>5
  <2> HIDE DEF e
  <2> QED
    BY <2>2, <2>3 DEF Shapes, OneExtraction
<1>7. Shapes'
  BY <1>5, <1>6 DEF Shapes
<1>8. Has(ex[r].id, OwnerOf[r])'
  BY <1>2, <1>3, <1>6 DEF Has
<1> QED
  BY <1>2, <1>3, <1>4, <1>5, <1>6, <1>7, <1>8

\* or cannot,
LEMMA AutoCreateFailsEffect ==
    ASSUME Shapes, NEW r \in Requests, AutoCreateFails(r)
    PROVE  /\ Shapes' /\ RowsStay /\ UNCHANGED <<named, merge, astray>> /\ OneExtraction(r)
           /\ ex[r].pc = "create" /\ ex'[r].pc = "done"
  BY DEF AutoCreateFails, Shapes, RowsStay, OneExtraction, Extraction

\* the request row that names its project,
LEMMA NameProjectEffect ==
    ASSUME Shapes, Numbered, NEW r \in Requests, NameProject(r)
    PROVE  /\ Shapes' /\ RowsStay /\ UNCHANGED merge /\ OneExtraction(r) /\ AstrayGrows
           /\ ex[r].pc = "found" /\ ex'[r].pc = "named" /\ ex'[r].id = ex[r].id
           /\ astray'.seen = astray.seen
           /\ LateMerge(ex[r].id) => r \in astray'.named
           /\ named'[r] = ex[r].id /\ \A q \in Requests \ {r} : named'[q] = named[q]
<1>1. ex[r].id \in Nat /\ ex[r].pc = "found"
  BY DEF NameProject, Numbered, Given
<1>2. astray' \in [named : SUBSET Requests, seen : SUBSET Requests] /\ AstrayGrows
      /\ astray'.seen = astray.seen /\ (LateMerge(ex[r].id) => r \in astray'.named)
  <2>1. GoAstray(IF LateMerge(ex[r].id) THEN {r} ELSE {}, {})
    BY DEF NameProject
  <2> QED
    BY <2>1 DEF AstrayGrows, GoAstray, Shapes
<1>3. /\ ex' \in [Requests -> Extraction] /\ OneExtraction(r)
      /\ ex'[r].pc = "named" /\ ex'[r].id = ex[r].id
  BY DEF NameProject, Shapes, OneExtraction, Extraction
<1>4. /\ named' \in [Requests -> Nat \cup {Null}] /\ named'[r] = ex[r].id
      /\ \A q \in Requests \ {r} : named'[q] = named[q]
  BY <1>1 DEF NameProject, Shapes
<1>5. RowsStay /\ UNCHANGED merge
  BY DEF NameProject, RowsStay
<1> QED
  BY <1>1, <1>2, <1>3, <1>4, <1>5 DEF Shapes

\* the project's times,
LEMMA SeeProjectEffect ==
    ASSUME Rows, Shapes, NEW r \in Requests, SeeProject(r)
    PROVE  /\ Shapes' /\ Rows' /\ RowsKeep({}) /\ RowsOnly /\ lastId' = lastId
           /\ UNCHANGED <<named, merge>> /\ OneExtraction(r) /\ AstrayGrows
           /\ ex[r].pc = "named" /\ ex'[r].pc = "done" /\ ex'[r].id = ex[r].id
           /\ astray'.named = astray.named
           /\ \/ project' = project /\ r \in astray'.seen
              \/ /\ ~Locked(ex[r].id) /\ astray' = astray
                 /\ \A p \in project' : \/ p \in project /\ p.id # ex[r].id
                                        \/ \E q \in project : q.id = ex[r].id /\ p = Seen(q, r)
<1>1. lastId' = lastId /\ UNCHANGED <<named, merge>> /\ ex[r].pc = "named"
      /\ ex' = [ex EXCEPT ![r].pc = "done"]
  BY DEF SeeProject
<1>2. /\ ex' \in [Requests -> Extraction] /\ OneExtraction(r)
      /\ ex'[r].pc = "done" /\ ex'[r].id = ex[r].id
  BY <1>1 DEF Shapes, OneExtraction, Extraction
<1>3. CASE UNCHANGED project /\ GoAstray({}, {r})
  <2>1. /\ astray' \in [named : SUBSET Requests, seen : SUBSET Requests]
        /\ astray'.named = astray.named /\ astray'.seen = astray.seen \cup {r}
    BY <1>3 DEF GoAstray, Shapes
  <2>2. Shapes'
    BY <1>1, <1>2, <2>1 DEF Shapes
  <2>3. Rows' /\ RowsKeep({}) /\ RowsOnly
    BY <1>1, <1>3 DEF Rows, RowsKeep, RowsOnly, SameRow
  <2> QED
    BY <1>1, <1>2, <1>3, <2>1, <2>2, <2>3 DEF AstrayGrows
<1>4. CASE ~Locked(ex[r].id) /\ UNCHANGED astray
           /\ project' = {IF p.id = ex[r].id THEN Seen(p, r) ELSE p : p \in project}
  <2>1. \A p \in project : p.id = ex[r].id => IsProject(Seen(p, r)) /\ SameRow(p, Seen(p, r))
    BY SeenFacts, RequestsAreTimes DEF Rows
  <2>2. \A p \in project' : \/ p \in project /\ p.id # ex[r].id
                            \/ \E q \in project : q.id = ex[r].id /\ p = Seen(q, r)
    BY <1>4
  <2>3. \A p \in project : \E q \in project' : SameRow(p, q)
    BY <1>4, <2>1 DEF SameRow
  <2>4. \A q \in project' : IsProject(q) /\ \E p \in project : SameRow(p, q)
    BY <2>1, <2>2 DEF Rows, SameRow
  <2>5. ASSUME NEW p \in project', NEW q \in project', p.id = q.id
        PROVE  p = q
    BY <2>1, <2>2, <2>5 DEF Rows, SameRow
  <2>6. Rows' /\ RowsKeep({}) /\ RowsOnly
    BY <1>1, <2>3, <2>4, <2>5 DEF Rows, RowsKeep, RowsOnly, SameRow
  <2>7. Shapes'
    BY <1>1, <1>2, <1>4 DEF Shapes
  <2> QED
    BY <1>1, <1>2, <1>4, <2>2, <2>6, <2>7 DEF AstrayGrows
<1> QED
  BY <1>3, <1>4 DEF SeeProject

\* the dashboard's save,
LEMMA UpsertProjectEffect ==
    ASSUME Rows, Shapes, UpsertProject
    PROVE  /\ Shapes' /\ Rows' /\ RowsKeep({}) /\ RowsOnly /\ lastId <= lastId' /\ lastId' <= lastId + 1
           /\ UNCHANGED <<named, ex, merge, astray>>
           /\ \A p \in project' : p.id <= lastId =>
                 \E q \in project : p.id = q.id /\ p.first = q.first /\ p.last = q.last
<1>1. UNCHANGED <<named, ex, merge, astray>> /\ Shapes'
  BY DEF UpsertProject, Shapes
<1>2. PICK e \in Edits :
        \/ /\ project' = project \cup {Row(lastId + 1, e.user, e.name, e.paths)}
           /\ lastId' = lastId + 1
        \/ \E p \in project :
           /\ project' = (project \ {p}) \cup {[p EXCEPT !.name = e.name, !.paths = e.paths]}
           /\ UNCHANGED lastId
  BY DEF UpsertProject
<1>3. CASE project' = project \cup {Row(lastId + 1, e.user, e.name, e.paths)} /\ lastId' = lastId + 1
  <2> DEFINE new == Row(lastId + 1, e.user, e.name, e.paths)
  <2>1. IsProject(new) /\ new.id = lastId + 1
    BY DEF Row, IsProject, Rows
  <2> HIDE DEF new
  <2>2. Rows' /\ RowsKeep({}) /\ RowsOnly
    BY <1>3, <2>1, RowAdded DEF new
  <2>3. \A p \in project' : p.id <= lastId => p \in project
    BY <1>3, <2>1 DEF new, Rows
  <2> QED
    BY <1>1, <1>3, <2>2, <2>3 DEF Rows
<1>4. ASSUME NEW p \in project, UNCHANGED lastId,
             project' = (project \ {p}) \cup {[p EXCEPT !.name = e.name, !.paths = e.paths]}
      PROVE  /\ Rows' /\ RowsKeep({}) /\ RowsOnly
             /\ \A o \in project' :
                  \E q \in project : o.id = q.id /\ o.first = q.first /\ o.last = q.last
  <2> DEFINE new == [p EXCEPT !.name = e.name, !.paths = e.paths]
  <2>1. /\ IsProject(new) /\ SameRow(p, new) /\ new.first = p.first /\ new.last = p.last
    BY DEF IsProject, SameRow, Rows
  <2> HIDE DEF new
  <2>2. project' = (project \ {p}) \cup {new}
    BY <1>4 DEF new
  <2>3. Rows' /\ RowsKeep({}) /\ RowsOnly
    BY <1>4, <2>1, <2>2, RowEdited
  <2> QED
    BY <2>1, <2>2, <2>3 DEF SameRow
<1>5. lastId \in Nat
  BY DEF Rows
<1>6. CASE \E p \in project :
             /\ project' = (project \ {p}) \cup {[p EXCEPT !.name = e.name, !.paths = e.paths]}
             /\ UNCHANGED lastId
  <2>1. PICK p \in project :
          /\ project' = (project \ {p}) \cup {[p EXCEPT !.name = e.name, !.paths = e.paths]}
          /\ UNCHANGED lastId
    BY <1>6
  <2>2. /\ Rows' /\ RowsKeep({}) /\ RowsOnly
        /\ \A o \in project' :
              \E q \in project : o.id = q.id /\ o.first = q.first /\ o.last = q.last
    BY <2>1, <1>4
  <2> QED
    BY <1>1, <1>5, <2>1, <2>2
<1> QED
  BY <1>2, <1>3, <1>6

\* and its delete.
LEMMA DeleteProjectEffect ==
    ASSUME Rows, Shapes, DeleteProject
    PROVE  \E p \in project :
              /\ ~Locked(p.id) /\ project' = project \ {p} /\ lastId' = lastId
              /\ Shapes' /\ Rows' /\ RowsKeep({p.id}) /\ RowsOnly /\ AstrayGrows
              /\ UNCHANGED <<named, ex, merge>>
              /\ \A r \in Requests : named[r] = p.id \/ (ex[r].pc = "found" /\ ex[r].id = p.id) =>
                    r \in astray'.named /\ r \in astray'.seen
<1>1. PICK p \in project :
        /\ ~Locked(p.id) /\ project' = project \ {p}
        /\ LET left == {r \in Requests : named[r] = p.id} \cup Bound(p.id, {"found"})
           IN GoAstray(left, left)
  BY DEF DeleteProject
<1>2. UNCHANGED <<lastId, named, ex, merge>>
  BY DEF DeleteProject
<1>3. Rows' /\ RowsKeep({p.id}) /\ RowsOnly
  BY <1>1, <1>2, RowsDropped
<1>4. /\ astray' \in [named : SUBSET Requests, seen : SUBSET Requests] /\ AstrayGrows
      /\ \A r \in Requests : named[r] = p.id \/ (ex[r].pc = "found" /\ ex[r].id = p.id) =>
            r \in astray'.named /\ r \in astray'.seen
  BY <1>1 DEF AstrayGrows, GoAstray, Shapes, Bound
<1>5. Shapes'
  BY <1>2, <1>4 DEF Shapes
<1> QED
  BY <1>1, <1>2, <1>3, <1>4, <1>5

\* What a merge does to its own record.
LEMMA MergeSet ==
    ASSUME Shapes, NEW m \in Merges, NEW t, IsMerge(t), merge' = [merge EXCEPT ![m] = t]
    PROVE  /\ merge' = [k \in Merges |-> merge'[k]] /\ \A k \in Merges : IsMerge(merge'[k])
           /\ merge'[m] = t /\ OneMerge(m)
<1>1. DOMAIN merge = Merges
  BY DEF Shapes
<1>2. \A k \in Merges : merge'[k] = IF k = m THEN t ELSE merge[k]
  BY <1>1
<1>3. merge' = [k \in Merges |-> merge'[k]]
  BY <1>1
<1> QED
  BY <1>2, <1>3 DEF Shapes, OneMerge

\* A merge begins on two projects of one user.
LEMMA BeginMergeEffect ==
    ASSUME Rows, Shapes, NEW m \in Merges, BeginMerge(m)
    PROVE  /\ Shapes' /\ RowsStay /\ UNCHANGED <<named, ex, astray>> /\ OneMerge(m)
           /\ merge[m].pc = "idle" /\ merge'[m].pc = "begun"
           /\ \E s, t \in project : /\ s.id # t.id /\ s.user = t.user
                                    /\ merge'[m].src = s.id /\ merge'[m].tgt = t.id
<1>1. PICK s \in project, t \in project :
        /\ s.id # t.id /\ s.user = t.user
        /\ merge' = [merge EXCEPT ![m].pc = "begun", ![m].src = s.id, ![m].tgt = t.id]
  BY DEF BeginMerge
<1> DEFINE k == [merge[m] EXCEPT !.pc = "begun", !.src = s.id, !.tgt = t.id]
<1>2. merge' = [merge EXCEPT ![m] = k] /\ merge[m].pc = "idle"
  BY <1>1 DEF BeginMerge
<1>3. IsMerge(k) /\ k.pc = "begun" /\ k.src = s.id /\ k.tgt = t.id
  <2>1. IsMerge(merge[m]) /\ s.id \in Nat /\ t.id \in Nat
    BY DEF Shapes, Rows, IsProject
  <2> QED
    BY <2>1 DEF IsMerge
<1>4. RowsStay /\ UNCHANGED <<named, ex, astray>>
  BY DEF BeginMerge, RowsStay
<1> HIDE DEF k
<1>5. /\ merge' = [i \in Merges |-> merge'[i]] /\ \A i \in Merges : IsMerge(merge'[i])
      /\ merge'[m] = k /\ OneMerge(m)
  BY <1>2, <1>3, MergeSet
<1>6. Shapes'
  BY <1>4, <1>5 DEF Shapes
<1> QED
  BY <1>1, <1>2, <1>3, <1>4, <1>5, <1>6

\* A project that is there is the row found under its id.
LEMMA TheRowFacts ==
    ASSUME Rows, NEW id \in Ids PROVE TheRow(id) \in project /\ TheRow(id).id = id
  BY DEF Ids, TheRow

\* It reads the source,
LEMMA ReadSourceEffect ==
    ASSUME Rows, Shapes, NEW m \in Merges, ReadSource(m)
    PROVE  /\ Shapes' /\ RowsStay /\ UNCHANGED <<named, ex>> /\ OneMerge(m) /\ SameSides(m)
           /\ AstrayGrows /\ astray'.named = astray.named
           /\ merge[m].pc = "begun" /\ merge'[m].pc = "read"
           /\ \A r \in Requests : ex[r].pc \in {"found", "named"} /\ ex[r].id = merge[m].src =>
                 r \in astray'.seen
           /\ merge'[m].read = {p \in project : p.id = merge[m].src}
<1> DEFINE read == {p \in project : p.id = merge[m].src}
<1> DEFINE k == [merge[m] EXCEPT !.pc = "read", !.read = read]
<1>1. /\ RowsStay /\ UNCHANGED <<named, ex>> /\ merge[m].pc = "begun"
      /\ GoAstray({}, Bound(merge[m].src, {"found", "named"}))
      /\ merge' = [merge EXCEPT ![m] = k]
  BY DEF ReadSource, RowsStay
<1>2. /\ astray' \in [named : SUBSET Requests, seen : SUBSET Requests] /\ AstrayGrows
      /\ astray'.named = astray.named
      /\ \A r \in Requests : ex[r].pc \in {"found", "named"} /\ ex[r].id = merge[m].src =>
            r \in astray'.seen
  BY <1>1 DEF GoAstray, AstrayGrows, Bound, Shapes
<1> HIDE DEF read
<1>4. IsMerge(k) /\ k.pc = "read" /\ k.src = merge[m].src /\ k.tgt = merge[m].tgt /\ k.read = read
  <2>1. IsMerge(merge[m])
    BY DEF Shapes
  <2> QED
    BY <2>1 DEF IsMerge
<1> HIDE DEF k
<1>5. /\ merge' = [i \in Merges |-> merge'[i]] /\ \A i \in Merges : IsMerge(merge'[i])
      /\ merge'[m] = k /\ OneMerge(m)
  BY <1>1, <1>4, MergeSet
<1>6. Shapes'
  BY <1>1, <1>2, <1>5 DEF Shapes
<1> QED
  BY <1>1, <1>2, <1>4, <1>5, <1>6 DEF SameSides, read

\* One that ends holds nothing any more,
LEMMA MergeEnds ==
    ASSUME Shapes, NEW m \in Merges, NEW pc \in {"done", "failed"}, merge' = Ended(m, pc)
    PROVE  /\ merge' = [i \in Merges |-> merge'[i]] /\ \A i \in Merges : IsMerge(merge'[i])
           /\ OneMerge(m) /\ SameSides(m) /\ merge'[m].pc = pc
<1> DEFINE k == [merge[m] EXCEPT !.pc = pc, !.read = {}, !.row = Null, !.moved = {}]
<1>1. IsMerge(k) /\ k.pc = pc /\ k.src = merge[m].src /\ k.tgt = merge[m].tgt
  BY DEF IsMerge, Shapes
<1>2. merge' = [merge EXCEPT ![m] = k]
  BY DEF Ended
<1> HIDE DEF k
<1>3. /\ merge' = [i \in Merges |-> merge'[i]] /\ \A i \in Merges : IsMerge(merge'[i])
      /\ merge'[m] = k /\ OneMerge(m)
  BY <1>1, <1>2, MergeSet
<1> QED
  BY <1>1, <1>3 DEF SameSides

\* writes the target's row,
LEMMA UpdateTargetEffect ==
    ASSUME Rows, Shapes, NEW m \in Merges, UpdateTarget(m)
    PROVE  /\ Shapes' /\ RowsStay /\ UNCHANGED <<named, ex, astray>> /\ OneMerge(m) /\ SameSides(m)
           /\ merge[m].pc = "read" /\ merge'[m].pc \in {"failed", "updated"} /\ ~Locked(merge[m].tgt)
           /\ merge'[m].pc = "updated" =>
                 \E t \in project :
                    /\ t.id = merge[m].tgt
                    /\ \/ merge[m].read = {} /\ merge'[m].row = t
                       \/ \E s \in merge[m].read : merge'[m].row = MergedRow(t, s)
<1> DEFINE tgt == merge[m].tgt
<1> DEFINE Write(row) == [merge EXCEPT ![m] = [merge[m] EXCEPT !.pc = "updated", !.read = {}, !.row = row]]
<1>1. /\ RowsStay /\ UNCHANGED <<named, ex, astray>> /\ merge[m].pc = "read" /\ ~Locked(tgt)
      /\ \/ tgt \notin Ids /\ merge' = Ended(m, "failed")
         \/ tgt \in Ids /\ merge[m].read = {} /\ merge' = Write(TheRow(tgt))
         \/ tgt \in Ids /\ \E s \in merge[m].read : merge' = Write(MergedRow(TheRow(tgt), s))
  BY DEF UpdateTarget, RowsStay
<1>2. CASE tgt \notin Ids
  <2>1. merge' = Ended(m, "failed")
    BY <1>1, <1>2
  <2>2. /\ merge' = [i \in Merges |-> merge'[i]] /\ \A i \in Merges : IsMerge(merge'[i])
        /\ OneMerge(m) /\ SameSides(m) /\ merge'[m].pc = "failed"
    BY <2>1, MergeEnds
  <2>3. Shapes'
    BY <1>1, <2>2 DEF Shapes
  <2> QED
    BY <1>1, <2>2, <2>3
<1>3. CASE tgt \in Ids
  <2>1. TheRow(tgt) \in project /\ TheRow(tgt).id = tgt
    BY <1>3, TheRowFacts
  <2>2. ASSUME NEW row, merge' = Write(row)
        PROVE  Shapes' /\ OneMerge(m) /\ SameSides(m) /\ merge'[m].pc = "updated" /\ merge'[m].row = row
    <3> DEFINE k == [merge[m] EXCEPT !.pc = "updated", !.read = {}, !.row = row]
    <3>1. merge' = [merge EXCEPT ![m] = k]
      BY <2>2
    <3>2. IsMerge(k) /\ k.pc = "updated" /\ k.src = merge[m].src /\ k.tgt = tgt /\ k.row = row
      BY DEF IsMerge, Shapes
    <3> HIDE DEF k
    <3>3. /\ merge' = [i \in Merges |-> merge'[i]] /\ \A i \in Merges : IsMerge(merge'[i])
          /\ merge'[m] = k /\ OneMerge(m)
      BY <3>1, <3>2, MergeSet
    <3>4. Shapes'
      BY <1>1, <3>3 DEF Shapes
    <3> QED
      BY <3>2, <3>3, <3>4 DEF SameSides
  <2>3. CASE merge[m].read = {} /\ merge' = Write(TheRow(tgt))
    <3> HIDE DEF Write
    <3> QED
      BY <1>1, <2>1, <2>2, <2>3
  <2>4. CASE \E s \in merge[m].read : merge' = Write(MergedRow(TheRow(tgt), s))
    <3> HIDE DEF Write
    <3>1. PICK s \in merge[m].read : merge' = Write(MergedRow(TheRow(tgt), s))
      BY <2>4
    <3>2. /\ Shapes' /\ OneMerge(m) /\ SameSides(m) /\ merge'[m].pc = "updated"
          /\ merge'[m].row = MergedRow(TheRow(tgt), s)
      BY <2>2, <3>1
    <3> QED
      BY <1>1, <2>1, <3>2
  <2> QED
    BY <1>1, <1>3, <2>3, <2>4
<1> QED
  BY <1>2, <1>3

\* finds the requests that name the source,
LEMMA FindRequestsEffect ==
    ASSUME Shapes, NEW m \in Merges, FindRequests(m)
    PROVE  /\ Shapes' /\ RowsStay /\ UNCHANGED <<named, ex, astray>> /\ OneMerge(m) /\ SameSides(m)
           /\ merge[m].pc = "updated" /\ merge'[m].pc = "listed" /\ merge'[m].row = merge[m].row
           /\ merge'[m].read = merge[m].read
           /\ merge'[m].moved = {r \in Requests : named[r] = merge[m].src}
<1> DEFINE moved == {r \in Requests : named[r] = merge[m].src}
<1> DEFINE k == [merge[m] EXCEPT !.pc = "listed", !.moved = moved]
<1>1. /\ merge[m].pc = "updated" /\ RowsStay /\ UNCHANGED <<named, ex, astray>>
      /\ merge' = [merge EXCEPT ![m] = k]
  BY DEF FindRequests, RowsStay, MergeProjectReassignRequests
<1>2. moved \subseteq Requests
  OBVIOUS
<1> HIDE DEF moved
<1>3. /\ IsMerge(k) /\ k.pc = "listed" /\ k.src = merge[m].src /\ k.tgt = merge[m].tgt
      /\ k.row = merge[m].row /\ k.moved = moved /\ k.read = merge[m].read
  <2>1. IsMerge(merge[m])
    BY DEF Shapes
  <2> QED
    BY <1>2, <2>1 DEF IsMerge
<1> HIDE DEF k
<1>4. /\ merge' = [i \in Merges |-> merge'[i]] /\ \A i \in Merges : IsMerge(merge'[i])
      /\ merge'[m] = k /\ OneMerge(m)
  BY <1>1, <1>3, MergeSet
<1>5. Shapes'
  BY <1>1, <1>4 DEF Shapes
<1> QED
  BY <1>1, <1>3, <1>4, <1>5 DEF SameSides, moved

\* changes those of them that still do and no other merge is changing,
LEMMA ReassignEffect ==
    ASSUME Shapes, NEW m \in Merges, Reassign(m)
    PROVE  /\ Shapes' /\ RowsStay /\ UNCHANGED <<named, ex, astray>> /\ OneMerge(m) /\ SameSides(m)
           /\ merge[m].pc = "listed" /\ merge'[m].pc = "moved" /\ merge'[m].row = merge[m].row
           /\ merge'[m].read = merge[m].read
           /\ merge'[m].moved = {r \in merge[m].moved : named[r] = merge[m].src}
           /\ \A n \in Merges \ {m} : merge[n].pc \in Firm => merge[n].moved \cap merge[m].moved = {}
<1> DEFINE moved == {r \in merge[m].moved : named[r] = merge[m].src}
<1> DEFINE k == [merge[m] EXCEPT !.pc = "moved", !.moved = moved]
<1>1. /\ merge[m].pc = "listed" /\ RowsStay /\ UNCHANGED <<named, ex, astray>>
      /\ merge' = [merge EXCEPT ![m] = k]
      /\ \A n \in Merges \ {m} : merge[n].pc \in Firm => merge[n].moved \cap merge[m].moved = {}
  BY DEF Reassign, RowsStay, Firm
<1>2. IsMerge(merge[m])
  BY DEF Shapes
<1>3. moved \subseteq Requests
  BY <1>2 DEF IsMerge
<1> HIDE DEF moved
<1>4. /\ IsMerge(k) /\ k.pc = "moved" /\ k.src = merge[m].src /\ k.tgt = merge[m].tgt
      /\ k.row = merge[m].row /\ k.moved = moved /\ k.read = merge[m].read
  BY <1>2, <1>3 DEF IsMerge
<1> HIDE DEF k
<1>5. /\ merge' = [i \in Merges |-> merge'[i]] /\ \A i \in Merges : IsMerge(merge'[i])
      /\ merge'[m] = k /\ OneMerge(m)
  BY <1>1, <1>4, MergeSet
<1>6. Shapes'
  BY <1>1, <1>5 DEF Shapes
<1> QED
  BY <1>1, <1>4, <1>5, <1>6 DEF SameSides, moved

\* A merge that only moves on.
LEMMA MovesOn ==
    ASSUME Shapes, NEW m \in Merges, merge' = [merge EXCEPT ![m].pc = "deleted"]
    PROVE  /\ merge' = [i \in Merges |-> merge'[i]] /\ \A i \in Merges : IsMerge(merge'[i])
           /\ OneMerge(m) /\ SameSides(m) /\ merge'[m].pc = "deleted"
           /\ merge'[m].row = merge[m].row /\ merge'[m].moved = merge[m].moved
           /\ merge'[m].read = merge[m].read
<1> DEFINE k == [merge[m] EXCEPT !.pc = "deleted"]
<1>1. /\ IsMerge(k) /\ k.pc = "deleted" /\ k.src = merge[m].src /\ k.tgt = merge[m].tgt
      /\ k.row = merge[m].row /\ k.moved = merge[m].moved /\ k.read = merge[m].read
  BY DEF IsMerge, Shapes
<1>2. merge' = [merge EXCEPT ![m] = k]
  OBVIOUS
<1> HIDE DEF k
<1>3. /\ merge' = [i \in Merges |-> merge'[i]] /\ \A i \in Merges : IsMerge(merge'[i])
      /\ merge'[m] = k /\ OneMerge(m)
  BY <1>1, <1>2, MergeSet
<1> QED
  BY <1>1, <1>3 DEF SameSides

\* and at the commit everything of it takes effect.
LEMMA CommitEffect ==
    ASSUME Rows, Shapes, Numbered, Held, NEW m \in Merges, Commit(m)
    PROVE  /\ Shapes' /\ Rows' /\ RowsKeep({merge[m].src}) /\ RowsOnly /\ lastId' = lastId
           /\ UNCHANGED ex /\ OneMerge(m) /\ AstrayGrows
           /\ merge[m].pc = "deleted" /\ merge'[m].pc = "done"
           /\ \A r \in Requests : named'[r] = IF r \in merge[m].moved THEN merge[m].tgt ELSE named[r]
           /\ \A r \in Requests : ex[r].pc = "found" /\ ex[r].id = merge[m].src => r \in astray'.named
           /\ LateMerge(merge[m].tgt) => merge[m].moved \subseteq astray'.named
           /\ Merging(merge[m].tgt) => merge[m].moved \subseteq astray'.seen
           /\ \A q \in project' : q.id # merge[m].src /\
                 \/ q = merge[m].row
                 \/ q \in project /\ q.id # merge[m].tgt
<1> DEFINE src == merge[m].src
<1> DEFINE tgt == merge[m].tgt
<1> DEFINE row == merge[m].row
<1>1. /\ merge[m].pc = "deleted" /\ UNCHANGED <<lastId, ex>>
      /\ project' = {IF p.id = tgt THEN row ELSE p : p \in {p \in project : p.id # src}}
      /\ named' = [r \in Requests |-> IF r \in merge[m].moved THEN tgt ELSE named[r]]
      /\ merge' = Ended(m, "done")
      /\ GoAstray(Bound(src, {"found"}) \cup (IF LateMerge(tgt) THEN merge[m].moved ELSE {}),
                  IF Merging(tgt) THEN merge[m].moved ELSE {})
  BY DEF Commit
<1>2. /\ IsProject(row) /\ row.id = tgt /\ \E p \in project : p.id = tgt /\ p.user = row.user
  BY <1>1 DEF Held, Holding, Has
<1>3. src # tgt /\ tgt \in Nat /\ Requests \subseteq DOMAIN named
  BY <1>1 DEF Numbered, Active, Given, Shapes
<1> HIDE DEF src, tgt, row
<1>4. \A q \in project' : /\ q.id # src /\ IsProject(q)
                          /\ q = row \/ (q \in project /\ q.id # tgt)
                          /\ \E p \in project : SameRow(p, q)
  BY <1>1, <1>2, <1>3 DEF Rows, SameRow
<1>5. \A p \in project : p.id # src => \E q \in project' : SameRow(p, q)
  <2> SUFFICES ASSUME NEW p \in project, p.id # src PROVE \E q \in project' : SameRow(p, q)
    OBVIOUS
  <2>1. CASE p.id = tgt
    <3>1. row \in project'
      BY <1>1, <2>1
    <3>2. SameRow(p, row)
      BY <1>2, <2>1 DEF SameRow, Rows
    <3> QED
      BY <3>1, <3>2
  <2>2. CASE p.id # tgt
    BY <1>1, <2>2 DEF SameRow
  <2> QED
    BY <2>1, <2>2
<1>6. Rows' /\ RowsKeep({src}) /\ RowsOnly
  <2>1. \A p, q \in project' : p.id = q.id => p = q
    BY <1>2, <1>4 DEF Rows
  <2>2. \A q \in project' : q.id <= lastId
    BY <1>4 DEF Rows, SameRow
  <2> QED
    BY <1>1, <1>4, <1>5, <2>1, <2>2 DEF Rows, RowsKeep, RowsOnly
<1>7. /\ astray' \in [named : SUBSET Requests, seen : SUBSET Requests] /\ AstrayGrows
      /\ \A r \in Requests : ex[r].pc = "found" /\ ex[r].id = src => r \in astray'.named
      /\ LateMerge(tgt) => merge[m].moved \subseteq astray'.named
      /\ Merging(tgt) => merge[m].moved \subseteq astray'.seen
  <2> DEFINE late == IF LateMerge(tgt) THEN merge[m].moved ELSE {}
  <2> DEFINE seen == IF Merging(tgt) THEN merge[m].moved ELSE {}
  <2>1. merge[m].moved \subseteq Requests
    BY DEF Shapes, IsMerge
  <2>2. /\ late \subseteq Requests /\ (LateMerge(tgt) => late = merge[m].moved)
        /\ seen \subseteq Requests /\ (Merging(tgt) => seen = merge[m].moved)
    BY <2>1
  <2>3. GoAstray(Bound(src, {"found"}) \cup late, seen)
    BY <1>1
  <2> HIDE DEF late, seen
  <2> QED
    BY <2>2, <2>3 DEF GoAstray, AstrayGrows, Bound, Shapes
<1>8. /\ merge' = [i \in Merges |-> merge'[i]] /\ \A i \in Merges : IsMerge(merge'[i])
      /\ OneMerge(m) /\ merge'[m].pc = "done"
  BY <1>1, MergeEnds
<1>9. /\ named' \in [Requests -> Nat \cup {Null}]
      /\ \A r \in Requests : named'[r] = IF r \in merge[m].moved THEN tgt ELSE named[r]
  BY <1>1, <1>3 DEF Shapes
<1>10. Shapes'
  BY <1>1, <1>7, <1>8, <1>9 DEF Shapes
<1> QED
  BY <1>1, <1>4, <1>6, <1>7, <1>8, <1>9, <1>10 DEF src, tgt, row

\* The two sides of a merge stay of one user,
LEMMA SameOwnerKept ==
    ASSUME Numbered, SameOwner, RowsOnly, SidesStay(Active)
    PROVE  SameOwner'
<1> SUFFICES ASSUME NEW m \in Merges, merge'[m].pc \in Active, NEW p \in project', NEW q \in project',
                    p.id = merge'[m].src, q.id = merge'[m].tgt
             PROVE  p.user = q.user
  BY DEF SameOwner, Active
<1>1. merge[m].pc \in Active /\ merge[m].src = p.id /\ merge[m].tgt = q.id
  BY DEF SameSides, SidesStay
<1>2. p.id <= lastId /\ q.id <= lastId
  BY <1>1 DEF Numbered, Given
<1>3. PICK o \in project : SameRow(o, p)
  BY <1>2 DEF RowsOnly
<1>4. PICK s \in project : SameRow(s, q)
  BY <1>2 DEF RowsOnly
<1> QED
  BY <1>1, <1>3, <1>4 DEF SameOwner, SameRow

\* the source it has read was a row,
LEMMA ReadRowKept ==
    ASSUME ReadRow, RowStays({"read"}) PROVE ReadRow'
  BY DEF ReadRow, RowStays, IsProject

\* a target that is written stays there, locked by its merge alone,
LEMMA HeldKept ==
    ASSUME Held, NEW gone, RowsKeep(gone), RowStays(Holding),
           \A m \in Merges : merge[m].pc \in Holding => merge[m].tgt \notin gone,
           \A n \in Merges : merge'[n].pc = "deleted" =>
              /\ SameSides(n)
              /\ \/ merge[n].pc = "deleted"
                 \/ \A m \in Merges \ {n} : merge[m].pc \in Holding => merge[m].tgt # merge[n].src
    PROVE  Held'
<1> SUFFICES ASSUME NEW m \in Merges, merge'[m].pc \in Holding
             PROVE  /\ IsProject(merge'[m].row) /\ merge'[m].row.id = merge'[m].tgt
                    /\ \E p \in project' : p.id = merge'[m].tgt /\ p.user = merge'[m].row.user
                    /\ \A n \in Merges \ {m} :
                          /\ merge'[n].pc \in Holding => merge'[n].tgt # merge'[m].tgt
                          /\ merge'[n].pc = "deleted" => merge'[n].src # merge'[m].tgt
  BY DEF Held, Holding, Has, IsProject
<1>1. /\ merge[m].pc \in Holding /\ merge'[m].tgt = merge[m].tgt /\ merge'[m].row = merge[m].row
  BY DEF RowStays, SameSides
<1>2. \E p \in project' : p.id = merge[m].tgt /\ p.user = merge[m].row.user
  <2>1. PICK p \in project : p.id = merge[m].tgt /\ p.user = merge[m].row.user
    BY <1>1 DEF Held, Has
  <2> QED
    BY <1>1, <2>1 DEF RowsKeep, SameRow
<1>3. \A n \in Merges \ {m} : merge'[n].pc \in Holding => merge'[n].tgt # merge[m].tgt
  BY <1>1 DEF RowStays, SameSides, Held
<1>4. ASSUME NEW n \in Merges \ {m}, merge'[n].pc = "deleted" PROVE merge'[n].src # merge[m].tgt
  <2>1. merge'[n].src = merge[n].src
    BY <1>4 DEF SameSides
  <2> QED
    BY <1>1, <1>4, <2>1 DEF Held
<1>5. IsProject(merge[m].row) /\ merge[m].row.id = merge[m].tgt
  BY <1>1 DEF Held
<1> QED
  BY <1>1, <1>2, <1>3, <1>4, <1>5

\* a found project stays until its row goes,
LEMMA FoundKept ==
    ASSUME FoundThere, NEW gone, RowsKeep(gone), AstrayGrows,
           \A r \in Requests : ex'[r].pc = "found" =>
              \/ \E p \in project' : p.id = ex'[r].id /\ p.user = OwnerOf[r]
              \/ /\ ex[r].pc = "found" /\ ex'[r].id = ex[r].id
                 /\ ex[r].id \in gone => r \in astray'.named
    PROVE  FoundThere'
<1> SUFFICES ASSUME NEW r \in Requests, ex'[r].pc = "found", r \notin astray'.named
             PROVE  \E p \in project' : p.id = ex'[r].id /\ p.user = OwnerOf[r]
  BY DEF FoundThere, Has
<1>1. CASE ex[r].pc = "found" /\ ex'[r].id = ex[r].id /\ ex[r].id \notin gone
  <2>1. PICK p \in project : p.id = ex[r].id /\ p.user = OwnerOf[r]
    BY <1>1 DEF FoundThere, Has, AstrayGrows
  <2> QED
    BY <1>1, <2>1 DEF RowsKeep, SameRow
<1> QED
  BY <1>1

\* a named one until its row goes,
LEMMA NamedKept ==
    ASSUME NamedThere, NEW gone, RowsKeep(gone), AstrayGrows, UNCHANGED named,
           \A r \in Requests : named[r] \in gone => r \in astray'.named
    PROVE  NamedThere'
<1> SUFFICES ASSUME NEW r \in Requests, named[r] # Null, r \notin astray'.named
             PROVE  \E p \in project' : p.id = named[r] /\ p.user = OwnerOf[r]
  BY DEF NamedThere, Has
<1>1. PICK p \in project : p.id = named[r] /\ p.user = OwnerOf[r]
  BY DEF NamedThere, Has, AstrayGrows
<1> QED
  BY <1>1 DEF RowsKeep, SameRow

\* what a merge found is the owner's, if its row and its requests stay,
LEMMA BelongKept ==
    ASSUME MovedBelong, AstrayGrows, MergesStay(Late)
    PROVE  MovedBelong'
  BY DEF MovedBelong, MergesStay, AstrayGrows, SameSides

\* it is all that names the source,
LEMMA AllKept ==
    ASSUME MovedAll, UNCHANGED named, AstrayGrows, MergesStay(Late)
    PROVE  MovedAll'
  BY DEF MovedAll, MergesStay, AstrayGrows, SameSides

\* and what a merge has changed names the source and is its own.
LEMMA ChangedKept ==
    ASSUME Changed, MergesStay(Firm), \A m \in Merges : \A r \in merge[m].moved : named'[r] = named[r]
    PROVE  Changed'
<1> SUFFICES ASSUME NEW m \in Merges, merge'[m].pc \in Firm
             PROVE  /\ \A r \in merge'[m].moved : named'[r] = merge'[m].src
                    /\ \A n \in Merges \ {m} : merge'[n].pc \in Firm => merge'[n].moved \cap merge'[m].moved = {}
  BY DEF Changed, Firm
<1>1. merge[m].pc \in Firm /\ merge'[m].src = merge[m].src /\ merge'[m].moved = merge[m].moved
  BY DEF MergesStay, SameSides
<1>2. \A r \in merge'[m].moved : named'[r] = merge'[m].src
  BY <1>1 DEF Changed
<1>3. \A n \in Merges \ {m} : merge'[n].pc \in Firm => merge'[n].moved \cap merge'[m].moved = {}
  BY <1>1 DEF Changed, MergesStay
<1> QED
  BY <1>2, <1>3

\* A merge that stays as it is stays in every way.
LEMMA StayFacts ==
    ASSUME NEW pcs, MergesStay(pcs) PROVE RowStays(pcs) /\ SidesStay(pcs)
  BY DEF MergesStay, RowStays, SidesStay

\* Nothing about merges changes without a change of theirs,
LEMMA NoMerge ==
    ASSUME UNCHANGED merge
    PROVE  /\ MergesStay(Reading) /\ MergesStay(Holding) /\ MergesStay(Late) /\ MergesStay(Firm)
           /\ MergesStay({"read"}) /\ MergesStay(Active) /\ \A m \in Merges : SameSides(m)
  BY DEF MergesStay, SameSides

\* or of the rows they hold or name.
LEMMA MergesKept ==
    ASSUME Numbered, MergesInv, UNCHANGED <<merge, named>>, AstrayGrows, RowsOnly,
           NEW gone, RowsKeep(gone),
           \A m \in Merges : merge[m].pc \in Holding => merge[m].tgt \notin gone
    PROVE  MergesInv'
<1>1. /\ MergesStay(Holding) /\ MergesStay(Late) /\ MergesStay(Firm)
      /\ MergesStay({"read"}) /\ MergesStay(Active) /\ \A m \in Merges : SameSides(m)
  BY NoMerge
<1>2. RowStays(Holding) /\ RowStays({"read"}) /\ SidesStay(Active)
  BY <1>1, StayFacts
<1>3. SameOwner' /\ ReadRow'
  BY <1>2, SameOwnerKept, ReadRowKept DEF MergesInv
<1>4. Held'
  BY <1>1, <1>2, HeldKept DEF MergesInv
<1>5. MovedBelong' /\ MovedAll' /\ Changed'
  BY <1>1, BelongKept, AllKept, ChangedKept DEF MergesInv
<1> QED
  BY <1>3, <1>4, <1>5 DEF MergesInv

\* Nothing about rows without one of the table,
LEMMA NoRows ==
    ASSUME RowsStay PROVE RowsKeep({}) /\ RowsOnly /\ (Rows => Rows')
  BY DEF RowsStay, RowsKeep, RowsOnly, SameRow, Rows, IsProject

\* and a step that strays no request strays none.
LEMMA NoAstray ==
    ASSUME UNCHANGED astray PROVE AstrayGrows
  BY DEF AstrayGrows

\* Each action keeps the invariant: a match,
LEMMA ExtractNames ==
    ASSUME NamesInv, NEW r \in Requests, Extract(r) PROVE NamesInv'
<1>1. /\ Shapes' /\ RowsStay /\ UNCHANGED <<named, merge>> /\ OneExtraction(r) /\ AstrayGrows
      /\ ex[r].pc = "new" /\ ex'[r].pc \in {"found", "create", "done"}
      /\ ex'[r].pc = "found" => Has(ex'[r].id, OwnerOf[r])
  BY ExtractEffect DEF NamesInv
<1>2. Rows' /\ RowsKeep({}) /\ RowsOnly
  BY <1>1, NoRows DEF NamesInv
<1>3. Numbered'
  <2>1. \A p \in project : Given(p.id)
    BY DEF NamesInv, Rows, IsProject, Given
  <2>2. ex'[r].pc = "found" => Given(ex'[r].id)
    BY <1>1, <2>1 DEF Has
  <2> QED
    BY <1>1, <2>2 DEF NamesInv, Numbered, Given, RowsStay, OneExtraction, Active
<1>4. FoundThere'
  BY <1>1, <1>2, FoundKept DEF NamesInv, Has, OneExtraction, RowsStay
<1>5. NamedThere'
  BY <1>1, <1>2, NamedKept DEF NamesInv
<1>6. MergesInv'
  BY <1>1, <1>2, MergesKept DEF NamesInv
<1> QED
  BY <1>1, <1>2, <1>3, <1>4, <1>5, <1>6 DEF NamesInv

\* a row created,
LEMMA AutoCreateNames ==
    ASSUME NamesInv, NEW r \in Requests, AutoCreate(r) PROVE NamesInv'
<1>1. /\ Shapes' /\ Rows' /\ RowsKeep({}) /\ RowsOnly /\ lastId' = lastId + 1
      /\ UNCHANGED <<named, merge, astray>> /\ OneExtraction(r)
      /\ ex[r].pc = "create" /\ ex'[r].pc = "found" /\ ex'[r].id = lastId'
      /\ Has(ex[r].id, OwnerOf[r])' /\ lastId \in Nat
  BY AutoCreateEffect DEF NamesInv, Rows
<1>2. AstrayGrows
  BY <1>1, NoAstray
<1>3. Numbered'
  BY <1>1 DEF NamesInv, Numbered, Given, OneExtraction, Active
<1>4. FoundThere'
  BY <1>1, <1>2, FoundKept DEF NamesInv, Has, OneExtraction
<1>5. NamedThere'
  BY <1>1, <1>2, NamedKept DEF NamesInv
<1>6. MergesInv'
  BY <1>1, <1>2, MergesKept DEF NamesInv
<1> QED
  BY <1>1, <1>3, <1>4, <1>5, <1>6 DEF NamesInv

\* a row that is not,
LEMMA AutoCreateFailsNames ==
    ASSUME NamesInv, NEW r \in Requests, AutoCreateFails(r) PROVE NamesInv'
<1>1. /\ Shapes' /\ RowsStay /\ UNCHANGED <<named, merge, astray>> /\ OneExtraction(r)
      /\ ex[r].pc = "create" /\ ex'[r].pc = "done"
  BY AutoCreateFailsEffect DEF NamesInv
<1>2. Rows' /\ RowsKeep({}) /\ RowsOnly /\ AstrayGrows
  BY <1>1, NoRows, NoAstray DEF NamesInv
<1>3. Numbered'
  BY <1>1 DEF NamesInv, Numbered, Given, OneExtraction, Active, RowsStay
<1>4. FoundThere'
  BY <1>1, <1>2, FoundKept DEF NamesInv, OneExtraction
<1>5. NamedThere'
  BY <1>1, <1>2, NamedKept DEF NamesInv
<1>6. MergesInv'
  BY <1>1, <1>2, MergesKept DEF NamesInv
<1> QED
  BY <1>1, <1>2, <1>3, <1>4, <1>5, <1>6 DEF NamesInv

\* a request row named,
LEMMA NameProjectNames ==
    ASSUME NamesInv, NEW r \in Requests, NameProject(r) PROVE NamesInv'
<1>1. /\ Shapes' /\ RowsStay /\ UNCHANGED merge /\ OneExtraction(r) /\ AstrayGrows
      /\ ex[r].pc = "found" /\ ex'[r].pc = "named" /\ ex'[r].id = ex[r].id
      /\ LateMerge(ex[r].id) => r \in astray'.named
      /\ named'[r] = ex[r].id /\ \A q \in Requests \ {r} : named'[q] = named[q]
  BY NameProjectEffect DEF NamesInv
<1>2. Rows' /\ RowsKeep({}) /\ RowsOnly
  BY <1>1, NoRows DEF NamesInv
<1>3. Numbered'
  BY <1>1 DEF NamesInv, Numbered, Given, OneExtraction, Active, RowsStay
<1>4. FoundThere'
  BY <1>1, <1>2, FoundKept DEF NamesInv, OneExtraction
<1>5. NamedThere'
  BY <1>1 DEF NamesInv, NamedThere, FoundThere, Has, AstrayGrows, RowsStay
<1>6. /\ MergesStay(Holding) /\ MergesStay(Late) /\ MergesStay(Firm)
      /\ MergesStay({"read"}) /\ MergesStay(Active) /\ \A m \in Merges : SameSides(m)
      /\ RowStays(Holding) /\ RowStays({"read"}) /\ SidesStay(Active)
  BY <1>1, NoMerge, StayFacts
<1>7. SameOwner' /\ ReadRow' /\ Held' /\ MovedBelong'
  BY <1>1, <1>2, <1>6, SameOwnerKept, ReadRowKept, HeldKept, BelongKept DEF NamesInv, MergesInv
<1>8. Changed'
  <2>1. named[r] = Null
    BY <1>1 DEF NamesInv, Numbered
  <2>2. \A m \in Merges : merge[m].pc \in Firm => r \notin merge[m].moved
    BY <2>1, NullApart DEF NamesInv, MergesInv, Changed, Numbered, Given, Firm, Active
  <2>3. \A m \in Merges : merge[m].moved \subseteq Requests
    BY DEF NamesInv, Shapes, IsMerge
  <2> QED
    BY <1>1, <2>2, <2>3 DEF NamesInv, MergesInv, Changed
<1>9. MovedAll'
  BY <1>1 DEF NamesInv, MergesInv, MovedAll, AstrayGrows, LateMerge, Late
<1> QED
  BY <1>1, <1>2, <1>3, <1>4, <1>5, <1>7, <1>8, <1>9 DEF NamesInv, MergesInv

\* a project seen,
LEMMA SeeProjectNames ==
    ASSUME NamesInv, NEW r \in Requests, SeeProject(r) PROVE NamesInv'
<1>1. /\ Shapes' /\ Rows' /\ RowsKeep({}) /\ RowsOnly /\ lastId' = lastId
      /\ UNCHANGED <<named, merge>> /\ OneExtraction(r) /\ AstrayGrows
      /\ ex[r].pc = "named" /\ ex'[r].pc = "done" /\ ex'[r].id = ex[r].id
  BY SeeProjectEffect DEF NamesInv
<1>2. Numbered'
  BY <1>1 DEF NamesInv, Numbered, Given, OneExtraction, Active
<1>3. FoundThere'
  BY <1>1, FoundKept DEF NamesInv, OneExtraction
<1>4. NamedThere'
  BY <1>1, NamedKept DEF NamesInv
<1>5. MergesInv'
  BY <1>1, MergesKept DEF NamesInv
<1> QED
  BY <1>1, <1>2, <1>3, <1>4, <1>5 DEF NamesInv

\* a project saved,
LEMMA UpsertProjectNames ==
    ASSUME NamesInv, UpsertProject PROVE NamesInv'
<1>1. /\ Shapes' /\ Rows' /\ RowsKeep({}) /\ RowsOnly /\ lastId <= lastId' /\ lastId' <= lastId + 1
      /\ UNCHANGED <<named, ex, merge, astray>>
  BY UpsertProjectEffect DEF NamesInv
<1>2. AstrayGrows
  BY <1>1, NoAstray
<1>3. Numbered'
  <2>1. lastId \in Nat /\ lastId' \in Nat
    BY <1>1 DEF NamesInv, Rows
  <2>2. \A id : Given(id) => Given(id)'
    BY <1>1, <2>1 DEF Given
  <2> QED
    BY <1>1, <2>1 DEF NamesInv, Numbered, Active, Given
<1>4. FoundThere'
  BY <1>1, <1>2, FoundKept DEF NamesInv
<1>5. NamedThere'
  BY <1>1, <1>2, NamedKept DEF NamesInv
<1>6. MergesInv'
  BY <1>1, <1>2, MergesKept DEF NamesInv
<1> QED
  BY <1>1, <1>3, <1>4, <1>5, <1>6 DEF NamesInv

\* a project deleted,
LEMMA DeleteProjectNames ==
    ASSUME NamesInv, DeleteProject PROVE NamesInv'
<1>1. PICK p \in project :
        /\ ~Locked(p.id) /\ project' = project \ {p} /\ lastId' = lastId
        /\ Shapes' /\ Rows' /\ RowsKeep({p.id}) /\ RowsOnly /\ AstrayGrows
        /\ UNCHANGED <<named, ex, merge>>
        /\ \A r \in Requests : named[r] = p.id \/ (ex[r].pc = "found" /\ ex[r].id = p.id) =>
              r \in astray'.named /\ r \in astray'.seen
  BY DeleteProjectEffect DEF NamesInv
<1>2. Numbered'
  BY <1>1 DEF NamesInv, Numbered, Given, Active
<1>3. FoundThere'
  BY <1>1, FoundKept DEF NamesInv
<1>4. NamedThere'
  BY <1>1, NamedKept DEF NamesInv
<1>5. MergesInv'
  <2>1. \A m \in Merges : merge[m].pc \in Holding => merge[m].tgt # p.id
    BY <1>1 DEF Locked, Holding
  <2> QED
    BY <1>1, <2>1, MergesKept DEF NamesInv
<1> QED
  BY <1>1, <1>2, <1>3, <1>4, <1>5 DEF NamesInv

\* a merge that begins,
LEMMA BeginMergeNames ==
    ASSUME NamesInv, NEW m \in Merges, BeginMerge(m) PROVE NamesInv'
<1>1. /\ Shapes' /\ RowsStay /\ UNCHANGED <<named, ex, astray>> /\ OneMerge(m)
      /\ merge[m].pc = "idle" /\ merge'[m].pc = "begun"
      /\ \E s, t \in project : /\ s.id # t.id /\ s.user = t.user
                               /\ merge'[m].src = s.id /\ merge'[m].tgt = t.id
  BY BeginMergeEffect DEF NamesInv
<1>2. Rows' /\ RowsKeep({}) /\ RowsOnly /\ AstrayGrows
  BY <1>1, NoRows, NoAstray DEF NamesInv
<1>3. PICK s \in project, t \in project : /\ s.id # t.id /\ s.user = t.user
                                          /\ merge'[m].src = s.id /\ merge'[m].tgt = t.id
  BY <1>1
<1>4. Numbered'
  <2>1. Given(s.id) /\ Given(t.id)
    BY DEF NamesInv, Rows, IsProject, Given
  <2>2. \A n \in Merges : merge'[n].pc \in Active =>
          Given(merge'[n].src) /\ Given(merge'[n].tgt) /\ merge'[n].src # merge'[n].tgt
    BY <1>1, <1>3, <2>1 DEF NamesInv, Numbered, OneMerge
  <2> QED
    BY <1>1, <2>2 DEF NamesInv, Numbered, Given, RowsStay
<1>5. FoundThere' /\ NamedThere'
  BY <1>1, <1>2, FoundKept, NamedKept DEF NamesInv
<1>6. SameOwner'
  <2>1. \A p, q \in project : p.id = s.id /\ q.id = t.id => p.user = q.user
    BY <1>3 DEF NamesInv, Rows
  <2> QED
    BY <1>1, <1>3, <2>1 DEF NamesInv, MergesInv, SameOwner, OneMerge, RowsStay
<1>7. /\ MergesStay(Late) /\ MergesStay(Firm) /\ RowStays(Holding) /\ RowStays({"read"})
      /\ \A n \in Merges : merge'[n].pc = "deleted" => merge[n].pc = "deleted" /\ SameSides(n)
  BY <1>1 DEF MergesStay, RowStays, OneMerge, Holding, Late, Firm, SameSides
<1>8. ReadRow' /\ Held'
  BY <1>1, <1>2, <1>7, ReadRowKept, HeldKept DEF NamesInv, MergesInv
<1>9. MovedBelong' /\ MovedAll' /\ Changed'
  BY <1>1, <1>2, <1>7, BelongKept, AllKept, ChangedKept DEF NamesInv, MergesInv
<1> QED
  BY <1>1, <1>2, <1>4, <1>5, <1>6, <1>8, <1>9 DEF NamesInv, MergesInv

\* A merge in progress stays on its projects.
LEMMA MergeGoesOn ==
    ASSUME NamesInv, NEW m \in Merges, Shapes', RowsStay, UNCHANGED <<named, ex>>, AstrayGrows,
           OneMerge(m), SameSides(m), merge[m].pc \in Active
    PROVE  Rows' /\ RowsKeep({}) /\ Numbered' /\ FoundThere' /\ NamedThere' /\ SameOwner'
<1>1. Rows' /\ RowsKeep({}) /\ RowsOnly
  BY NoRows DEF NamesInv
<1>2. SidesStay(Active)
  BY DEF OneMerge, SameSides, SidesStay
<1>3. Numbered'
  BY <1>2 DEF NamesInv, Numbered, Given, RowsStay, SidesStay, SameSides, Active
<1>4. FoundThere' /\ NamedThere' /\ SameOwner'
  BY <1>1, <1>2, FoundKept, NamedKept, SameOwnerKept DEF NamesInv, MergesInv
<1> QED
  BY <1>1, <1>3, <1>4

\* a source read,
LEMMA ReadSourceNames ==
    ASSUME NamesInv, NEW m \in Merges, ReadSource(m) PROVE NamesInv'
<1>1. /\ Shapes' /\ RowsStay /\ UNCHANGED <<named, ex>> /\ OneMerge(m) /\ SameSides(m)
      /\ AstrayGrows /\ merge[m].pc = "begun" /\ merge'[m].pc = "read"
      /\ merge'[m].read = {p \in project : p.id = merge[m].src}
  BY ReadSourceEffect DEF NamesInv
<1>2. Rows' /\ RowsKeep({}) /\ Numbered' /\ FoundThere' /\ NamedThere' /\ SameOwner'
  BY <1>1, MergeGoesOn DEF Active
<1>3. /\ MergesStay(Late) /\ MergesStay(Firm) /\ RowStays(Holding)
      /\ \A n \in Merges : merge'[n].pc = "deleted" => merge[n].pc = "deleted" /\ SameSides(n)
  BY <1>1 DEF MergesStay, RowStays, OneMerge, Holding, Late, Firm, SameSides
<1>4. ReadRow'
  <2>1. \A s \in merge'[m].read : IsProject(s)
    BY <1>1 DEF NamesInv, Rows
  <2>2. \A n \in Merges \ {m} : merge'[n].pc = "read" => \A s \in merge'[n].read : IsProject(s)
    BY <1>1 DEF OneMerge, NamesInv, MergesInv, ReadRow
  <2> QED
    BY <2>1, <2>2 DEF ReadRow, IsProject
<1>5. Held'
  BY <1>2, <1>3, HeldKept DEF NamesInv, MergesInv
<1>6. MovedBelong' /\ MovedAll' /\ Changed'
  BY <1>1, <1>3, BelongKept, AllKept, ChangedKept DEF NamesInv, MergesInv
<1> QED
  BY <1>1, <1>2, <1>4, <1>5, <1>6 DEF NamesInv, MergesInv

\* a target written,
LEMMA UpdateTargetNames ==
    ASSUME NamesInv, NEW m \in Merges, UpdateTarget(m) PROVE NamesInv'
<1>1. /\ Shapes' /\ RowsStay /\ UNCHANGED <<named, ex, astray>> /\ OneMerge(m) /\ SameSides(m)
      /\ merge[m].pc = "read" /\ merge'[m].pc \in {"failed", "updated"} /\ ~Locked(merge[m].tgt)
      /\ merge'[m].pc = "updated" =>
            \E t \in project :
               /\ t.id = merge[m].tgt
               /\ \/ merge[m].read = {} /\ merge'[m].row = t
                  \/ \E s \in merge[m].read : merge'[m].row = MergedRow(t, s)
  BY UpdateTargetEffect DEF NamesInv
<1>2. AstrayGrows
  BY <1>1, NoAstray
<1>3. Rows' /\ RowsKeep({}) /\ Numbered' /\ FoundThere' /\ NamedThere' /\ SameOwner'
  BY <1>1, <1>2, MergeGoesOn DEF Active
<1>4. MergesStay(Late) /\ MergesStay(Firm) /\ RowStays({"read"})
  BY <1>1 DEF MergesStay, RowStays, OneMerge, Late, Firm, SameSides
<1>5. ReadRow' /\ MovedBelong' /\ MovedAll' /\ Changed'
  BY <1>1, <1>2, <1>4, ReadRowKept, BelongKept, AllKept, ChangedKept DEF NamesInv, MergesInv
<1>6. \A n \in Merges \ {m} :
        /\ merge[n].pc \in Holding => merge[n].tgt # merge[m].tgt
        /\ merge[n].pc = "deleted" => merge[n].src # merge[m].tgt
  BY <1>1 DEF Locked, Holding
<1>7. ASSUME merge'[m].pc = "updated"
      PROVE  /\ IsProject(merge'[m].row) /\ merge'[m].row.id = merge'[m].tgt
             /\ \E p \in project : p.id = merge[m].tgt /\ p.user = merge'[m].row.user
  <2>1. PICK t \in project :
          /\ t.id = merge[m].tgt
          /\ \/ merge[m].read = {} /\ merge'[m].row = t
             \/ \E s \in merge[m].read : merge'[m].row = MergedRow(t, s)
    BY <1>1, <1>7
  <2>2. IsProject(t) /\ SameRow(t, t)
    BY DEF NamesInv, Rows, SameRow
  <2>3. IsProject(merge'[m].row) /\ SameRow(t, merge'[m].row)
    <3>1. CASE merge'[m].row = t
      BY <2>2, <3>1
    <3>2. ASSUME NEW s \in merge[m].read, merge'[m].row = MergedRow(t, s)
          PROVE  IsProject(merge'[m].row) /\ SameRow(t, merge'[m].row)
      <4>1. IsProject(s)
        BY <1>1 DEF NamesInv, MergesInv, ReadRow
      <4>2. IsProject(MergedRow(t, s)) /\ SameRow(t, MergedRow(t, s))
        BY <2>2, <4>1, MergedFacts
      <4> QED
        BY <3>2, <4>2
    <3> QED
      BY <2>1, <3>1, <3>2
  <2> QED
    BY <1>1, <2>1, <2>3 DEF SameRow, SameSides
<1>8. Held'
  <2> SUFFICES ASSUME NEW n \in Merges, merge'[n].pc \in Holding
               PROVE  /\ IsProject(merge'[n].row) /\ merge'[n].row.id = merge'[n].tgt
                      /\ \E p \in project' : p.id = merge'[n].tgt /\ p.user = merge'[n].row.user
                      /\ \A k \in Merges \ {n} :
                            /\ merge'[k].pc \in Holding => merge'[k].tgt # merge'[n].tgt
                            /\ merge'[k].pc = "deleted" => merge'[k].src # merge'[n].tgt
    BY DEF Held, Holding, Has, IsProject
  <2>1. CASE n = m
    <3>1. merge'[m].pc = "updated"
      BY <1>1, <2>1 DEF Holding
    <3>2. \A k \in Merges \ {m} :
            /\ merge'[k].pc \in Holding => merge'[k].tgt # merge'[m].tgt
            /\ merge'[k].pc = "deleted" => merge'[k].src # merge'[m].tgt
      BY <1>1, <1>6 DEF OneMerge, SameSides
    <3> QED
      BY <1>1, <1>7, <2>1, <3>1, <3>2 DEF RowsStay, SameSides
  <2>2. CASE n # m
    <3>1. merge'[n] = merge[n] /\ merge[n].pc \in Holding
      BY <1>1, <2>2 DEF OneMerge
    <3>2. IsProject(merge[n].row) /\ merge[n].row.id = merge[n].tgt
          /\ \E p \in project : p.id = merge[n].tgt /\ p.user = merge[n].row.user
      BY <3>1 DEF NamesInv, MergesInv, Held, Has
    <3>3. ASSUME NEW k \in Merges \ {n}
          PROVE  /\ merge'[k].pc \in Holding => merge'[k].tgt # merge[n].tgt
                 /\ merge'[k].pc = "deleted" => merge'[k].src # merge[n].tgt
      <4>1. CASE k = m
        BY <1>1, <1>6, <2>2, <3>1, <4>1 DEF SameSides
      <4>2. CASE k # m
        BY <1>1, <3>1, <4>2 DEF OneMerge, NamesInv, MergesInv, Held
      <4> QED
        BY <4>1, <4>2
    <3> QED
      BY <1>1, <3>1, <3>2, <3>3 DEF RowsStay
  <2> QED
    BY <2>1, <2>2
<1> QED
  BY <1>1, <1>3, <1>5, <1>8 DEF NamesInv, MergesInv

\* its requests found,
LEMMA FindRequestsNames ==
    ASSUME NamesInv, NEW m \in Merges, FindRequests(m) PROVE NamesInv'
<1>1. /\ Shapes' /\ RowsStay /\ UNCHANGED <<named, ex, astray>> /\ OneMerge(m) /\ SameSides(m)
      /\ merge[m].pc = "updated" /\ merge'[m].pc = "listed" /\ merge'[m].row = merge[m].row
      /\ merge'[m].read = merge[m].read
      /\ merge'[m].moved = {r \in Requests : named[r] = merge[m].src}
  BY FindRequestsEffect DEF NamesInv
<1>2. AstrayGrows
  BY <1>1, NoAstray
<1>3. Rows' /\ RowsKeep({}) /\ Numbered' /\ FoundThere' /\ NamedThere' /\ SameOwner'
  BY <1>1, <1>2, MergeGoesOn DEF Active
<1>4. /\ MergesStay(Firm) /\ RowStays({"read"}) /\ RowStays(Holding)
      /\ \A n \in Merges : merge'[n].pc = "deleted" => merge[n].pc = "deleted" /\ SameSides(n)
  BY <1>1 DEF MergesStay, RowStays, OneMerge, Holding, Firm, SameSides
<1>5. ReadRow' /\ Held' /\ Changed'
  BY <1>1, <1>3, <1>4, ReadRowKept, HeldKept, ChangedKept DEF NamesInv, MergesInv
<1>6. \A r \in Requests : named[r] = merge[m].src /\ r \notin astray.named =>
        OwnerOf[r] = merge[m].row.user
  <2> SUFFICES ASSUME NEW r \in Requests, named[r] = merge[m].src, r \notin astray.named
               PROVE  OwnerOf[r] = merge[m].row.user
    OBVIOUS
  <2>1. merge[m].src # Null
    BY <1>1, NullApart DEF NamesInv, Numbered, Given, Active
  <2>2. PICK p \in project : p.id = merge[m].src /\ p.user = OwnerOf[r]
    BY <2>1 DEF NamesInv, NamedThere, Has
  <2>3. PICK q \in project : q.id = merge[m].tgt /\ q.user = merge[m].row.user
    BY <1>1 DEF NamesInv, MergesInv, Held, Has, Holding
  <2> QED
    BY <1>1, <2>2, <2>3 DEF NamesInv, MergesInv, SameOwner, Active
<1>7. MovedBelong'
  BY <1>1, <1>6 DEF NamesInv, MergesInv, MovedBelong, OneMerge, SameSides, Late
<1>8. MovedAll'
  BY <1>1 DEF NamesInv, MergesInv, MovedAll, OneMerge, SameSides, Late
<1> QED
  BY <1>1, <1>3, <1>5, <1>7, <1>8 DEF NamesInv, MergesInv

\* and changed,
LEMMA ReassignNames ==
    ASSUME NamesInv, NEW m \in Merges, Reassign(m) PROVE NamesInv'
<1>1. /\ Shapes' /\ RowsStay /\ UNCHANGED <<named, ex, astray>> /\ OneMerge(m) /\ SameSides(m)
      /\ merge[m].pc = "listed" /\ merge'[m].pc = "moved" /\ merge'[m].row = merge[m].row
      /\ merge'[m].read = merge[m].read
      /\ merge'[m].moved = {r \in merge[m].moved : named[r] = merge[m].src}
      /\ \A n \in Merges \ {m} : merge[n].pc \in Firm => merge[n].moved \cap merge[m].moved = {}
  BY ReassignEffect DEF NamesInv
<1>2. AstrayGrows
  BY <1>1, NoAstray
<1>3. Rows' /\ RowsKeep({}) /\ Numbered' /\ FoundThere' /\ NamedThere' /\ SameOwner'
  BY <1>1, <1>2, MergeGoesOn DEF Active
<1>4. /\ RowStays({"read"}) /\ RowStays(Holding)
      /\ \A n \in Merges : merge'[n].pc = "deleted" => merge[n].pc = "deleted" /\ SameSides(n)
  BY <1>1 DEF RowStays, OneMerge, Holding, SameSides
<1>5. ReadRow' /\ Held'
  BY <1>3, <1>4, ReadRowKept, HeldKept DEF NamesInv, MergesInv
<1>6. MovedBelong'
  BY <1>1 DEF NamesInv, MergesInv, MovedBelong, OneMerge, SameSides, Late
<1>7. MovedAll'
  BY <1>1 DEF NamesInv, MergesInv, MovedAll, OneMerge, SameSides, Late
<1>8. Changed'
  <2> SUFFICES ASSUME NEW n \in Merges, merge'[n].pc \in Firm
               PROVE  /\ \A r \in merge'[n].moved : named[r] = merge'[n].src
                      /\ \A k \in Merges \ {n} :
                            merge'[k].pc \in Firm => merge'[k].moved \cap merge'[n].moved = {}
    BY <1>1 DEF Changed, Firm
  <2>1. CASE n = m
    <3>1. \A k \in Merges \ {m} : merge'[k].pc \in Firm => merge'[k].moved \cap merge'[m].moved = {}
      BY <1>1 DEF OneMerge
    <3> QED
      BY <1>1, <2>1, <3>1 DEF SameSides
  <2>2. CASE n # m
    <3>1. merge'[n] = merge[n] /\ merge[n].pc \in Firm
      BY <1>1, <2>2 DEF OneMerge
    <3>2. ASSUME NEW k \in Merges \ {n}, merge'[k].pc \in Firm
          PROVE  merge'[k].moved \cap merge[n].moved = {}
      <4>1. CASE k = m
        BY <1>1, <2>2, <3>1, <4>1
      <4>2. CASE k # m
        BY <1>1, <3>1, <3>2, <4>2 DEF OneMerge, NamesInv, MergesInv, Changed
      <4> QED
        BY <4>1, <4>2
    <3>3. \A r \in merge[n].moved : named[r] = merge[n].src
      BY <3>1 DEF NamesInv, MergesInv, Changed
    <3> QED
      BY <3>1, <3>2, <3>3
  <2> QED
    BY <2>1, <2>2
<1> QED
  BY <1>1, <1>3, <1>5, <1>6, <1>7, <1>8 DEF NamesInv, MergesInv

\* The steps of a merge that change nothing but how far it is.
LEMMA MovesOnNames ==
    ASSUME NamesInv, NEW m \in Merges, DeleteSource(m) \/ Rollback(m) PROVE NamesInv'
<1>1. /\ RowsStay /\ UNCHANGED <<named, ex, astray>> /\ merge[m].pc \in Active
      /\ \/ /\ merge[m].pc = "moved" /\ ~Locked(merge[m].src)
            /\ merge' = [merge EXCEPT ![m].pc = "deleted"]
         \/ merge' = Ended(m, "failed")
  BY DEF DeleteSource, Rollback, RowsStay, Active
<1>2. /\ Shapes' /\ OneMerge(m) /\ SameSides(m)
      /\ \/ /\ merge[m].pc = "moved" /\ merge'[m].pc = "deleted" /\ ~Locked(merge[m].src)
            /\ merge'[m].row = merge[m].row /\ merge'[m].moved = merge[m].moved
            /\ merge'[m].read = merge[m].read
         \/ merge'[m].pc = "failed"
  <2>1. Shapes /\ Shapes' <=>
          Shapes /\ merge' = [i \in Merges |-> merge'[i]] /\ \A i \in Merges : IsMerge(merge'[i])
    BY <1>1 DEF Shapes
  <2> QED
    BY <1>1, <2>1, MovesOn, MergeEnds DEF NamesInv
<1>3. AstrayGrows
  BY <1>1, NoAstray
<1>4. Rows' /\ RowsKeep({}) /\ Numbered' /\ FoundThere' /\ NamedThere' /\ SameOwner'
  BY <1>1, <1>2, <1>3, MergeGoesOn
<1>5. MergesStay(Late) /\ MergesStay(Firm) /\ RowStays(Holding) /\ RowStays({"read"})
  BY <1>2 DEF MergesStay, RowStays, OneMerge, SameSides, Holding, Late, Firm
<1>6. \A n \in Merges : merge'[n].pc = "deleted" =>
        /\ SameSides(n)
        /\ \/ merge[n].pc = "deleted"
           \/ \A k \in Merges \ {n} : merge[k].pc \in Holding => merge[k].tgt # merge[n].src
  <2>1. ~Locked(merge[m].src) => \A k \in Merges : merge[k].pc \in Holding => merge[k].tgt # merge[m].src
    BY DEF Locked, Holding
  <2> QED
    BY <1>2, <2>1 DEF OneMerge, SameSides
<1>7. Held' /\ ReadRow'
  BY <1>4, <1>5, <1>6, HeldKept, ReadRowKept DEF NamesInv, MergesInv
<1>8. MovedBelong' /\ MovedAll' /\ Changed'
  BY <1>1, <1>3, <1>5, BelongKept, AllKept, ChangedKept DEF NamesInv, MergesInv
<1> QED
  BY <1>2, <1>4, <1>7, <1>8 DEF NamesInv, MergesInv

\* and a merge that commits. Another that changes no row it waits for may already
\* have found the requests of this one's target: those moved now go astray.
LEMMA CommitNames ==
    ASSUME NamesInv, NEW m \in Merges, Commit(m) PROVE NamesInv'
<1>1. /\ Shapes' /\ Rows' /\ RowsKeep({merge[m].src}) /\ RowsOnly /\ lastId' = lastId
      /\ UNCHANGED ex /\ OneMerge(m) /\ AstrayGrows
      /\ merge[m].pc = "deleted" /\ merge'[m].pc = "done"
      /\ \A r \in Requests : named'[r] = IF r \in merge[m].moved THEN merge[m].tgt ELSE named[r]
      /\ \A r \in Requests : ex[r].pc = "found" /\ ex[r].id = merge[m].src => r \in astray'.named
      /\ LateMerge(merge[m].tgt) => merge[m].moved \subseteq astray'.named
  BY CommitEffect DEF NamesInv, MergesInv
<1>2. /\ merge[m].src # merge[m].tgt /\ Given(merge[m].tgt) /\ merge[m].src \in Nat
      /\ \A r \in merge[m].moved : r \in Requests /\ named[r] = merge[m].src
  BY <1>1 DEF NamesInv, Numbered, Active, Given, MergesInv, Changed, Firm, Shapes, IsMerge
<1>3. Numbered'
  <2>1. \A r \in Requests : named'[r] # Null => Given(named'[r]) /\ ex[r].pc \in {"named", "done"}
    BY <1>1, <1>2, NullApart DEF NamesInv, Numbered, Given
  <2> QED
    BY <1>1, <2>1 DEF NamesInv, Numbered, Given, OneMerge, Active
<1>4. FoundThere'
  BY <1>1, FoundKept DEF NamesInv
<1>5. NamedThere'
  <2> SUFFICES ASSUME NEW r \in Requests, named'[r] # Null, r \notin astray'.named
               PROVE  \E p \in project' : p.id = named'[r] /\ p.user = OwnerOf[r]
    BY DEF NamedThere, Has
  <2>1. r \notin astray.named
    BY <1>1 DEF AstrayGrows
  <2>2. CASE r \in merge[m].moved
    <3>1. PICK p \in project : p.id = merge[m].tgt /\ p.user = OwnerOf[r]
      BY <1>1, <2>1, <2>2 DEF NamesInv, MergesInv, MovedBelong, Held, Has, Late, Holding
    <3> QED
      BY <1>1, <1>2, <2>2, <3>1 DEF RowsKeep, SameRow
  <2>3. CASE r \notin merge[m].moved
    <3>1. named'[r] = named[r] /\ named[r] # merge[m].src
      BY <1>1, <2>1, <2>3 DEF NamesInv, MergesInv, MovedAll, Late
    <3>2. PICK p \in project : p.id = named[r] /\ p.user = OwnerOf[r]
      BY <2>1, <3>1 DEF NamesInv, NamedThere, Has
    <3> QED
      BY <1>1, <3>1, <3>2 DEF RowsKeep, SameRow
  <2> QED
    BY <2>2, <2>3
<1>6. /\ MergesStay(Late) /\ MergesStay(Firm) /\ RowStays(Holding) /\ RowStays({"read"})
      /\ SidesStay(Active)
      /\ \A n \in Merges : merge'[n].pc = "deleted" => merge[n].pc = "deleted" /\ SameSides(n)
  BY <1>1 DEF MergesStay, RowStays, SidesStay, OneMerge, SameSides, Holding, Late, Firm, Active
<1>7. SameOwner' /\ ReadRow'
  BY <1>1, <1>6, SameOwnerKept, ReadRowKept DEF NamesInv, MergesInv
<1>8. Held'
  <2>1. \A n \in Merges : merge[n].pc \in Holding => merge[n].tgt # merge[m].src
    BY <1>1, <1>2 DEF NamesInv, MergesInv, Held
  <2> QED
    BY <1>1, <1>6, <2>1, HeldKept DEF NamesInv, MergesInv
<1>9. MovedBelong'
  BY <1>1, <1>6, BelongKept DEF NamesInv, MergesInv
<1>10. MovedAll'
  <2> SUFFICES ASSUME NEW n \in Merges, merge'[n].pc \in Late, NEW r \in Requests,
                      named'[r] = merge'[n].src, r \notin astray'.named
               PROVE  r \in merge'[n].moved
    BY DEF MovedAll, Late
  <2>1. n # m /\ merge'[n] = merge[n] /\ merge[n].pc \in Late
    BY <1>1 DEF OneMerge, Late
  <2>2. CASE r \in merge[m].moved
    <3>1. merge[n].src = merge[m].tgt
      BY <1>1, <2>1, <2>2
    <3>2. LateMerge(merge[m].tgt)
      BY <2>1, <3>1 DEF LateMerge, Late
    <3> QED
      BY <1>1, <2>2, <3>2
  <2>3. CASE r \notin merge[m].moved
    BY <1>1, <2>1, <2>3 DEF NamesInv, MergesInv, MovedAll, AstrayGrows
  <2> QED
    BY <2>2, <2>3
<1>11. Changed'
  <2> SUFFICES ASSUME NEW n \in Merges, merge'[n].pc \in Firm
               PROVE  /\ \A r \in merge'[n].moved : named'[r] = merge'[n].src
                      /\ \A k \in Merges \ {n} :
                            merge'[k].pc \in Firm => merge'[k].moved \cap merge'[n].moved = {}
    BY DEF Changed, Firm
  <2>1. n # m /\ merge'[n] = merge[n] /\ merge[n].pc \in Firm
    BY <1>1 DEF OneMerge, Firm
  <2>2. ASSUME NEW r \in merge[n].moved PROVE named'[r] = merge[n].src
    <3>1. named[r] = merge[n].src /\ r \in Requests
      BY <2>1 DEF NamesInv, MergesInv, Changed, Shapes, IsMerge
    <3>2. r \notin merge[m].moved
      BY <1>1, <2>1 DEF NamesInv, MergesInv, Changed, Firm
    <3> QED
      BY <1>1, <3>1, <3>2
  <2>3. \A k \in Merges \ {n} : merge'[k].pc \in Firm => merge'[k].moved \cap merge[n].moved = {}
    BY <1>1, <2>1 DEF OneMerge, Firm, NamesInv, MergesInv, Changed
  <2> QED
    BY <2>1, <2>2, <2>3
<1> QED
  BY <1>1, <1>3, <1>4, <1>5, <1>7, <1>8, <1>9, <1>10, <1>11 DEF NamesInv, MergesInv

\* A step of none of them.
LEMMA NothingNames ==
    ASSUME NamesInv, UNCHANGED projectVars \/ SetAutoCreate PROVE NamesInv'
<1>1. UNCHANGED <<project, lastId, named, ex, merge, astray>>
  BY DEF projectVars, SetAutoCreate
<1>2. RowsStay
  BY <1>1 DEF RowsStay
<1>3. RowsKeep({}) /\ RowsOnly /\ Rows' /\ AstrayGrows
  BY <1>1, <1>2, NoRows, NoAstray DEF NamesInv
<1>4. Shapes' /\ Numbered'
  BY <1>1 DEF NamesInv, Shapes, Numbered, Given, Active
<1>5. FoundThere' /\ NamedThere' /\ MergesInv'
  BY <1>1, <1>3, FoundKept, NamedKept, MergesKept DEF NamesInv
<1> QED
  BY <1>3, <1>4, <1>5 DEF NamesInv

\* The invariant holds at the start
LEMMA InitNames ==
    ASSUME ProjectsInit PROVE NamesInv
<1>1. Rows
  BY SeedRows
<1>2. Shapes
  BY DEF ProjectsInit, Shapes, Extraction, IsMerge
<1>3. \A m \in Merges : merge[m].pc = "idle"
  BY DEF ProjectsInit
<1>4. \A r \in Requests : ex[r].pc = "new" /\ named[r] = Null
  BY DEF ProjectsInit
<1>5. Numbered
  BY <1>3, <1>4 DEF Numbered, Active
<1>6. FoundThere /\ NamedThere
  BY <1>4 DEF FoundThere, NamedThere
<1>7. MergesInv
  BY <1>3 DEF MergesInv, SameOwner, ReadRow, Held, MovedBelong, MovedAll, Changed, Active, Holding, Late,
     Firm
<1> QED
  BY <1>1, <1>2, <1>5, <1>6, <1>7 DEF NamesInv

\* and after every step.
LEMMA StepNames ==
    ASSUME NamesInv, [ProjectsNext]_projectVars PROVE NamesInv'
<1>1. ASSUME NEW r \in Requests,
             Extract(r) \/ AutoCreate(r) \/ AutoCreateFails(r) \/ NameProject(r) \/ SeeProject(r)
      PROVE  NamesInv'
  BY <1>1, ExtractNames, AutoCreateNames, AutoCreateFailsNames, NameProjectNames, SeeProjectNames
<1>2. ASSUME NEW m \in Merges,
             \/ BeginMerge(m) \/ ReadSource(m) \/ UpdateTarget(m) \/ FindRequests(m)
             \/ Reassign(m) \/ DeleteSource(m) \/ Commit(m) \/ Rollback(m)
      PROVE  NamesInv'
  BY <1>2, BeginMergeNames, ReadSourceNames, UpdateTargetNames, FindRequestsNames, ReassignNames,
     MovesOnNames, CommitNames
<1>3. CASE SetAutoCreate \/ UpsertProject \/ DeleteProject \/ UNCHANGED projectVars
  BY <1>3, NothingNames, UpsertProjectNames, DeleteProjectNames
<1> QED
  BY <1>1, <1>2, <1>3 DEF ProjectsNext

\* Whatever requests, edits and merges do in whatever order, and however merges
\* overlap, a request names a project of its own user that exists, unless a delete
\* took it away, it went while the request was about to name it, or a merge brought
\* it into a project whose requests another merge had already found
\* (handle_project.go, project.sql.go).
THEOREM RequestsKeepProjectHolds == ProjectsSpec => []RequestsKeepProject
<1>1. ProjectsInit => NamesInv
  BY InitNames
<1>2. NamesInv /\ [ProjectsNext]_projectVars => NamesInv'
  BY StepNames
<1>3. NamesInv => RequestsKeepProject
  BY DEF NamesInv, NamedThere, Has, RequestsKeepProject
<1> QED
  BY <1>1, <1>2, <1>3, PTL DEF ProjectsSpec

\* A row's times go on spanning its requests while no row's times change,
LEMMA SpansKept ==
    ASSUME Numbered, SpansNoted, TimesOnly, NotedStay PROVE SpansNoted'
<1> SUFFICES ASSUME NEW r \in Requests, ex'[r].pc = "done", r \notin astray'.seen, named'[r] # Null,
                    NEW q \in project', q.id = named'[r]
             PROVE  Spans(q, r)
  BY DEF SpansNoted, Noted, Spans
<1>1. Noted(r) /\ named'[r] = named[r]
  BY DEF NotedStay
<1>2. q.id <= lastId
  BY <1>1 DEF Numbered, Noted, Given
<1>3. PICK p \in project : p.id = q.id /\ p.first = q.first /\ p.last = q.last
  BY <1>2 DEF TimesOnly
<1> QED
  BY <1>1, <1>3 DEF SpansNoted, Spans

\* as do those a merge has read,
LEMMA ReadSpansKept ==
    ASSUME ReadSpans, NotedStay, RowStays({"read"}) PROVE ReadSpans'
<1> SUFFICES ASSUME NEW m \in Merges, merge'[m].pc = "read", NEW r \in Requests,
                    ex'[r].pc = "done", r \notin astray'.seen, named'[r] # Null,
                    named'[r] = merge'[m].src
             PROVE  merge'[m].read # {} /\ \A s \in merge'[m].read : Spans(s, r)
  BY DEF ReadSpans, Noted, Spans
<1> QED
  BY DEF ReadSpans, NotedStay, RowStays, SameSides

\* and those it has summed,
LEMMA RowSpansKept ==
    ASSUME RowSpans, NotedStay, RowStays(Holding) PROVE RowSpans'
<1> SUFFICES ASSUME NEW m \in Merges, merge'[m].pc \in Holding, NEW r \in Requests,
                    ex'[r].pc = "done", r \notin astray'.seen, named'[r] # Null,
                    named'[r] \in {merge'[m].src, merge'[m].tgt}
             PROVE  Spans(merge'[m].row, r)
  BY DEF RowSpans, Noted, Spans, Holding
<1> QED
  BY DEF RowSpans, NotedStay, RowStays, SameSides

\* a request names what it found,
LEMMA NamedBoundKept ==
    ASSUME NamedBound, UNCHANGED named, AstrayGrows,
           \A r \in Requests : ex'[r].pc = "named" => ex[r].pc = "named" /\ ex'[r].id = ex[r].id
    PROVE  NamedBound'
  BY DEF NamedBound, AstrayGrows

\* a request that found a source and has not noted it is astray,
LEMMA SourceSeenKept ==
    ASSUME SourceSeen, AstrayGrows, SidesStay(Reading),
           \A r \in Requests : ex'[r].pc \in {"found", "named"} =>
              \/ ex[r].pc \in {"found", "named"} /\ ex'[r].id = ex[r].id
              \/ \A m \in Merges : merge'[m].pc \in Reading /\ merge'[m].src = ex'[r].id => r \in astray'.seen
    PROVE  SourceSeen'
<1> SUFFICES ASSUME NEW m \in Merges, merge'[m].pc \in Reading, NEW r \in Requests,
                    ex'[r].pc \in {"found", "named"}, ex'[r].id = merge'[m].src
             PROVE  r \in astray'.seen
  BY DEF SourceSeen, Reading
<1>1. merge[m].pc \in Reading /\ merge[m].src = merge'[m].src
  BY DEF SidesStay, SameSides
<1>2. CASE ex[r].pc \in {"found", "named"} /\ ex'[r].id = ex[r].id
  BY <1>1, <1>2 DEF SourceSeen, AstrayGrows
<1> QED
  BY <1>2

\* a project that goes is one that no request of interest names,
LEMMA SeenThereKept ==
    ASSUME SeenThere, AstrayGrows, UNCHANGED named, NoneGoes,
           \A r \in Requests : ex'[r].pc = "found" =>
              \/ ex[r].pc = "found" /\ ex'[r].id = ex[r].id
              \/ \E q \in project' : q.id = ex'[r].id
    PROVE  SeenThere'
<1> SUFFICES ASSUME NEW r \in Requests, r \notin astray'.seen
             PROVE  /\ named[r] # Null => \E q \in project' : q.id = named[r]
                    /\ ex'[r].pc = "found" => \E q \in project' : q.id = ex'[r].id
  BY DEF SeenThere, Exists
<1>1. r \notin astray.seen
  BY DEF AstrayGrows
<1>2. ASSUME named[r] # Null PROVE \E q \in project' : q.id = named[r]
  <2>1. PICK p \in project : p.id = named[r]
    BY <1>1, <1>2 DEF SeenThere, Exists
  <2> QED
    BY <2>1 DEF NoneGoes
<1>3. ASSUME ex[r].pc = "found" PROVE \E q \in project' : q.id = ex[r].id
  <2>1. PICK p \in project : p.id = ex[r].id
    BY <1>1, <1>3 DEF SeenThere, Exists
  <2> QED
    BY <1>3, <2>1 DEF NoneGoes
<1> QED
  BY <1>2, <1>3

\* and a merge moves every request of interest.
LEMMA MovedSeenKept ==
    ASSUME MovedSeen, AstrayGrows, UNCHANGED named, MergesStay(Late) PROVE MovedSeen'
  BY DEF MovedSeen, AstrayGrows, MergesStay, SameSides

\* A step that names nothing, notes nothing and leaves the merges alone keeps it all.
LEMMA QuietTimes ==
    ASSUME Numbered, TimesInv, TimesOnly, NoneGoes, UNCHANGED named, AstrayGrows,
           SidesStay(Reading), RowStays({"read"}), RowStays(Holding), MergesStay(Late),
           \A r \in Requests : ex'[r].pc = "done" => ex[r].pc = "done" \/ named[r] = Null,
           \A r \in Requests : ex'[r].pc = "named" => ex[r].pc = "named" /\ ex'[r].id = ex[r].id,
           \A r \in Requests : ex'[r].pc = "found" =>
              \/ ex[r].pc = "found" /\ ex'[r].id = ex[r].id
              \/ /\ \E q \in project' : q.id = ex'[r].id
                 /\ \A m \in Merges : merge'[m].pc \in Reading /\ merge'[m].src = ex'[r].id =>
                       r \in astray'.seen
    PROVE  TimesInv'
<1>1. NotedStay
  BY DEF NotedStay, Noted, AstrayGrows
<1>2. SpansNoted' /\ ReadSpans' /\ RowSpans' /\ NamedBound' /\ MovedSeen'
  BY <1>1, SpansKept, ReadSpansKept, RowSpansKept, NamedBoundKept, MovedSeenKept DEF TimesInv
<1>3. SourceSeen'
  <2>1. \A r \in Requests : ex'[r].pc \in {"found", "named"} =>
          \/ ex[r].pc \in {"found", "named"} /\ ex'[r].id = ex[r].id
          \/ \A m \in Merges : merge'[m].pc \in Reading /\ merge'[m].src = ex'[r].id => r \in astray'.seen
    OBVIOUS
  <2> QED
    BY <2>1, SourceSeenKept DEF TimesInv
<1>4. SeenThere'
  BY SeenThereKept DEF TimesInv
<1> QED
  BY <1>2, <1>3, <1>4 DEF TimesInv

\* A step that leaves the merges alone is quiet about them.
LEMMA QuietMerges ==
    ASSUME UNCHANGED merge
    PROVE  SidesStay(Reading) /\ RowStays({"read"}) /\ RowStays(Holding) /\ MergesStay(Late)
  BY NoMerge, StayFacts

\* A step that leaves the table alone leaves its times alone.
LEMMA RowsStayTimes ==
    ASSUME RowsStay PROVE TimesOnly /\ NoneGoes
  BY DEF RowsStay, TimesOnly, NoneGoes

\* Each action keeps the times: a match,
LEMMA ExtractTimes ==
    ASSUME NamesInv, TimesInv, NEW r \in Requests, Extract(r) PROVE TimesInv'
<1>1. /\ RowsStay /\ UNCHANGED <<named, merge>> /\ OneExtraction(r) /\ AstrayGrows
      /\ ex[r].pc = "new" /\ ex'[r].pc \in {"found", "create", "done"}
      /\ ex'[r].pc = "found" => Has(ex'[r].id, OwnerOf[r])
      /\ ex'[r].pc = "found" => (Merging(ex'[r].id) => r \in astray'.seen)
  BY ExtractEffect DEF NamesInv
<1>2. named[r] = Null
  BY <1>1 DEF NamesInv, Numbered
<1>3. ex'[r].pc = "found" =>
        /\ \E q \in project' : q.id = ex'[r].id
        /\ \A m \in Merges : merge'[m].pc \in Reading /\ merge'[m].src = ex'[r].id => r \in astray'.seen
  BY <1>1 DEF Has, RowsStay, Merging, Reading
<1>4. /\ \A q \in Requests : ex'[q].pc = "done" => ex[q].pc = "done" \/ named[q] = Null
      /\ \A q \in Requests : ex'[q].pc = "named" => ex[q].pc = "named" /\ ex'[q].id = ex[q].id
      /\ \A q \in Requests : ex'[q].pc = "found" =>
            (ex[q].pc = "found" /\ ex'[q].id = ex[q].id) \/ q = r
  BY <1>1, <1>2 DEF OneExtraction
<1> QED
  BY <1>1, <1>3, <1>4, QuietMerges, RowsStayTimes, QuietTimes DEF NamesInv

\* a row created,
LEMMA AutoCreateTimes ==
    ASSUME NamesInv, TimesInv, NEW r \in Requests, AutoCreate(r) PROVE TimesInv'
<1>1. /\ lastId' = lastId + 1 /\ UNCHANGED <<named, merge, astray>> /\ OneExtraction(r)
      /\ ex[r].pc = "create" /\ ex'[r].pc = "found" /\ ex'[r].id = lastId'
      /\ Has(ex[r].id, OwnerOf[r])' /\ lastId \in Nat
      /\ project \subseteq project' /\ \A p \in project' : p \in project \/ p.id = lastId'
  BY AutoCreateEffect DEF NamesInv, Rows
<1>2. TimesOnly /\ NoneGoes
  BY <1>1 DEF TimesOnly, NoneGoes
<1>3. /\ \E q \in project' : q.id = ex'[r].id
      /\ \A m \in Merges : merge'[m].pc \in Reading => merge'[m].src # ex'[r].id
  BY <1>1 DEF Has, NamesInv, Numbered, Given, Reading, Active
<1>4. /\ \A q \in Requests : ex'[q].pc = "done" => ex[q].pc = "done" \/ named[q] = Null
      /\ \A q \in Requests : ex'[q].pc = "named" => ex[q].pc = "named" /\ ex'[q].id = ex[q].id
      /\ \A q \in Requests : ex'[q].pc = "found" =>
            (ex[q].pc = "found" /\ ex'[q].id = ex[q].id) \/ q = r
  BY <1>1 DEF OneExtraction
<1> QED
  BY <1>1, <1>2, <1>3, <1>4, QuietMerges, NoAstray, QuietTimes DEF NamesInv

\* a row that is not,
LEMMA AutoCreateFailsTimes ==
    ASSUME NamesInv, TimesInv, NEW r \in Requests, AutoCreateFails(r) PROVE TimesInv'
<1>1. /\ RowsStay /\ UNCHANGED <<named, merge, astray>> /\ OneExtraction(r)
      /\ ex[r].pc = "create" /\ ex'[r].pc = "done"
  BY AutoCreateFailsEffect DEF NamesInv
<1>2. named[r] = Null
  BY <1>1 DEF NamesInv, Numbered
<1>3. /\ \A q \in Requests : ex'[q].pc = "done" => ex[q].pc = "done" \/ named[q] = Null
      /\ \A q \in Requests : ex'[q].pc = "named" => ex[q].pc = "named" /\ ex'[q].id = ex[q].id
      /\ \A q \in Requests : ex'[q].pc = "found" => ex[q].pc = "found" /\ ex'[q].id = ex[q].id
  BY <1>1, <1>2 DEF OneExtraction
<1> QED
  BY <1>1, <1>3, QuietMerges, NoAstray, RowsStayTimes, QuietTimes DEF NamesInv

\* a request row named,
LEMMA NameProjectTimes ==
    ASSUME NamesInv, TimesInv, NEW r \in Requests, NameProject(r) PROVE TimesInv'
<1>1. /\ RowsStay /\ UNCHANGED merge /\ OneExtraction(r) /\ AstrayGrows
      /\ ex[r].pc = "found" /\ ex'[r].pc = "named" /\ ex'[r].id = ex[r].id
      /\ astray'.seen = astray.seen
      /\ named'[r] = ex[r].id /\ \A q \in Requests \ {r} : named'[q] = named[q]
  BY NameProjectEffect DEF NamesInv
<1>2. NotedStay
  BY <1>1 DEF NotedStay, Noted, OneExtraction
<1>3. SpansNoted' /\ ReadSpans' /\ RowSpans'
  BY <1>1, <1>2, QuietMerges, RowsStayTimes, SpansKept, ReadSpansKept, RowSpansKept DEF TimesInv, NamesInv
<1>4. NamedBound'
  BY <1>1 DEF TimesInv, NamedBound, OneExtraction
<1>5. \A q \in Requests : ex'[q].pc \in {"found", "named"} =>
        ex[q].pc \in {"found", "named"} /\ ex'[q].id = ex[q].id
  BY <1>1 DEF OneExtraction
<1>6. SourceSeen'
  BY <1>1, <1>5, QuietMerges, SourceSeenKept DEF TimesInv
<1>7. SeenThere'
  BY <1>1 DEF TimesInv, SeenThere, Exists, RowsStay, OneExtraction
<1>8. MovedSeen'
  <2>1. \A m \in Merges : merge[m].pc \in Late /\ merge[m].src = ex[r].id => r \in astray.seen
    BY <1>1 DEF TimesInv, SourceSeen, Late, Reading
  <2> QED
    BY <1>1, <2>1 DEF TimesInv, MovedSeen
<1> QED
  BY <1>3, <1>4, <1>6, <1>7, <1>8 DEF TimesInv

\* a project seen,
LEMMA SeeProjectTimes ==
    ASSUME NamesInv, TimesInv, NEW r \in Requests, SeeProject(r) PROVE TimesInv'
<1>1. /\ Rows' /\ RowsKeep({}) /\ RowsOnly /\ lastId' = lastId
      /\ UNCHANGED <<named, merge>> /\ OneExtraction(r) /\ AstrayGrows
      /\ ex[r].pc = "named" /\ ex'[r].pc = "done" /\ ex'[r].id = ex[r].id
      /\ \/ project' = project /\ r \in astray'.seen
         \/ /\ ~Locked(ex[r].id) /\ astray' = astray
            /\ \A p \in project' : \/ p \in project /\ p.id # ex[r].id
                                   \/ \E q \in project : q.id = ex[r].id /\ p = Seen(q, r)
  BY SeeProjectEffect DEF NamesInv
<1>2. SidesStay(Reading) /\ RowStays({"read"}) /\ RowStays(Holding) /\ MergesStay(Late)
  BY <1>1, QuietMerges
<1>3. NoneGoes
  BY <1>1 DEF NoneGoes, RowsKeep, SameRow
<1>4. /\ \A q \in Requests : ex'[q].pc = "named" => ex[q].pc = "named" /\ ex'[q].id = ex[q].id
      /\ \A q \in Requests : ex'[q].pc \in {"found", "named"} =>
            ex[q].pc \in {"found", "named"} /\ ex'[q].id = ex[q].id
      /\ \A q \in Requests : ex'[q].pc = "found" => ex[q].pc = "found" /\ ex'[q].id = ex[q].id
  BY <1>1 DEF OneExtraction
<1>5. NamedBound' /\ SourceSeen' /\ SeenThere' /\ MovedSeen'
  BY <1>1, <1>2, <1>3, <1>4, NamedBoundKept, SourceSeenKept, SeenThereKept, MovedSeenKept DEF TimesInv
<1>6. CASE project' = project /\ r \in astray'.seen
  <2>1. NotedStay
    BY <1>1, <1>6 DEF NotedStay, Noted, OneExtraction, AstrayGrows
  <2>2. TimesOnly
    BY <1>6 DEF TimesOnly
  <2>3. SpansNoted' /\ ReadSpans' /\ RowSpans'
    BY <1>2, <2>1, <2>2, SpansKept, ReadSpansKept, RowSpansKept DEF TimesInv, NamesInv
  <2> QED
    BY <1>5, <2>3 DEF TimesInv
<1>7. CASE /\ ~Locked(ex[r].id) /\ astray' = astray
           /\ \A p \in project' : \/ p \in project /\ p.id # ex[r].id
                                  \/ \E q \in project : q.id = ex[r].id /\ p = Seen(q, r)
  <2>1. r \notin astray.seen => named[r] = ex[r].id
    BY <1>1 DEF TimesInv, NamedBound
  <2>2. /\ r \in Nat /\ Requests \subseteq Nat
        /\ \A q \in project : /\ SameRow(q, Seen(q, r)) /\ Spans(Seen(q, r), r)
                              /\ \A o \in Nat : Spans(q, o) => Spans(Seen(q, r), o)
    BY SeenFacts, RequestsAreTimes DEF NamesInv, Rows
  <2>3. SpansNoted'
    <3> SUFFICES ASSUME NEW o \in Requests, ex'[o].pc = "done", o \notin astray'.seen, named'[o] # Null,
                        NEW p \in project', p.id = named'[o]
                 PROVE  Spans(p, o)
      BY DEF SpansNoted, Noted, Spans
    <3>1. o # r => Noted(o)
      BY <1>1, <1>7 DEF Noted, OneExtraction
    <3>2. CASE p \in project /\ p.id # ex[r].id
      <4>1. o # r
        BY <1>1, <1>7, <2>1, <3>2
      <4> QED
        BY <1>1, <3>1, <3>2, <4>1 DEF TimesInv, SpansNoted
    <3>3. ASSUME NEW q \in project, q.id = ex[r].id, p = Seen(q, r) PROVE Spans(p, o)
      <4>1. o = r => Spans(p, o)
        BY <2>2, <3>3
      <4>2. o # r => Spans(q, o)
        BY <1>1, <2>2, <3>1, <3>3 DEF TimesInv, SpansNoted, SameRow
      <4> QED
        BY <2>2, <3>3, <4>1, <4>2
    <3> QED
      BY <1>7, <3>2, <3>3
  <2>4. RowSpans'
    <3> SUFFICES ASSUME NEW m \in Merges, merge[m].pc \in Holding, NEW o \in Requests,
                        ex'[o].pc = "done", o \notin astray'.seen, named[o] # Null,
                        named[o] \in {merge[m].src, merge[m].tgt}
                 PROVE  Spans(merge[m].row, o)
      BY <1>1 DEF RowSpans, Noted, Spans, Holding
    <3>1. CASE o # r
      BY <1>1, <1>7, <3>1 DEF TimesInv, RowSpans, Noted, OneExtraction
    <3>2. CASE o = r
      <4>1. named[r] = ex[r].id
        BY <1>7, <2>1, <3>2
      <4>2. ex[r].id # merge[m].src
        BY <1>1, <1>7, <3>2 DEF TimesInv, SourceSeen, Reading, Holding
      <4>3. ex[r].id # merge[m].tgt
        BY <1>7 DEF Locked, Holding
      <4> QED
        BY <4>1, <4>2, <4>3, <3>2
    <3> QED
      BY <3>1, <3>2
  <2>5. ReadSpans'
    <3> SUFFICES ASSUME NEW m \in Merges, merge[m].pc = "read", NEW o \in Requests,
                        ex'[o].pc = "done", o \notin astray'.seen, named[o] # Null,
                        named[o] = merge[m].src
                 PROVE  merge[m].read # {} /\ \A s \in merge[m].read : Spans(s, o)
      BY <1>1 DEF ReadSpans, Noted, Spans
    <3>1. o # r
      BY <1>1, <1>7, <2>1 DEF TimesInv, SourceSeen, Reading
    <3> QED
      BY <1>1, <1>7, <3>1 DEF TimesInv, ReadSpans, Noted, OneExtraction
  <2> QED
    BY <1>5, <2>3, <2>4, <2>5 DEF TimesInv
<1> QED
  BY <1>1, <1>6, <1>7

\* a project saved,
LEMMA UpsertProjectTimes ==
    ASSUME NamesInv, TimesInv, UpsertProject PROVE TimesInv'
<1>1. /\ RowsKeep({}) /\ UNCHANGED <<named, ex, merge, astray>> /\ TimesOnly
  BY UpsertProjectEffect DEF NamesInv, TimesOnly
<1>2. NoneGoes
  BY <1>1 DEF NoneGoes, RowsKeep, SameRow
<1> QED
  BY <1>1, <1>2, QuietMerges, NoAstray, QuietTimes DEF NamesInv

\* a project deleted,
LEMMA DeleteProjectTimes ==
    ASSUME NamesInv, TimesInv, DeleteProject PROVE TimesInv'
<1>1. PICK p \in project :
        /\ project' = project \ {p} /\ RowsKeep({p.id}) /\ AstrayGrows
        /\ UNCHANGED <<named, ex, merge>>
        /\ \A r \in Requests : named[r] = p.id \/ (ex[r].pc = "found" /\ ex[r].id = p.id) =>
              r \in astray'.seen
  BY DeleteProjectEffect DEF NamesInv
<1>2. TimesOnly /\ NoneGoes
  BY <1>1 DEF TimesOnly, NoneGoes
<1> QED
  BY <1>1, <1>2, QuietMerges, QuietTimes DEF NamesInv

\* nothing at all,
LEMMA NothingTimes ==
    ASSUME NamesInv, TimesInv, UNCHANGED projectVars \/ SetAutoCreate PROVE TimesInv'
<1>1. UNCHANGED <<project, lastId, named, ex, merge, astray>>
  BY DEF projectVars, SetAutoCreate
<1>2. TimesOnly /\ NoneGoes
  BY <1>1, RowsStayTimes DEF RowsStay
<1> QED
  BY <1>1, <1>2, QuietMerges, NoAstray, QuietTimes DEF NamesInv

\* The steps of a merge before it reads times and after it sums them.
LEMMA MergeTimes ==
    ASSUME NamesInv, TimesInv, NEW m \in Merges, BeginMerge(m) \/ DeleteSource(m) \/ Rollback(m)
    PROVE  TimesInv'
<1>1. UNCHANGED <<project, lastId, named, ex, astray>>
  BY DEF BeginMerge, DeleteSource, Rollback
<1>2. SidesStay(Reading) /\ RowStays({"read"}) /\ RowStays(Holding) /\ MergesStay(Late)
  <2>1. CASE BeginMerge(m)
    BY <2>1, BeginMergeEffect
    DEF NamesInv, MergesStay, SidesStay, RowStays, OneMerge, Reading, Holding, Late, SameSides
  <2>2. CASE DeleteSource(m) \/ Rollback(m)
    <3>1. \/ merge[m].pc = "moved" /\ merge' = [merge EXCEPT ![m].pc = "deleted"]
          \/ merge' = Ended(m, "failed")
      BY <2>2 DEF DeleteSource, Rollback
    <3>2. /\ OneMerge(m) /\ SameSides(m)
          /\ \/ /\ merge[m].pc = "moved" /\ merge'[m].pc = "deleted"
                /\ merge'[m].row = merge[m].row /\ merge'[m].moved = merge[m].moved
                /\ merge'[m].read = merge[m].read
             \/ merge'[m].pc = "failed"
      BY <3>1, MovesOn, MergeEnds DEF NamesInv
    <3> QED
      BY <3>2 DEF MergesStay, SidesStay, RowStays, OneMerge, SameSides, Reading, Holding, Late
  <2> QED
    BY <2>1, <2>2
<1>3. TimesOnly /\ NoneGoes
  BY <1>1, RowsStayTimes DEF RowsStay
<1> QED
  BY <1>1, <1>2, <1>3, NoAstray, QuietTimes DEF NamesInv

\* the times read,
LEMMA ReadSourceTimes ==
    ASSUME NamesInv, TimesInv, NEW m \in Merges, ReadSource(m) PROVE TimesInv'
<1>1. /\ RowsStay /\ UNCHANGED <<named, ex>> /\ OneMerge(m) /\ SameSides(m) /\ AstrayGrows
      /\ merge[m].pc = "begun" /\ merge'[m].pc = "read"
      /\ \A r \in Requests : ex[r].pc \in {"found", "named"} /\ ex[r].id = merge[m].src =>
            r \in astray'.seen
      /\ merge'[m].read = {p \in project : p.id = merge[m].src}
  BY ReadSourceEffect DEF NamesInv
<1>2. NotedStay
  BY <1>1 DEF NotedStay, Noted, AstrayGrows
<1>3. MergesStay(Late) /\ RowStays(Holding)
  BY <1>1 DEF MergesStay, RowStays, OneMerge, Late, Holding, SameSides
<1>4. TimesOnly /\ NoneGoes
  BY <1>1, RowsStayTimes
<1>5. SpansNoted' /\ RowSpans' /\ NamedBound' /\ SeenThere' /\ MovedSeen'
  BY <1>1, <1>2, <1>3, <1>4, SpansKept, RowSpansKept, NamedBoundKept, SeenThereKept, MovedSeenKept
  DEF TimesInv, NamesInv
<1>6. SourceSeen'
  BY <1>1 DEF TimesInv, SourceSeen, OneMerge, SameSides, AstrayGrows, Reading
<1>7. ReadSpans'
  <2> SUFFICES ASSUME NEW n \in Merges, merge'[n].pc = "read", NEW r \in Requests,
                      ex'[r].pc = "done", r \notin astray'.seen, named'[r] # Null,
                      named'[r] = merge'[n].src
               PROVE  merge'[n].read # {} /\ \A s \in merge'[n].read : Spans(s, r)
    BY DEF ReadSpans, Noted, Spans
  <2>1. Noted(r) /\ named'[r] = named[r]
    BY <1>2 DEF NotedStay
  <2>2. CASE n # m
    BY <1>1, <2>1, <2>2 DEF TimesInv, ReadSpans, OneMerge
  <2>3. CASE n = m
    <3>1. named[r] = merge[m].src
      BY <1>1, <2>1, <2>3 DEF SameSides
    <3>2. \E p \in project : p.id = merge[m].src
      BY <2>1, <3>1 DEF TimesInv, SeenThere, Noted, Exists
    <3> QED
      BY <1>1, <2>1, <2>3, <3>1, <3>2 DEF TimesInv, SpansNoted
  <2> QED
    BY <2>2, <2>3
<1> QED
  BY <1>5, <1>6, <1>7 DEF TimesInv

\* the times summed,
LEMMA UpdateTargetTimes ==
    ASSUME NamesInv, TimesInv, NEW m \in Merges, UpdateTarget(m) PROVE TimesInv'
<1>1. /\ RowsStay /\ UNCHANGED <<named, ex, astray>> /\ OneMerge(m) /\ SameSides(m)
      /\ merge[m].pc = "read" /\ merge'[m].pc \in {"failed", "updated"}
      /\ merge'[m].pc = "updated" =>
            \E t \in project :
               /\ t.id = merge[m].tgt
               /\ \/ merge[m].read = {} /\ merge'[m].row = t
                  \/ \E s \in merge[m].read : merge'[m].row = MergedRow(t, s)
  BY UpdateTargetEffect DEF NamesInv
<1>2. NotedStay
  BY <1>1 DEF NotedStay, Noted
<1>3. MergesStay(Late) /\ RowStays({"read"}) /\ SidesStay(Reading) /\ AstrayGrows
  BY <1>1, NoAstray DEF MergesStay, RowStays, SidesStay, OneMerge, Late, Reading, SameSides
<1>4. TimesOnly /\ NoneGoes
  BY <1>1, RowsStayTimes
<1>5. SpansNoted' /\ ReadSpans' /\ NamedBound' /\ SourceSeen' /\ SeenThere' /\ MovedSeen'
  BY <1>1, <1>2, <1>3, <1>4, SpansKept, ReadSpansKept, NamedBoundKept, SourceSeenKept, SeenThereKept,
     MovedSeenKept DEF TimesInv, NamesInv
<1>6. RowSpans'
  <2> SUFFICES ASSUME NEW n \in Merges, merge'[n].pc \in Holding, NEW r \in Requests,
                      ex'[r].pc = "done", r \notin astray'.seen, named'[r] # Null,
                      named'[r] \in {merge'[n].src, merge'[n].tgt}
               PROVE  Spans(merge'[n].row, r)
    BY DEF RowSpans, Noted, Spans, Holding
  <2>1. Noted(r) /\ named'[r] = named[r]
    BY <1>2 DEF NotedStay
  <2>2. CASE n # m
    BY <1>1, <2>1, <2>2 DEF TimesInv, RowSpans, OneMerge
  <2>3. CASE n = m
    <3>1. PICK t \in project :
            /\ t.id = merge[m].tgt
            /\ \/ merge[m].read = {} /\ merge'[m].row = t
               \/ \E s \in merge[m].read : merge'[m].row = MergedRow(t, s)
      BY <1>1, <2>3 DEF Holding
    <3>2. named[r] \in {merge[m].src, merge[m].tgt}
      BY <1>1, <2>1, <2>3 DEF SameSides
    <3>3. named[r] = merge[m].tgt => Spans(t, r)
      BY <2>1, <3>1 DEF TimesInv, SpansNoted
    <3>4. named[r] = merge[m].src =>
            merge[m].read # {} /\ \A s \in merge[m].read : Spans(s, r)
      BY <1>1, <2>1 DEF TimesInv, ReadSpans
    <3>5. CASE merge[m].read = {} /\ merge'[m].row = t
      BY <2>3, <3>2, <3>3, <3>4, <3>5
    <3>6. ASSUME NEW s \in merge[m].read, merge'[m].row = MergedRow(t, s)
          PROVE  Spans(merge'[m].row, r)
      <4>1. IsProject(t) /\ IsProject(s) /\ r \in Nat
        BY <1>1, RequestsAreTimes DEF NamesInv, Rows, MergesInv, ReadRow
      <4>2. Spans(t, r) \/ Spans(s, r)
        BY <3>2, <3>3, <3>4
      <4>3. Spans(MergedRow(t, s), r)
        BY <4>1, <4>2, MergedFacts
      <4> QED
        BY <3>6, <4>3
    <3> QED
      BY <2>3, <3>1, <3>5, <3>6
  <2> QED
    BY <2>2, <2>3
<1> QED
  BY <1>5, <1>6 DEF TimesInv

\* the requests found,
LEMMA FindRequestsTimes ==
    ASSUME NamesInv, TimesInv, NEW m \in Merges, FindRequests(m) PROVE TimesInv'
<1>1. /\ RowsStay /\ UNCHANGED <<named, ex, astray>> /\ OneMerge(m) /\ SameSides(m)
      /\ merge[m].pc = "updated" /\ merge'[m].pc = "listed" /\ merge'[m].row = merge[m].row
      /\ merge'[m].read = merge[m].read
      /\ merge'[m].moved = {r \in Requests : named[r] = merge[m].src}
  BY FindRequestsEffect DEF NamesInv
<1>2. TimesOnly /\ NoneGoes /\ AstrayGrows
  BY <1>1, RowsStayTimes, NoAstray
<1>3. NotedStay
  BY <1>1 DEF NotedStay, Noted
<1>4. RowStays(Holding) /\ RowStays({"read"}) /\ SidesStay(Reading)
  BY <1>1 DEF RowStays, SidesStay, OneMerge, Holding, Reading, SameSides
<1>5. SpansNoted' /\ ReadSpans' /\ RowSpans' /\ NamedBound' /\ SourceSeen' /\ SeenThere'
  BY <1>1, <1>2, <1>3, <1>4, SpansKept, ReadSpansKept, RowSpansKept, NamedBoundKept, SourceSeenKept,
     SeenThereKept DEF TimesInv, NamesInv
<1>6. MovedSeen'
  BY <1>1 DEF TimesInv, MovedSeen, OneMerge, SameSides, Late
<1> QED
  BY <1>5, <1>6 DEF TimesInv

\* and changed,
LEMMA ReassignTimes ==
    ASSUME NamesInv, TimesInv, NEW m \in Merges, Reassign(m) PROVE TimesInv'
<1>1. /\ RowsStay /\ UNCHANGED <<named, ex, astray>> /\ OneMerge(m) /\ SameSides(m)
      /\ merge[m].pc = "listed" /\ merge'[m].pc = "moved" /\ merge'[m].row = merge[m].row
      /\ merge'[m].read = merge[m].read
      /\ merge'[m].moved = {r \in merge[m].moved : named[r] = merge[m].src}
  BY ReassignEffect DEF NamesInv
<1>2. TimesOnly /\ NoneGoes /\ AstrayGrows
  BY <1>1, RowsStayTimes, NoAstray
<1>3. NotedStay
  BY <1>1 DEF NotedStay, Noted
<1>4. RowStays(Holding) /\ RowStays({"read"}) /\ SidesStay(Reading)
  BY <1>1 DEF RowStays, SidesStay, OneMerge, Holding, Reading, SameSides
<1>5. SpansNoted' /\ ReadSpans' /\ RowSpans' /\ NamedBound' /\ SourceSeen' /\ SeenThere'
  BY <1>1, <1>2, <1>3, <1>4, SpansKept, ReadSpansKept, RowSpansKept, NamedBoundKept, SourceSeenKept,
     SeenThereKept DEF TimesInv, NamesInv
<1>6. MovedSeen'
  BY <1>1 DEF TimesInv, MovedSeen, OneMerge, SameSides, Late
<1> QED
  BY <1>5, <1>6 DEF TimesInv

\* and the merge committed.
LEMMA CommitTimes ==
    ASSUME NamesInv, TimesInv, NEW m \in Merges, Commit(m) PROVE TimesInv'
<1>1. /\ Rows' /\ RowsKeep({merge[m].src})
      /\ UNCHANGED ex /\ OneMerge(m) /\ AstrayGrows
      /\ merge[m].pc = "deleted" /\ merge'[m].pc = "done"
      /\ \A r \in Requests : named'[r] = IF r \in merge[m].moved THEN merge[m].tgt ELSE named[r]
      /\ Merging(merge[m].tgt) => merge[m].moved \subseteq astray'.seen
      /\ \A q \in project' : q.id # merge[m].src /\
            \/ q = merge[m].row
            \/ q \in project /\ q.id # merge[m].tgt
  BY CommitEffect DEF NamesInv, MergesInv
<1>2. /\ merge[m].src # merge[m].tgt /\ merge[m].tgt \in Nat /\ merge[m].src \in Nat
      /\ \A r \in merge[m].moved : r \in Requests /\ named[r] = merge[m].src
      /\ merge[m].row.id = merge[m].tgt /\ Exists(merge[m].tgt)
  BY <1>1 DEF NamesInv, Numbered, Active, Given, MergesInv, Changed, Firm, Shapes, IsMerge, Held, Holding,
     Has, Exists
\* Whoever is still under way is another merge, and has another target.
<1>3. \A n \in Merges : merge'[n].pc \in Reading =>
        n # m /\ merge'[n] = merge[n] /\ merge[n].pc \in Reading
  BY <1>1 DEF Reading, OneMerge
<1>4. \A n \in Merges \ {m} : merge[n].pc \in Holding => merge[n].tgt # merge[m].tgt
  BY <1>1 DEF NamesInv, MergesInv, Held, Holding
<1>5. \A r \in Requests : named[r] = merge[m].src /\ r \notin astray.seen => r \in merge[m].moved
  BY <1>1 DEF TimesInv, MovedSeen, Late
\* A request it moves is astray if another empties the target,
<1>6. \A n \in Merges \ {m} : merge[n].pc \in Reading /\ merge[n].src = merge[m].tgt =>
        merge[m].moved \subseteq astray'.seen
  BY <1>1 DEF Merging, Reading
\* noted is as before, except that the moved requests name the target.
<1>7. \A r \in Requests : ex'[r].pc = "done" /\ r \notin astray'.seen /\ named'[r] # Null =>
        /\ Noted(r)
        /\ \/ named'[r] = named[r] /\ named[r] # merge[m].src
           \/ r \in merge[m].moved /\ named'[r] = merge[m].tgt /\ named[r] = merge[m].src
  BY <1>1, <1>2, <1>5, NullApart DEF Noted, AstrayGrows
<1>8. SpansNoted'
  <2> SUFFICES ASSUME NEW r \in Requests, ex'[r].pc = "done", r \notin astray'.seen, named'[r] # Null,
                      NEW q \in project', q.id = named'[r]
               PROVE  Spans(q, r)
    BY DEF SpansNoted, Noted, Spans
  <2>1. CASE q = merge[m].row
    <3>1. named[r] \in {merge[m].src, merge[m].tgt} /\ Noted(r)
      BY <1>2, <1>7, <2>1
    <3> QED
      BY <1>1, <2>1, <3>1 DEF TimesInv, RowSpans, Holding
  <2>2. CASE q \in project /\ q.id # merge[m].tgt
    <3>1. named[r] = q.id /\ Noted(r)
      BY <1>7, <2>2
    <3> QED
      BY <2>2, <3>1 DEF TimesInv, SpansNoted
  <2> QED
    BY <1>1, <2>1, <2>2
<1>9. RowSpans'
  <2> SUFFICES ASSUME NEW n \in Merges, merge'[n].pc \in Holding, NEW r \in Requests,
                      ex'[r].pc = "done", r \notin astray'.seen, named'[r] # Null,
                      named'[r] \in {merge'[n].src, merge'[n].tgt}
               PROVE  Spans(merge'[n].row, r)
    BY DEF RowSpans, Noted, Spans, Holding
  <2>1. /\ n # m /\ merge'[n] = merge[n] /\ merge[n].pc \in Holding
        /\ merge[m].tgt # merge[n].tgt
    BY <1>3, <1>4 DEF Holding, Reading
  <2>2. r \notin merge[m].moved
    <3> SUFFICES ASSUME r \in merge[m].moved PROVE FALSE
      OBVIOUS
    <3>1. merge[n].src = merge[m].tgt
      BY <1>1, <2>1
    <3> QED
      BY <1>6, <2>1, <3>1 DEF Reading, Holding
  <2>3. Noted(r) /\ named'[r] = named[r]
    BY <1>7, <2>2
  <2> QED
    BY <2>1, <2>3 DEF TimesInv, RowSpans
<1>10. ReadSpans'
  <2> SUFFICES ASSUME NEW n \in Merges, merge'[n].pc = "read", NEW r \in Requests,
                      ex'[r].pc = "done", r \notin astray'.seen, named'[r] # Null,
                      named'[r] = merge'[n].src
               PROVE  merge'[n].read # {} /\ \A s \in merge'[n].read : Spans(s, r)
    BY DEF ReadSpans, Noted, Spans
  <2>1. n # m /\ merge'[n] = merge[n] /\ merge[n].pc = "read" /\ merge[n].pc \in Reading
    BY <1>3 DEF Reading
  <2>2. r \notin merge[m].moved
    <3> SUFFICES ASSUME r \in merge[m].moved PROVE FALSE
      OBVIOUS
    <3>1. merge[n].src = merge[m].tgt
      BY <1>1, <2>1
    <3> QED
      BY <1>6, <2>1, <3>1
  <2>3. Noted(r) /\ named'[r] = named[r]
    BY <1>7, <2>2
  <2> QED
    BY <2>1, <2>3 DEF TimesInv, ReadSpans
<1>11. NamedBound'
  <2>1. \A r \in merge[m].moved : ex[r].pc = "named" => r \in astray.seen
    BY <1>1, <1>2 DEF TimesInv, NamedBound, SourceSeen, Reading
  <2> QED
    BY <1>1, <2>1 DEF TimesInv, NamedBound, AstrayGrows
<1>12. SourceSeen'
  BY <1>1, <1>3 DEF TimesInv, SourceSeen, Reading, AstrayGrows
<1>13. SeenThere'
  <2> SUFFICES ASSUME NEW r \in Requests, r \notin astray'.seen
               PROVE  /\ named'[r] # Null => \E q \in project' : q.id = named'[r]
                      /\ ex'[r].pc = "found" => \E q \in project' : q.id = ex'[r].id
    BY DEF SeenThere, Exists
  <2>0. r \notin astray.seen
    BY <1>1 DEF AstrayGrows
  <2>1. \A p \in project : p.id # merge[m].src => \E q \in project' : q.id = p.id
    BY <1>1 DEF RowsKeep, SameRow
  <2>2. \E q \in project' : q.id = merge[m].tgt
    BY <1>2, <2>1 DEF Exists
  <2>3. ASSUME named'[r] # Null PROVE \E q \in project' : q.id = named'[r]
    <3>1. CASE r \in merge[m].moved
      BY <1>1, <2>2, <3>1
    <3>2. CASE r \notin merge[m].moved
      <4>1. named'[r] = named[r] /\ named[r] # merge[m].src
        BY <1>1, <1>5, <2>0, <3>2
      <4>2. PICK p \in project : p.id = named[r]
        BY <2>0, <2>3, <4>1 DEF TimesInv, SeenThere, Exists
      <4> QED
        BY <2>1, <4>1, <4>2
    <3> QED
      BY <3>1, <3>2
  <2>4. ASSUME ex'[r].pc = "found" PROVE \E q \in project' : q.id = ex'[r].id
    <3>1. ex[r].pc = "found" /\ ex[r].id # merge[m].src /\ ex'[r].id = ex[r].id
      BY <1>1, <2>0, <2>4 DEF TimesInv, SourceSeen, Reading
    <3>2. PICK p \in project : p.id = ex[r].id
      BY <2>0, <3>1 DEF TimesInv, SeenThere, Exists
    <3> QED
      BY <2>1, <3>1, <3>2
  <2> QED
    BY <2>3, <2>4
<1>14. MovedSeen'
  <2> SUFFICES ASSUME NEW n \in Merges, merge'[n].pc \in Late, NEW r \in Requests,
                      named'[r] = merge'[n].src, r \notin astray'.seen
               PROVE  r \in merge'[n].moved
    BY DEF MovedSeen, Late
  <2>1. n # m /\ merge'[n] = merge[n] /\ merge[n].pc \in Late /\ merge[n].pc \in Reading
    BY <1>3 DEF Late, Reading
  <2>2. r \notin merge[m].moved
    <3> SUFFICES ASSUME r \in merge[m].moved PROVE FALSE
      OBVIOUS
    <3>1. merge[n].src = merge[m].tgt
      BY <1>1, <2>1
    <3> QED
      BY <1>6, <2>1, <3>1
  <2>3. named[r] = merge[n].src /\ r \notin astray.seen
    BY <1>1, <2>1, <2>2 DEF AstrayGrows
  <2> QED
    BY <2>1, <2>3 DEF TimesInv, MovedSeen
<1> QED
  BY <1>8, <1>9, <1>10, <1>11, <1>12, <1>13, <1>14 DEF TimesInv

\* Every step keeps the times,
LEMMA StepTimes ==
    ASSUME NamesInv, TimesInv, [ProjectsNext]_projectVars PROVE TimesInv'
<1>1. ASSUME NEW r \in Requests,
             Extract(r) \/ AutoCreate(r) \/ AutoCreateFails(r) \/ NameProject(r) \/ SeeProject(r)
      PROVE  TimesInv'
  BY <1>1, ExtractTimes, AutoCreateTimes, AutoCreateFailsTimes, NameProjectTimes, SeeProjectTimes
<1>2. ASSUME NEW m \in Merges,
             \/ BeginMerge(m) \/ ReadSource(m) \/ UpdateTarget(m) \/ FindRequests(m)
             \/ Reassign(m) \/ DeleteSource(m) \/ Commit(m) \/ Rollback(m)
      PROVE  TimesInv'
  BY <1>2, MergeTimes, ReadSourceTimes, UpdateTargetTimes, FindRequestsTimes, ReassignTimes, CommitTimes
<1>3. CASE SetAutoCreate \/ UpsertProject \/ DeleteProject \/ UNCHANGED projectVars
  BY <1>3, NothingTimes, UpsertProjectTimes, DeleteProjectTimes
<1> QED
  BY <1>1, <1>2, <1>3 DEF ProjectsNext

\* and they hold at the start.
LEMMA InitTimes ==
    ASSUME ProjectsInit PROVE TimesInv
<1>1. \A m \in Merges : merge[m].pc = "idle"
  BY DEF ProjectsInit
<1>2. \A r \in Requests : ex[r].pc = "new" /\ named[r] = Null
  BY DEF ProjectsInit
<1> QED
  BY <1>1, <1>2 DEF TimesInv, SpansNoted, ReadSpans, RowSpans, NamedBound, SourceSeen, SeenThere, MovedSeen,
     Noted, Reading, Holding, Late

\* And that project's first and last use span the request once it is noted, however
\* merges summed the times of projects while the request was served, unless a merge
\* brought it into a project whose times another had already read.
THEOREM TimesSpanRequestsHolds == ProjectsSpec => []TimesSpanRequests
<1>1. ProjectsInit => NamesInv /\ TimesInv
  BY InitNames, InitTimes
<1>2. NamesInv /\ TimesInv /\ [ProjectsNext]_projectVars => NamesInv' /\ TimesInv'
  BY StepNames, StepTimes
<1>3. NamesInv /\ TimesInv => TimesSpanRequests
  <2> SUFFICES ASSUME NamesInv, TimesInv, NEW r \in Requests, NEW p \in project,
                      named[r] = p.id, ex[r].pc = "done", r \notin astray.seen
               PROVE  p.first # Null /\ p.first <= r /\ r <= p.last
    BY DEF TimesSpanRequests
  <2>1. p.id # Null
    BY NullApart DEF NamesInv, Rows, IsProject
  <2> QED
    BY <2>1, NullApart DEF TimesInv, SpansNoted, Noted, Spans
<1> QED
  BY <1>1, <1>2, <1>3, PTL DEF ProjectsSpec
=============================================================================
