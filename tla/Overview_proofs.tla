-------------------------- MODULE Overview_proofs --------------------------
(***************************************************************************)
(* That the overview's pages agree on every sum and on the traces          *)
(* (OverviewCases).                                                        *)
(*                                                                         *)
(* The table is any set of requests, so the sums are taken apart by which  *)
(* part of it a row, a bar or a point stands for.  The first part is about *)
(* sums over finite sets; SumRows, that rows for the parts of a whole add  *)
(* up to it, carries the rest: the rows of the summary and the             *)
(* distribution, the bars of a series through its display buckets, the     *)
(* users an administrator sees, and the ratios of the outcome series.      *)
(* Last, the traces table, which the rows alone determine, and its counts. *)
(***************************************************************************)
EXTENDS OverviewCases, FiniteSetTheorems, WellFoundedInduction, TLAPS

-----------------------------------------------------------------------------
(* Sums over finite sets: SumFunctionOnSet, taken apart and put together.   *)

\* A set of numbers that is not empty has a least one.
LEMMA Least ==
    ASSUME NEW S, S \subseteq Nat, S # {}
    PROVE  \E m \in S : \A n \in S : m <= n
<1>1. PICK m \in S : \A n \in S : ~ (<<n, m>> \in OpToRel(<, Nat))
  BY NatLessThanWellFounded, WFMin, Zenon
<1>2. \A n \in S : ~ (n < m)
  <2> SUFFICES ASSUME NEW n \in S PROVE ~ (n < m)
    OBVIOUS
  <2>1. <<n, m>> \notin OpToRel(<, Nat)
    BY <1>1
  <2>2. n \in Nat /\ m \in Nat
    OBVIOUS
  <2> QED
    BY <2>1, <2>2, Zenon DEF OpToRel
<1> QED
  BY <1>2

\* Induction over numbers, for the members of a set.
LEMMA Numbers ==
    ASSUME NEW P, 0 \in P, \A n \in Nat : n \in P => n + 1 \in P
    PROVE  \A n \in Nat : n \in P
<1> SUFFICES ASSUME Nat \ P # {} PROVE FALSE
  OBVIOUS
<1>1. PICK m \in Nat \ P : \A n \in Nat \ P : m <= n
  BY Least
<1>2. m # 0 /\ m - 1 \in Nat
  OBVIOUS
<1>3. m - 1 \in P
  BY <1>1, <1>2
<1> QED
  BY <1>2, <1>3

\* Induction over the subsets of a finite set.
LEMMA Subsets ==
    ASSUME NEW S, IsFiniteSet(S), NEW P, {} \in P,
           \A T \in SUBSET S : \A x \in S \ T : T \in P => T \cup {x} \in P
    PROVE  S \in P
<1> DEFINE Q == {n \in Nat : \A T \in SUBSET S : Cardinality(T) = n => T \in P}
<1>1. \A T \in SUBSET S : IsFiniteSet(T) /\ Cardinality(T) \in Nat
  BY FS_Subset, FS_CardinalityType
<1>2. 0 \in Q
  BY <1>1, FS_EmptySet
<1>3. ASSUME NEW n \in Nat, n \in Q PROVE n + 1 \in Q
  <2> SUFFICES ASSUME NEW T \in SUBSET S, Cardinality(T) = n + 1 PROVE T \in P
    OBVIOUS
  <2>1. IsFiniteSet(T)
    BY <1>1
  <2>0. Cardinality(T) \in Nat /\ Cardinality(T) # 0
    BY <2>1, FS_CardinalityType
  <2>2. T # {}
    BY <2>0, FS_EmptySet
  <2>3. PICK x \in T : TRUE
    BY <2>2
  <2>4. Cardinality(T \ {x}) = n
    <3>1. Cardinality(T \ {x}) = Cardinality(T) - 1
      BY <2>1, FS_RemoveElement
    <3> QED
      BY <3>1, <2>0
  <2>5. T \ {x} \in P
    BY <2>4, <1>3
  <2>6. (T \ {x}) \cup {x} \in P /\ (T \ {x}) \cup {x} = T
    BY <2>5
  <2> QED
    BY <2>6
<1> HIDE DEF Q
<1>4. \A n \in Nat : n \in Q
  BY <1>2, <1>3, Numbers
<1> QED
  BY <1>1, <1>4 DEF Q

-----------------------------------------------------------------------------
(* Sums.                                                                    *)

Pick(s) == CHOOSE x \in s : TRUE

\* What the fold of a sum steps through.
IsIter(f, S, it) ==
    it = [s \in SUBSET S |-> IF s = {} THEN 0 ELSE f[Pick(s)] + it[s \ {Pick(s)}]]
Iter(f, S) == CHOOSE it : IsIter(f, S, it)

LEMMA SumUnfolds ==
    ASSUME NEW f, NEW S
    PROVE  SumFunctionOnSet(f, S) = Iter(f, S)[S]
BY DEF SumFunctionOnSet, FoldFunctionOnSet, MapThenFoldSet, Iter, IsIter, Pick

LEMMA IterExists ==
    ASSUME NEW f, NEW S, IsFiniteSet(S)
    PROVE  IsIter(f, S, Iter(f, S))
<1> DEFINE Added(g, s) == IF s = {} THEN 0 ELSE f[Pick(s)] + g[s \ {Pick(s)}]
           Upto(n, g) == \A s \in SUBSET S : Cardinality(s) <= n => g[s] = Added(g, s)
           Q == {n \in Nat : \E g : g = [s \in SUBSET S |-> g[s]] /\ Upto(n, g)}
<1>1. \A T \in SUBSET S : IsFiniteSet(T) /\ Cardinality(T) \in Nat
  BY FS_Subset, FS_CardinalityType
<1>2. \A T \in SUBSET S : T # {} => /\ Pick(T) \in T /\ T \ {Pick(T)} \in SUBSET S
                                    /\ Cardinality(T \ {Pick(T)}) = Cardinality(T) - 1
  <2> SUFFICES ASSUME NEW T \in SUBSET S, T # {}
               PROVE  /\ Pick(T) \in T /\ T \ {Pick(T)} \in SUBSET S
                      /\ Cardinality(T \ {Pick(T)}) = Cardinality(T) - 1
    OBVIOUS
  <2>1. Pick(T) \in T
    BY DEF Pick
  <2> QED
    BY <2>1, <1>1, FS_RemoveElement
<1>3. 0 \in Q
  <2> DEFINE g == [s \in SUBSET S |-> 0]
  <2>1. g = [s \in SUBSET S |-> g[s]]
    OBVIOUS
  <2>2. \A s \in SUBSET S : Cardinality(s) <= 0 => s = {}
    BY <1>1, FS_EmptySet
  <2>3. Upto(0, g)
    BY <2>2
  <2> QED
    BY <2>1, <2>3
<1>4. ASSUME NEW n \in Nat, n \in Q PROVE n + 1 \in Q
  <2>1. PICK g : g = [s \in SUBSET S |-> g[s]] /\ Upto(n, g)
    BY <1>4
  <2> DEFINE h == [s \in SUBSET S |-> IF Cardinality(s) <= n THEN g[s] ELSE Added(g, s)]
  <2>2. h = [s \in SUBSET S |-> h[s]]
    OBVIOUS
  <2>3. ASSUME NEW s \in SUBSET S, Cardinality(s) <= n + 1 PROVE h[s] = Added(h, s)
    <3>1. CASE s = {}
      <4>1. Cardinality(s) <= n
        BY <3>1, FS_EmptySet
      <4> QED
        BY <4>1, <3>1, <2>1
    <3>2. CASE s # {}
      <4>1. Cardinality(s \ {Pick(s)}) <= n /\ s \ {Pick(s)} \in SUBSET S
        BY <3>2, <1>1, <1>2, <2>3
      <4>2. h[s \ {Pick(s)}] = g[s \ {Pick(s)}]
        BY <4>1
      <4>3. h[s] = Added(g, s)
        BY <2>1
      <4> QED
        BY <3>2, <4>2, <4>3
    <3> QED
      BY <3>1, <3>2
  <2>4. Upto(n + 1, h)
    BY <2>3
  <2> HIDE DEF h, Upto
  <2> QED
    BY <2>2, <2>4
<1>5. Cardinality(S) \in Q
  <2> HIDE DEF Q
  <2> QED
    BY <1>1, <1>3, <1>4, Numbers
<1>6. PICK g : g = [s \in SUBSET S |-> g[s]] /\ Upto(Cardinality(S), g)
  BY <1>5
<1>7. \A s \in SUBSET S : Cardinality(s) <= Cardinality(S)
  BY FS_Subset
<1>8. \A s \in SUBSET S : g[s] = Added(g, s)
  BY <1>6, <1>7
<1>9. IsIter(f, S, g)
  BY <1>6, <1>8 DEF IsIter
<1> QED
  BY <1>9 DEF Iter

\* A part is summed as it is within the whole.
LEMMA IterParts ==
    ASSUME NEW f, NEW S, IsFiniteSet(S), NEW T \in SUBSET S
    PROVE  Iter(f, S)[T] = SumFunctionOnSet(f, T)
<1> DEFINE a == Iter(f, S)  b == Iter(f, T)
           P == {U \in SUBSET T : a[U] = b[U]}
           Q == {n \in Nat : \A U \in SUBSET T : Cardinality(U) = n => U \in P}
<1>1. IsFiniteSet(T) /\ \A U \in SUBSET T : IsFiniteSet(U) /\ Cardinality(U) \in Nat
  BY FS_Subset, FS_CardinalityType
<1>2. IsIter(f, S, a) /\ IsIter(f, T, b)
  BY <1>1, IterExists
<1>3. \A U \in SUBSET T :
          /\ a[U] = IF U = {} THEN 0 ELSE f[Pick(U)] + a[U \ {Pick(U)}]
          /\ b[U] = IF U = {} THEN 0 ELSE f[Pick(U)] + b[U \ {Pick(U)}]
  <2> HIDE DEF a, b
  <2> QED
    BY <1>2 DEF IsIter
<1> HIDE DEF a, b
<1>4. 0 \in Q
  BY <1>1, <1>3, FS_EmptySet
<1>5. ASSUME NEW n \in Nat, n \in Q PROVE n + 1 \in Q
  <2> SUFFICES ASSUME NEW U \in SUBSET T, Cardinality(U) = n + 1 PROVE U \in P
    OBVIOUS
  <2>1. U # {} /\ Pick(U) \in U
    BY FS_EmptySet DEF Pick
  <2>2. Cardinality(U \ {Pick(U)}) = n
    BY <2>1, <1>1, FS_RemoveElement
  <2>3. U \ {Pick(U)} \in P
    BY <2>2, <1>5
  <2> QED
    BY <2>1, <2>3, <1>3
<1>6. T \in P
  <2> HIDE DEF Q
  <2>1. \A n \in Nat : n \in Q
    BY <1>4, <1>5, Numbers
  <2> USE DEF Q
  <2>2. Cardinality(T) \in Q
    BY <1>1, <2>1
  <2> QED
    BY <2>2
<1> QED
  BY <1>6, SumUnfolds DEF a, b

\* Integers on a set.
Counts(f, S) == \A x \in S : f[x] \in Int

\* The fold takes the elements in some order.
LEMMA SumStep ==
    ASSUME NEW f, NEW S, IsFiniteSet(S)
    PROVE  SumFunctionOnSet(f, S) =
               IF S = {} THEN 0 ELSE f[Pick(S)] + SumFunctionOnSet(f, S \ {Pick(S)})
<1>1. IsIter(f, S, Iter(f, S))
  BY IterExists
<1>2. Iter(f, S)[S] = IF S = {} THEN 0 ELSE f[Pick(S)] + Iter(f, S)[S \ {Pick(S)}]
  BY <1>1 DEF IsIter
<1>3. Iter(f, S)[S \ {Pick(S)}] = SumFunctionOnSet(f, S \ {Pick(S)})
  BY IterParts
<1> QED
  BY <1>2, <1>3, SumUnfolds

LEMMA SumEmpty == ASSUME NEW f PROVE SumFunctionOnSet(f, {}) = 0
BY SumStep, FS_EmptySet

\* A sum of integers is one, and which element is taken first makes no difference.
LEMMA SumTake ==
    ASSUME NEW f, NEW S, IsFiniteSet(S), Counts(f, S)
    PROVE  /\ SumFunctionOnSet(f, S) \in Int
           /\ \A x \in S : SumFunctionOnSet(f, S) = f[x] + SumFunctionOnSet(f, S \ {x})
<1> DEFINE Good(T) == /\ SumFunctionOnSet(f, T) \in Int
                      /\ \A x \in T : SumFunctionOnSet(f, T) = f[x] + SumFunctionOnSet(f, T \ {x})
           Q == {n \in Nat : \A T \in SUBSET S : Cardinality(T) <= n => Good(T)}
<1>1. \A T \in SUBSET S : IsFiniteSet(T) /\ Cardinality(T) \in Nat
  BY FS_Subset, FS_CardinalityType
<1>2. 0 \in Q
  <2> SUFFICES ASSUME NEW T \in SUBSET S, Cardinality(T) <= 0 PROVE Good(T)
    OBVIOUS
  <2>1. T = {}
    BY <1>1, FS_EmptySet
  <2> QED
    BY <2>1, SumEmpty
<1>3. ASSUME NEW n \in Nat, n \in Q PROVE n + 1 \in Q
  <2> SUFFICES ASSUME NEW T \in SUBSET S, Cardinality(T) <= n + 1 PROVE Good(T)
    OBVIOUS
  <2>1. \A U \in SUBSET S : Cardinality(U) <= n => Good(U)
    BY <1>3
  <2>2. CASE T = {}
    BY <2>2, SumEmpty
  <2>3. CASE T # {}
    <3> DEFINE c == Pick(T)
    <3>1. c \in T /\ c \in S
      BY <2>3 DEF Pick
    <3>2. SumFunctionOnSet(f, T) = f[c] + SumFunctionOnSet(f, T \ {c})
      BY <1>1, <2>3, SumStep
    <3> HIDE DEF c
    <3>3. \A x \in T : T \ {x} \in SUBSET S /\ Cardinality(T \ {x}) <= n
      BY <1>1, FS_RemoveElement
    <3> HIDE DEF Good
    <3>4. \A x \in T : Good(T \ {x})
      BY <2>1, <3>3
    <3> USE DEF Good
    <3>5. \A x \in T : SumFunctionOnSet(f, T \ {x}) \in Int
      BY <3>4
    <3>6. f[c] \in Int /\ SumFunctionOnSet(f, T) \in Int
      BY <3>1, <3>2, <3>5 DEF Counts
    <3>7. ASSUME NEW x \in T, x # c
          PROVE  SumFunctionOnSet(f, T) = f[x] + SumFunctionOnSet(f, T \ {x})
      <4>1. x \in T \ {c} /\ c \in T \ {x} /\ (T \ {c}) \ {x} = (T \ {x}) \ {c}
        BY <3>1, <3>7
      <4>2. SumFunctionOnSet(f, T \ {c}) = f[x] + SumFunctionOnSet(f, (T \ {c}) \ {x})
        BY <4>1, <3>1, <3>4
      <4>3. SumFunctionOnSet(f, T \ {x}) = f[c] + SumFunctionOnSet(f, (T \ {x}) \ {c})
        BY <4>1, <3>4
      <4>4. SumFunctionOnSet(f, (T \ {x}) \ {c}) \in Int
        <5>1. (T \ {x}) \ {c} \in SUBSET S /\ Cardinality((T \ {x}) \ {c}) <= n
          <6>1. IsFiniteSet(T \ {x}) /\ Cardinality(T \ {x}) \in Nat /\ Cardinality(T \ {x}) <= n
            BY <1>1, <3>3
          <6>2. Cardinality((T \ {x}) \ {c}) = Cardinality(T \ {x}) - 1
            BY <6>1, <4>1, FS_RemoveElement
          <6> QED
            BY <6>1, <6>2
        <5> HIDE DEF Good
        <5>2. Good((T \ {x}) \ {c})
          BY <5>1, <2>1
        <5> QED
          BY <5>2 DEF Good
      <4>5. f[x] \in Int
        BY DEF Counts
      <4> QED
        <5> DEFINE rest == SumFunctionOnSet(f, (T \ {x}) \ {c})
        <5>1. SumFunctionOnSet(f, T) = f[c] + (f[x] + rest)
          BY <3>2, <4>1, <4>2
        <5>2. SumFunctionOnSet(f, T \ {x}) = f[c] + rest
          BY <4>3
        <5>3. rest \in Int
          BY <4>4
        <5> HIDE DEF rest
        <5> QED
          BY <5>1, <5>2, <5>3, <3>6, <4>5
    <3> QED
      BY <3>2, <3>6, <3>7
  <2> QED
    BY <2>2, <2>3
<1>4. Good(S)
  <2> HIDE DEF Q, Good
  <2>1. \A n \in Nat : n \in Q
    BY <1>2, <1>3, Numbers
  <2>2. Cardinality(S) \in Q
    BY <1>1, <2>1
  <2> QED
    BY <2>2, <1>1 DEF Q
<1> QED
  BY <1>4

LEMMA SumAdd ==
    ASSUME NEW f, NEW S, IsFiniteSet(S), Counts(f, S), NEW x, x \notin S, f[x] \in Int
    PROVE  /\ SumFunctionOnSet(f, S) \in Int
           /\ SumFunctionOnSet(f, S \cup {x}) = f[x] + SumFunctionOnSet(f, S)
<1>1. IsFiniteSet(S \cup {x}) /\ Counts(f, S \cup {x}) /\ (S \cup {x}) \ {x} = S
  BY FS_AddElement DEF Counts
<1>2. SumFunctionOnSet(f, S \cup {x}) = f[x] + SumFunctionOnSet(f, (S \cup {x}) \ {x})
  BY <1>1, SumTake
<1> QED
  BY <1>1, <1>2, SumTake

LEMMA SumSame ==
    ASSUME NEW f, NEW g, NEW S, IsFiniteSet(S), Counts(f, S), \A x \in S : f[x] = g[x]
    PROVE  SumFunctionOnSet(f, S) = SumFunctionOnSet(g, S)
<1> DEFINE P == {T \in SUBSET S : SumFunctionOnSet(f, T) = SumFunctionOnSet(g, T)}
<1>1. {} \in P
  BY SumEmpty
<1>2. ASSUME NEW T \in SUBSET S, NEW x \in S \ T, T \in P PROVE T \cup {x} \in P
  <2>1. IsFiniteSet(T) /\ Counts(f, T) /\ Counts(g, T) /\ f[x] = g[x] /\ f[x] \in Int
    BY FS_Subset DEF Counts
  <2>2. SumFunctionOnSet(f, T \cup {x}) = f[x] + SumFunctionOnSet(f, T)
    BY <2>1, SumAdd
  <2>3. SumFunctionOnSet(g, T \cup {x}) = g[x] + SumFunctionOnSet(g, T)
    BY <2>1, SumAdd
  <2> QED
    BY <1>2, <2>1, <2>2, <2>3
<1>3. S \in P
  <2> HIDE DEF P
  <2> QED
    BY <1>1, <1>2, Subsets
<1> QED
  BY <1>3

\* Of numbers, a number; of zeros, zero.
LEMMA SumOfNumbers ==
    ASSUME NEW f, NEW S, IsFiniteSet(S), \A x \in S : f[x] \in Nat
    PROVE  /\ SumFunctionOnSet(f, S) \in Nat
           /\ (\A x \in S : f[x] = 0) => SumFunctionOnSet(f, S) = 0
<1> DEFINE P == {T \in SUBSET S : SumFunctionOnSet(f, T) \in Nat}
           Z == {T \in SUBSET S : SumFunctionOnSet(f, T) = 0}
<1>1. {} \in P /\ {} \in Z
  BY SumEmpty
<1>2. ASSUME NEW T \in SUBSET S, NEW x \in S \ T
      PROVE  SumFunctionOnSet(f, T \cup {x}) = f[x] + SumFunctionOnSet(f, T)
  <2>1. IsFiniteSet(T) /\ Counts(f, T) /\ f[x] \in Int
    BY FS_Subset DEF Counts
  <2> QED
    BY <2>1, SumAdd
<1>3. \A T \in SUBSET S : \A x \in S \ T : T \in P => T \cup {x} \in P
  BY <1>2
<1>4. ASSUME \A x \in S : f[x] = 0
      PROVE  \A T \in SUBSET S : \A x \in S \ T : T \in Z => T \cup {x} \in Z
  BY <1>2, <1>4
<1> HIDE DEF P, Z
<1>5. S \in P
  BY <1>1, <1>3, Subsets
<1>6. (\A x \in S : f[x] = 0) => S \in Z
  BY <1>1, <1>4, Subsets
<1> QED
  BY <1>5, <1>6 DEF P, Z

\* Less everywhere is less together.
LEMMA SumLess ==
    ASSUME NEW f, NEW g, NEW S, IsFiniteSet(S), Counts(f, S), Counts(g, S), \A x \in S : f[x] <= g[x]
    PROVE  SumFunctionOnSet(f, S) <= SumFunctionOnSet(g, S)
<1> DEFINE P == {T \in SUBSET S : SumFunctionOnSet(f, T) <= SumFunctionOnSet(g, T)}
<1>1. {} \in P
  BY SumEmpty
<1>2. ASSUME NEW T \in SUBSET S, NEW x \in S \ T, T \in P PROVE T \cup {x} \in P
  <2>1. IsFiniteSet(T) /\ Counts(f, T) /\ Counts(g, T) /\ f[x] \in Int /\ g[x] \in Int /\ f[x] <= g[x]
    BY FS_Subset DEF Counts
  <2>2. SumFunctionOnSet(f, T) \in Int /\ SumFunctionOnSet(f, T \cup {x}) = f[x] + SumFunctionOnSet(f, T)
    BY <2>1, SumAdd
  <2>3. SumFunctionOnSet(g, T) \in Int /\ SumFunctionOnSet(g, T \cup {x}) = g[x] + SumFunctionOnSet(g, T)
    BY <2>1, SumAdd
  <2>4. SumFunctionOnSet(f, T) <= SumFunctionOnSet(g, T)
    BY <1>2
  <2>5. SumFunctionOnSet(f, T \cup {x}) <= SumFunctionOnSet(g, T \cup {x})
    BY <2>1, <2>2, <2>3, <2>4
  <2> QED
    BY <2>5
<1>3. S \in P
  <2> HIDE DEF P
  <2> QED
    BY <1>1, <1>2, Subsets
<1> QED
  BY <1>3

\* The sums of the groups add up to the whole.
LEMMA SumGroups ==
    ASSUME NEW f, NEW S, IsFiniteSet(S), Counts(f, S), NEW K, IsFiniteSet(K),
           NEW key, \A x \in S : key[x] \in K, NEW part, \A k \in K : part[k] \in SUBSET S,
           \A k \in K : \A x \in S : x \in part[k] <=> key[x] = k,
           NEW g, \A k \in K : g[k] = SumFunctionOnSet(f, part[k])
    PROVE  /\ SumFunctionOnSet(g, K) = SumFunctionOnSet(f, S)
           /\ Counts(g, K)
<1> DEFINE Of(T, k) == {x \in T : key[x] = k}
           G(T) == [k \in K |-> SumFunctionOnSet(f, Of(T, k))]
           P == {T \in SUBSET S : SumFunctionOnSet(G(T), K) = SumFunctionOnSet(f, T)}
<1>1. ASSUME NEW T \in SUBSET S
      PROVE  IsFiniteSet(T) /\ Counts(f, T) /\ Counts(G(T), K)
  <2>1. IsFiniteSet(T) /\ Counts(f, T)
    BY FS_Subset DEF Counts
  <2>2. ASSUME NEW k \in K PROVE SumFunctionOnSet(f, Of(T, k)) \in Int
    <3>1. IsFiniteSet(Of(T, k))
      BY <2>1, FS_Subset
    <3>2. Counts(f, Of(T, k))
      BY <2>1 DEF Counts
    <3> HIDE DEF Of
    <3> QED
      BY <3>1, <3>2, SumTake
  <2> HIDE DEF Of
  <2> QED
    BY <2>1, <2>2 DEF Counts
<1>2. {} \in P
  <2>1. \A k \in K : Of({}, k) = {}
    OBVIOUS
  <2> HIDE DEF Of
  <2>2. \A k \in K : G({})[k] = 0
    BY <2>1, SumEmpty
  <2> HIDE DEF G
  <2>3. SumFunctionOnSet(G({}), K) = 0
    BY <2>2, SumOfNumbers
  <2> QED
    BY <2>3, SumEmpty
<1>3. ASSUME NEW T \in SUBSET S, NEW x \in S \ T, T \in P PROVE T \cup {x} \in P
  <2> DEFINE c == key[x]  U == T \cup {x}
  <2>1. c \in K /\ U \in SUBSET S /\ f[x] \in Int /\ x \notin T
    BY DEF Counts
  <2>2. Of(U, c) = Of(T, c) \cup {x} /\ x \notin Of(T, c) /\ IsFiniteSet(Of(T, c)) /\ Counts(f, Of(T, c))
    <3>1. Of(T, c) \in SUBSET T
      OBVIOUS
    <3>2. IsFiniteSet(Of(T, c)) /\ Counts(f, Of(T, c))
      BY <1>1, <3>1, FS_Subset DEF Counts
    <3> QED
      BY <3>2
  <2>3. \A k \in K \ {c} : Of(U, k) = Of(T, k)
    OBVIOUS
  <2> HIDE DEF Of, U, c
  <2>4. G(U)[c] = f[x] + G(T)[c]
    BY <2>1, <2>2, SumAdd
  <2>5. \A k \in K \ {c} : G(U)[k] = G(T)[k]
    BY <2>3
  <2>6. Counts(G(U), K) /\ Counts(G(T), K) /\ IsFiniteSet(K \ {c}) /\ Counts(G(U), K \ {c})
    <3>1. Counts(G(U), K)
      BY <1>1, <2>1
    <3>2. Counts(G(T), K)
      BY <1>1
    <3>3. IsFiniteSet(K \ {c})
      BY FS_RemoveElement
    <3> HIDE DEF G
    <3> QED
      BY <3>1, <3>2, <3>3 DEF Counts
  <2> DEFINE gu == G(U)  gt == G(T)
  <2>7. Counts(gu, K) /\ Counts(gt, K) /\ gu[c] = f[x] + gt[c] /\ \A k \in K \ {c} : gu[k] = gt[k]
    BY <2>4, <2>5, <2>6
  <2> HIDE DEF G, gu, gt
  <2>8. SumFunctionOnSet(gu, K) = gu[c] + SumFunctionOnSet(gu, K \ {c})
    BY <2>1, <2>7, SumTake
  <2>9. SumFunctionOnSet(gt, K) = gt[c] + SumFunctionOnSet(gt, K \ {c})
    BY <2>1, <2>7, SumTake
  <2>10. Counts(gt, K \ {c}) /\ Counts(gu, K \ {c})
    BY <2>7 DEF Counts
  <2>11. SumFunctionOnSet(gu, K \ {c}) = SumFunctionOnSet(gt, K \ {c})
    BY <2>6, <2>7, <2>10, SumSame
  <2>12. SumFunctionOnSet(f, U) = f[x] + SumFunctionOnSet(f, T)
    BY <1>1, <2>1, SumAdd DEF U
  <2>13. SumFunctionOnSet(gt, K) = SumFunctionOnSet(f, T)
    BY <1>3 DEF gt
  <2>14. SumFunctionOnSet(gt, K \ {c}) \in Int /\ gt[c] \in Int
    BY <2>1, <2>6, <2>7, <2>10, SumTake DEF Counts
  <2>15. SumFunctionOnSet(gu, K) = SumFunctionOnSet(f, U)
    BY <2>1, <2>7, <2>8, <2>9, <2>11, <2>12, <2>13, <2>14
  <2> QED
    BY <2>1, <2>15 DEF U, gu
<1>4. S \in P
  <2> HIDE DEF P
  <2> QED
    BY <1>2, <1>3, Subsets
<1>5. \A k \in K : g[k] = G(S)[k]
  <2> TAKE k \in K
  <2>1. part[k] = Of(S, k)
    OBVIOUS
  <2> HIDE DEF Of
  <2> QED
    BY <2>1
<1>6. Counts(G(S), K)
  BY <1>1
<1>7. SumFunctionOnSet(G(S), K) = SumFunctionOnSet(f, S)
  BY <1>4
<1> HIDE DEF G
<1> QED
  BY <1>5, <1>6, <1>7, SumSame DEF Counts

\* The same of parts that are told apart in any way.
LEMMA SumParts ==
    ASSUME NEW f, NEW S, IsFiniteSet(S), Counts(f, S), NEW K, IsFiniteSet(K),
           NEW part, \A k \in K : part[k] \in SUBSET S, \A x \in S : \E k \in K : x \in part[k],
           \A k, l \in K : \A x \in S : x \in part[k] /\ x \in part[l] => k = l,
           NEW g, \A k \in K : g[k] = SumFunctionOnSet(f, part[k])
    PROVE  /\ SumFunctionOnSet(g, K) = SumFunctionOnSet(f, S)
           /\ Counts(g, K)
<1> DEFINE key == [x \in S |-> CHOOSE k \in K : x \in part[k]]
<1>1. \A x \in S : key[x] \in K /\ x \in part[key[x]]
  OBVIOUS
<1> HIDE DEF key
<1>2. \A k \in K : \A x \in S : x \in part[k] <=> key[x] = k
  BY <1>1
<1>3. \A x \in S : key[x] \in K
  BY <1>1
<1> QED
  BY <1>2, <1>3, SumGroups

\* Summing over other names of the same.
LEMMA SumRenamed ==
    ASSUME NEW f, NEW S, IsFiniteSet(S), Counts(f, S), NEW K, IsFiniteSet(K), NEW name, NEW g,
           \A x \in S : name[x] \in K, \A x \in S : g[name[x]] = f[x],
           \A x, y \in S : name[x] = name[y] => x = y,
           \A k \in K : (\E x \in S : name[x] = k) \/ g[k] = 0
    PROVE  /\ SumFunctionOnSet(g, K) = SumFunctionOnSet(f, S)
           /\ Counts(g, K)
<1> DEFINE part == [k \in K |-> {x \in S : name[x] = k}]
<1>1. \A k \in K : part[k] \in SUBSET S /\ \A x \in S : x \in part[k] <=> name[x] = k
  OBVIOUS
<1> HIDE DEF part
<1>2. \A k \in K : g[k] = SumFunctionOnSet(f, part[k])
  <2> TAKE k \in K
  <2>1. CASE \E x \in S : name[x] = k
    <3>1. PICK x \in S : name[x] = k
      BY <2>1
    <3>2. part[k] = {} \cup {x}
      BY <1>1, <3>1
    <3>3. f[x] \in Int /\ IsFiniteSet({}) /\ Counts(f, {}) /\ SumFunctionOnSet(f, {}) = 0
      BY SumEmpty, FS_EmptySet DEF Counts
    <3>4. SumFunctionOnSet(f, {} \cup {x}) = f[x] + SumFunctionOnSet(f, {})
      BY <3>3, SumAdd
    <3>5. g[k] = f[x]
      BY <3>1
    <3> QED
      BY <3>2, <3>3, <3>4, <3>5
  <2>2. CASE ~\E x \in S : name[x] = k
    <3>1. part[k] = {}
      BY <1>1, <2>2
    <3> QED
      BY <2>2, <3>1, SumEmpty
  <2> QED
    BY <2>1, <2>2
<1>3. /\ \A k \in K : part[k] \in SUBSET S
      /\ \A x \in S : \E k \in K : x \in part[k]
      /\ \A k, l \in K : \A x \in S : x \in part[k] /\ x \in part[l] => k = l
  BY <1>1
<1> QED
  BY <1>2, <1>3, SumParts

\* What is zero elsewhere.
LEMMA SumWithin ==
    ASSUME NEW f, NEW S, IsFiniteSet(S), NEW T \in SUBSET S, Counts(f, T), \A x \in S \ T : f[x] = 0
    PROVE  /\ SumFunctionOnSet(f, S) = SumFunctionOnSet(f, T)
           /\ Counts(f, S)
<1> DEFINE name == [x \in T |-> x]
<1>1. IsFiniteSet(T)
  BY FS_Subset
<1>2. /\ \A x \in T : name[x] \in S /\ f[name[x]] = f[x]
      /\ \A x, y \in T : name[x] = name[y] => x = y
      /\ \A k \in S : (\E x \in T : name[x] = k) \/ f[k] = 0
  OBVIOUS
<1> HIDE DEF name
<1> QED
  BY <1>1, <1>2, SumRenamed

\* Values that are each one picked from S, or nothing, are together no more
\* than S's, and as much if all are picked.
LEMMA SumPicked ==
    ASSUME NEW f, NEW S, IsFiniteSet(S), \A x \in S : f[x] \in Nat,
           NEW R, IsFiniteSet(R), NEW g, NEW name,
           \A r \in R : g[r] = 0 \/ (name[r] \in S /\ g[r] = f[name[r]]),
           \A r, q \in R : g[r] # 0 /\ g[q] # 0 /\ name[r] = name[q] => r = q
    PROVE  /\ SumFunctionOnSet(g, R) <= SumFunctionOnSet(f, S)
           /\ (\A x \in S : \E r \in R : g[r] # 0 /\ name[r] = x) =>
                  SumFunctionOnSet(g, R) = SumFunctionOnSet(f, S)
<1> DEFINE Q == {r \in R : g[r] # 0}
           picked == {x \in S : \E r \in Q : name[r] = x}
           h == [x \in S |-> IF x \in picked THEN f[x] ELSE 0]
<1>1. Q \in SUBSET R /\ IsFiniteSet(Q) /\ Counts(g, Q) /\ \A r \in R \ Q : g[r] = 0
  BY FS_Subset DEF Counts
<1>2. \A r \in Q : name[r] \in S /\ h[name[r]] = g[r]
  OBVIOUS
<1>3. \A r, q \in Q : name[r] = name[q] => r = q
  OBVIOUS
<1>4. \A x \in S : (\E r \in Q : name[r] = x) \/ h[x] = 0
  OBVIOUS
<1>5. Counts(h, S) /\ Counts(f, S) /\ \A x \in S : h[x] <= f[x]
  BY DEF Counts
<1>6. (\A x \in S : \E r \in R : g[r] # 0 /\ name[r] = x) => \A x \in S : h[x] = f[x]
  OBVIOUS
<1> HIDE DEF h, Q
<1>7. SumFunctionOnSet(g, R) = SumFunctionOnSet(g, Q)
  BY <1>1, SumWithin
<1>8. SumFunctionOnSet(h, S) = SumFunctionOnSet(g, Q)
  BY <1>1, <1>2, <1>3, <1>4, SumRenamed
<1>9. SumFunctionOnSet(h, S) <= SumFunctionOnSet(f, S)
  BY <1>5, SumLess
<1>10. (\A x \in S : h[x] = f[x]) => SumFunctionOnSet(h, S) = SumFunctionOnSet(f, S)
  BY <1>5, SumSame
<1> QED
  BY <1>6, <1>7, <1>8, <1>9, <1>10

\* A table of integers by rows and by columns, with the sums of either.
IsTableau(A, B, f, g) == \A a \in A, b \in B : f[a][b] \in Int /\ g[b][a] = f[a][b]
AreSums(A, B, f, p) == \A a \in A : p[a] = SumFunctionOnSet(f[a], B)

\* Both add up to the same.
LEMMA SumSwaps ==
    ASSUME NEW A, IsFiniteSet(A), NEW B, IsFiniteSet(B), NEW f, NEW g, IsTableau(A, B, f, g),
           NEW p, AreSums(A, B, f, p), NEW q, AreSums(B, A, g, q)
    PROVE  /\ SumFunctionOnSet(p, A) = SumFunctionOnSet(q, B)
           /\ Counts(p, A) /\ Counts(q, B)
<1> DEFINE AB == A \X B
           h == [ab \in AB |-> f[ab[1]][ab[2]]]
           left == [ab \in AB |-> ab[1]]  right == [ab \in AB |-> ab[2]]
<1>1. IsFiniteSet(AB)
  BY FS_Product
<1>2. /\ Counts(h, AB)
      /\ \A ab \in AB : /\ left[ab] \in A /\ right[ab] \in B
                        /\ h[ab] = f[left[ab]][right[ab]] /\ h[ab] = g[right[ab]][left[ab]]
  BY DEF Counts, IsTableau
<1>3. \A x, y \in AB : left[x] = left[y] /\ right[x] = right[y] => x = y
  OBVIOUS
<1>4. \A a \in A : \A b \in B : \E ab \in AB : left[ab] = a /\ right[ab] = b
  <2>1. \A a \in A : \A b \in B : <<a, b>> \in AB /\ left[<<a, b>>] = a /\ right[<<a, b>>] = b
    OBVIOUS
  <2> HIDE DEF left, right, AB
  <2> QED
    BY <2>1
<1> HIDE DEF left, right, h, AB
<1>5. /\ SumFunctionOnSet(p, A) = SumFunctionOnSet(h, AB)
      /\ Counts(p, A)
  <2> DEFINE part == [a \in A |-> {ab \in AB : left[ab] = a}]
  <2>1. \A a \in A : part[a] \in SUBSET AB /\ \A ab \in AB : ab \in part[a] <=> left[ab] = a
    OBVIOUS
  <2> HIDE DEF part
  <2>2. \A a \in A : p[a] = SumFunctionOnSet(h, part[a])
    <3> TAKE a \in A
    <3> DEFINE S == part[a]  fa == f[a]
    <3>1. IsFiniteSet(S) /\ Counts(h, S)
      BY <1>1, <1>2, <2>1, FS_Subset DEF Counts
    <3>2. \A x \in S : right[x] \in B
      BY <1>2, <2>1
    <3>3. \A x \in S : fa[right[x]] = h[x]
      BY <1>2, <2>1
    <3>4. \A x, y \in S : right[x] = right[y] => x = y
      BY <1>3, <2>1
    <3>5. \A b \in B : (\E x \in S : right[x] = b) \/ fa[b] = 0
      BY <1>4, <2>1
    <3>6. p[a] = SumFunctionOnSet(fa, B)
      BY DEF AreSums
    <3> HIDE DEF S, fa
    <3>7. SumFunctionOnSet(fa, B) = SumFunctionOnSet(h, S)
      BY <3>1, <3>2, <3>3, <3>4, <3>5, SumRenamed
    <3> QED
      BY <3>6, <3>7 DEF S
  <2>3. /\ \A a \in A : part[a] \in SUBSET AB
        /\ \A x \in AB : \E a \in A : x \in part[a]
        /\ \A k, l \in A : \A x \in AB : x \in part[k] /\ x \in part[l] => k = l
    BY <1>2, <2>1
  <2>4. Counts(h, AB)
    BY <1>2
  <2> QED
    BY <1>1, <2>2, <2>3, <2>4, SumParts
<1>6. /\ SumFunctionOnSet(q, B) = SumFunctionOnSet(h, AB)
      /\ Counts(q, B)
  <2> DEFINE part == [b \in B |-> {ab \in AB : right[ab] = b}]
  <2>1. \A b \in B : part[b] \in SUBSET AB /\ \A ab \in AB : ab \in part[b] <=> right[ab] = b
    OBVIOUS
  <2> HIDE DEF part
  <2>2. \A b \in B : q[b] = SumFunctionOnSet(h, part[b])
    <3> TAKE b \in B
    <3> DEFINE S == part[b]  gb == g[b]
    <3>1. IsFiniteSet(S) /\ Counts(h, S)
      BY <1>1, <1>2, <2>1, FS_Subset DEF Counts
    <3>2. \A x \in S : left[x] \in A
      BY <1>2, <2>1
    <3>3. \A x \in S : gb[left[x]] = h[x]
      BY <1>2, <2>1
    <3>4. \A x, y \in S : left[x] = left[y] => x = y
      BY <1>3, <2>1
    <3>5. \A a \in A : (\E x \in S : left[x] = a) \/ gb[a] = 0
      BY <1>4, <2>1
    <3>6. q[b] = SumFunctionOnSet(gb, A)
      BY DEF AreSums
    <3> HIDE DEF S, gb
    <3>7. SumFunctionOnSet(gb, A) = SumFunctionOnSet(h, S)
      BY <3>1, <3>2, <3>3, <3>4, <3>5, SumRenamed
    <3> QED
      BY <3>6, <3>7 DEF S
  <2>3. /\ \A b \in B : part[b] \in SUBSET AB
        /\ \A x \in AB : \E b \in B : x \in part[b]
        /\ \A k, l \in B : \A x \in AB : x \in part[k] /\ x \in part[l] => k = l
    BY <1>2, <2>1
  <2>4. Counts(h, AB)
    BY <1>2
  <2> QED
    BY <1>1, <2>2, <2>3, <2>4, SumParts
<1> QED
  BY <1>5, <1>6

\* As many elements as ones.
LEMMA SumCounts ==
    ASSUME NEW S, IsFiniteSet(S), NEW f, \A x \in S : f[x] = 1
    PROVE  SumFunctionOnSet(f, S) = Cardinality(S)
<1> DEFINE P == {T \in SUBSET S : SumFunctionOnSet(f, T) = Cardinality(T)}
<1>1. {} \in P
  BY SumEmpty, FS_EmptySet
<1>2. ASSUME NEW T \in SUBSET S, NEW x \in S \ T, T \in P PROVE T \cup {x} \in P
  <2>1. IsFiniteSet(T) /\ Counts(f, T) /\ f[x] = 1
    BY FS_Subset DEF Counts
  <2>2. SumFunctionOnSet(f, T \cup {x}) = f[x] + SumFunctionOnSet(f, T)
    BY <2>1, SumAdd
  <2>3. Cardinality(T \cup {x}) = Cardinality(T) + 1 /\ Cardinality(T) \in Nat
    BY <2>1, FS_AddElement, FS_CardinalityType
  <2> QED
    BY <1>2, <2>1, <2>2, <2>3
<1>3. S \in P
  <2> HIDE DEF P
  <2> QED
    BY <1>1, <1>2, Subsets
<1> QED
  BY <1>3

\* What a finite set is mapped to is finite.
LEMMA Images ==
    ASSUME NEW S, IsFiniteSet(S), NEW f, NEW T, \A y \in T : \E x \in S : f[x] = y
    PROVE  IsFiniteSet(T)
<1> DEFINE U == {f[x] : x \in S}  h == [x \in S |-> f[x]]
<1>1. h \in Surjection(S, U)
  BY DEF Surjection
<1>2. T \in SUBSET U
  OBVIOUS
<1> HIDE DEF h, U
<1> QED
  BY <1>1, <1>2, FS_Surjection, FS_Subset

-----------------------------------------------------------------------------
(* Rows that say something of the parts of a whole.                         *)

\* K's parts of S: each element is in one.
IsPartition(S, K, part) ==
    /\ \A k \in K : part[k] \in SUBSET S
    /\ \A x \in S : \E k \in K : x \in part[k]
    /\ \A k, l \in K : \A x \in S : x \in part[k] /\ x \in part[l] => k = l

\* Rows, one for each part at most: what they say of the parts adds up to the
\* whole when the parts without a row amount to nothing.
LEMMA SumRows ==
    ASSUME NEW f, NEW S, IsFiniteSet(S), Counts(f, S), NEW K, IsFiniteSet(K),
           NEW part, IsPartition(S, K, part),
           NEW R, IsFiniteSet(R), NEW key, \A r \in R : key[r] \in K,
           \A r, q \in R : key[r] = key[q] => r = q,
           NEW v, \A r \in R : v[r] = SumFunctionOnSet(f, part[key[r]]),
           \A k \in K : (\E r \in R : key[r] = k) \/ SumFunctionOnSet(f, part[k]) = 0
    PROVE  /\ SumFunctionOnSet(v, R) = SumFunctionOnSet(f, S)
           /\ Counts(v, R)
<1> DEFINE g == [k \in K |-> SumFunctionOnSet(f, part[k])]
<1>1. \A k \in K : g[k] = SumFunctionOnSet(f, part[k])
  OBVIOUS
<1> HIDE DEF g
<1>2. SumFunctionOnSet(g, K) = SumFunctionOnSet(f, S) /\ Counts(g, K)
  <2>1. /\ \A k \in K : part[k] \in SUBSET S
        /\ \A x \in S : \E k \in K : x \in part[k]
        /\ \A k, l \in K : \A x \in S : x \in part[k] /\ x \in part[l] => k = l
    BY DEF IsPartition
  <2> QED
    BY <1>1, <2>1, SumParts
<1>3. \A r \in R : g[key[r]] = v[r]
  BY <1>1
<1>4. Counts(v, R)
  BY <1>2, <1>3 DEF Counts
<1>5. \A k \in K : (\E r \in R : key[r] = k) \/ g[k] = 0
  BY <1>1
<1>6. SumFunctionOnSet(g, K) = SumFunctionOnSet(v, R)
  BY <1>3, <1>4, <1>5, SumRenamed
<1> QED
  BY <1>2, <1>4, <1>6

\* A sum of the model, over a function.
LEMMA SumIs == ASSUME NEW f PROVE SumFunction(f) = SumFunctionOnSet(f, DOMAIN f)
BY DEF SumFunction

-----------------------------------------------------------------------------
(* Buckets.                                                                 *)

IsBuckets(B) ==
    /\ IsFiniteSet(B)
    /\ \A b \in B : b.requests \in Nat /\ b.cost \in Int /\ \A kind \in Kinds : b.tokens[kind] \in Nat

TokensIn(B) == [b \in B |-> TokensOf(b)]
RequestsIn(B) == [b \in B |-> b.requests]
AmountIn(B) == [b \in B |-> b.cost]

LEMMA KindsFinite == IsFiniteSet(Kinds)
<1>1. Kinds = {"input"} \cup {"cacheRead"} \cup {"output"} \cup {"cacheWrite"} \cup {"cacheWrite1h"}
  BY DEF Kinds
<1> QED
  BY <1>1, FS_Singleton, FS_Union

LEMMA BucketFacts ==
    ASSUME NEW B, IsBuckets(B)
    PROVE  /\ \A b \in B : TokensIn(B)[b] \in Nat
           /\ Counts(TokensIn(B), B) /\ Counts(RequestsIn(B), B) /\ Counts(AmountIn(B), B)
<1>1. ASSUME NEW b \in B PROVE TokensOf(b) \in Nat
  <2> DEFINE t == [kind \in Kinds |-> b.tokens[kind]]
  <2>1. \A kind \in Kinds : t[kind] \in Nat
    BY DEF IsBuckets
  <2>2. TokensOf(b) = SumFunctionOnSet(t, Kinds)
    BY SumIs DEF TokensOf, Sum
  <2> HIDE DEF t
  <2> QED
    BY <2>1, <2>2, KindsFinite, SumOfNumbers
<1> QED
  BY <1>1 DEF IsBuckets, TokensIn, RequestsIn, AmountIn, Counts

LEMMA PartSums ==
    ASSUME NEW B, IsBuckets(B), NEW C \in SUBSET B
    PROVE  /\ IsBuckets(C)
           /\ Tokens(C) = SumFunctionOnSet(TokensIn(B), C)
           /\ Requests(C) = SumFunctionOnSet(RequestsIn(B), C)
           /\ Amount(C) = SumFunctionOnSet(AmountIn(B), C)
<1>1. IsBuckets(C) /\ IsFiniteSet(C)
  BY FS_Subset DEF IsBuckets
<1>2. /\ Tokens(C) = SumFunctionOnSet(TokensIn(C), C)
      /\ Requests(C) = SumFunctionOnSet(RequestsIn(C), C)
      /\ Amount(C) = SumFunctionOnSet(AmountIn(C), C)
  BY SumIs DEF Tokens, Requests, Amount, Sum, TokensIn, RequestsIn, AmountIn
<1>3. Counts(TokensIn(C), C) /\ Counts(RequestsIn(C), C) /\ Counts(AmountIn(C), C)
  BY <1>1, BucketFacts
<1>4. \A b \in C : /\ TokensIn(C)[b] = TokensIn(B)[b] /\ RequestsIn(C)[b] = RequestsIn(B)[b]
                   /\ AmountIn(C)[b] = AmountIn(B)[b]
  BY DEF TokensIn, RequestsIn, AmountIn
<1> QED
  BY <1>1, <1>2, <1>3, <1>4, SumSame

\* A filter or a window leaves buckets.
LEMMA SelectedFacts ==
    ASSUME NEW V, IsBuckets(V), NEW w, NEW filter
    PROVE  IsBuckets(Selected(V, w, filter))
BY PartSums DEF Selected

\* The aggregates' rows.
IsRequest(r) ==
    /\ r.at \in Int /\ r.type \in {0, 1} /\ r.cost \in Int
    /\ \A kind \in Kinds : r.tokens[kind] \in Nat \cup {NullNumber}

LEMMA ViewFacts ==
    ASSUME NEW S, IsFiniteSet(S), \A r \in S : IsRequest(r)
    PROVE  IsBuckets(RequestOverviewBucketed(S)) /\ \A b \in RequestOverviewBucketed(S) : b.at \in Int
<1> DEFINE T == {r \in S : r.type = 1}
           Key(r) == <<TenMinutes(r.at), r.dims, OrEmpty(r.currency)>>
           keys == {Key(r) : r \in T}
           Of(k) == {r \in T : Key(r) = k}
           Row(k) == [at |-> k[1], dims |-> k[2], currency |-> k[3], requests |-> Cardinality(Of(k)),
                      cost |-> Sum(LAMBDA r : OrZero(r.cost), Of(k)),
                      tokens |-> [kind \in Kinds |-> Sum(LAMBDA r : OrZero(r.tokens[kind]), Of(k))]]
<1>1. RequestOverviewBucketed(S) = {Row(k) : k \in keys}
  BY DEF RequestOverviewBucketed, GroupBy
<1>2. IsFiniteSet(T) /\ IsFiniteSet(keys)
  <2>1. IsFiniteSet(T)
    BY FS_Subset
  <2> DEFINE f == [r \in T |-> Key(r)]
  <2>2. \A k \in keys : \E r \in T : f[r] = k
    OBVIOUS
  <2> HIDE DEF T, keys, f
  <2> QED
    BY <2>1, <2>2, Images
<1>3. ASSUME NEW k \in keys
      PROVE  /\ Cardinality(Of(k)) \in Nat
             /\ Sum(LAMBDA r : OrZero(r.cost), Of(k)) \in Int
             /\ \A kind \in Kinds : Sum(LAMBDA r : OrZero(r.tokens[kind]), Of(k)) \in Nat
  <2> DEFINE R == Of(k)
  <2>1. IsFiniteSet(R) /\ R \subseteq S
    BY <1>2, FS_Subset
  <2> HIDE DEF R
  <2>2. Cardinality(R) \in Nat
    BY <2>1, FS_CardinalityType
  <2>3. Sum(LAMBDA r : OrZero(r.cost), R) \in Int
    <3> DEFINE c == [r \in R |-> OrZero(r.cost)]
    <3>1. Counts(c, R)
      BY <2>1 DEF Counts, OrZero, IsRequest
    <3>2. Sum(LAMBDA r : OrZero(r.cost), R) = SumFunctionOnSet(c, R)
      BY SumIs DEF Sum
    <3> HIDE DEF c
    <3> QED
      BY <2>1, <3>1, <3>2, SumTake
  <2>4. ASSUME NEW kind \in Kinds PROVE Sum(LAMBDA r : OrZero(r.tokens[kind]), R) \in Nat
    <3> DEFINE c == [r \in R |-> OrZero(r.tokens[kind])]
    <3>1. \A r \in R : c[r] \in Nat
      BY <2>1 DEF OrZero, IsRequest, NullNumber
    <3>2. Sum(LAMBDA r : OrZero(r.tokens[kind]), R) = SumFunctionOnSet(c, R)
      BY SumIs DEF Sum
    <3> HIDE DEF c
    <3> QED
      BY <2>1, <3>1, <3>2, SumOfNumbers
  <2> QED
    BY <2>2, <2>3, <2>4 DEF R
<1>4. \A k \in keys : k[1] \in Int
  BY DEF IsRequest, TenMinutes
<1> HIDE DEF keys, Of
<1>5. IsFiniteSet({Row(k) : k \in keys})
  <2> DEFINE f == [k \in keys |-> Row(k)]
  <2>1. \A b \in {Row(k) : k \in keys} : \E k \in keys : f[k] = b
    OBVIOUS
  <2> HIDE DEF f
  <2> QED
    BY <1>2, <2>1, Images
<1>6. \A k \in keys : /\ Row(k).requests \in Nat /\ Row(k).cost \in Int /\ Row(k).at \in Int
                      /\ \A kind \in Kinds : Row(k).tokens[kind] \in Nat
  BY <1>3, <1>4
<1> HIDE DEF Row
<1> QED
  BY <1>1, <1>5, <1>6 DEF IsBuckets

-----------------------------------------------------------------------------
(* Rows of a page.                                                          *)

\* The buckets of a key.
Keyed(B, key, k) == {b \in B : key[b] = k}
KeysOf(B, key) == {key[b] : b \in B}

LEMMA KeyedFacts ==
    ASSUME NEW B, IsFiniteSet(B), NEW key
    PROVE  /\ IsFiniteSet(KeysOf(B, key))
           /\ IsPartition(B, KeysOf(B, key), [k \in KeysOf(B, key) |-> Keyed(B, key, k)])
           /\ \A k : Keyed(B, key, k) \in SUBSET B
<1>1. IsFiniteSet(KeysOf(B, key))
  BY Images DEF KeysOf
<1>2. \A k : Keyed(B, key, k) \in SUBSET B
  BY DEF Keyed
<1> DEFINE K == KeysOf(B, key)  part == [k \in K |-> Keyed(B, key, k)]
<1>3. \A k \in K : part[k] \in SUBSET B /\ \A b \in B : b \in part[k] <=> key[b] = k
  BY DEF Keyed
<1>4. \A b \in B : key[b] \in K
  BY DEF KeysOf
<1> HIDE DEF K, part
<1>5. IsPartition(B, K, part)
  BY <1>3, <1>4 DEF IsPartition
<1> QED
  BY <1>1, <1>2, <1>5 DEF K, part

\* At most one row for each key there is.
IsPage(R, B, key) ==
    /\ IsFiniteSet(R)
    /\ \A r \in R : r.key \in KeysOf(B, key)
    /\ \A r, q \in R : r.key = q.key => r = q

\* Whatever rows say of their keys' buckets adds up, when the other keys'
\* amount to nothing.
LEMMA PageTotal ==
    ASSUME NEW f, NEW B, IsFiniteSet(B), Counts(f, B), NEW key, NEW R, IsPage(R, B, key),
           NEW v, \A r \in R : v[r] = SumFunctionOnSet(f, Keyed(B, key, r.key)),
           \A b \in B : (\E r \in R : r.key = key[b]) \/ SumFunctionOnSet(f, Keyed(B, key, key[b])) = 0
    PROVE  SumFunctionOnSet(v, R) = SumFunctionOnSet(f, B)
<1> DEFINE K == KeysOf(B, key)  part == [k \in K |-> Keyed(B, key, k)]  name == [r \in R |-> r.key]
<1>1. IsFiniteSet(K) /\ IsPartition(B, K, part)
  BY KeyedFacts
<1>2. IsFiniteSet(R) /\ (\A r \in R : name[r] \in K) /\ \A r, q \in R : name[r] = name[q] => r = q
  BY DEF IsPage
<1>3. \A r \in R : v[r] = SumFunctionOnSet(f, part[name[r]])
  BY <1>2
<1>4. \A k \in K : (\E r \in R : name[r] = k) \/ SumFunctionOnSet(f, part[k]) = 0
  BY DEF KeysOf
<1> HIDE DEF K, part, name
<1> QED
  BY <1>1, <1>2, <1>3, <1>4, SumRows

\* Costs by key and currency.
InCurrency(B, currency) == {b \in Priced(B) : b.currency = currency}
CostKeys(B, key) == {<<key[b], b.currency>> : b \in Priced(B)}
CostRow(B, key, kc) ==
    [key |-> kc[1], currency |-> kc[2], amount |-> Amount({b \in Priced(B) : <<key[b], b.currency>> = kc})]
CostRowsBy(B, key) == {CostRow(B, key, kc) : kc \in CostKeys(B, key)}

LEMMA CostRowFacts ==
    ASSUME NEW B, NEW key
    PROVE  \A c \in CostRowsBy(B, key) :
               /\ \E b \in Priced(B) : key[b] = c.key /\ b.currency = c.currency
               /\ c.amount = Amount(Keyed(InCurrency(B, c.currency), key, c.key))
<1> TAKE c \in CostRowsBy(B, key)
<1>1. PICK kc \in CostKeys(B, key) : c = CostRow(B, key, kc)
  BY DEF CostRowsBy
<1>2. PICK b \in Priced(B) : kc = <<key[b], b.currency>>
  BY <1>1 DEF CostKeys
<1>3. c.key = kc[1] /\ c.currency = kc[2] /\ c.amount = Amount({x \in Priced(B) : <<key[x], x.currency>> = kc})
  BY <1>1 DEF CostRow
<1>4. {x \in Priced(B) : <<key[x], x.currency>> = kc} = Keyed(InCurrency(B, c.currency), key, c.key)
  BY <1>2, <1>3 DEF Keyed, InCurrency
<1> QED
  BY <1>2, <1>3, <1>4

LEMMA CostRowThere ==
    ASSUME NEW B, NEW key, NEW b \in Priced(B)
    PROVE  \E c \in CostRowsBy(B, key) : c.key = key[b] /\ c.currency = b.currency
<1> DEFINE kc == <<key[b], b.currency>>
<1>1. kc \in CostKeys(B, key)
  BY DEF CostKeys
<1>2. CostRow(B, key, kc).key = key[b] /\ CostRow(B, key, kc).currency = b.currency
  BY DEF CostRow
<1> HIDE DEF kc
<1> QED
  BY <1>1, <1>2 DEF CostRowsBy

Among(costs, currency) == {c \in costs : c.currency = currency}
AmountsOf(costs) == [c \in costs |-> c.amount]

LEMMA CostOfIs ==
    ASSUME NEW costs, NEW currency
    PROVE  CostOf(costs, currency) =
               SumFunctionOnSet(AmountsOf(Among(costs, currency)), Among(costs, currency))
BY SumIs DEF CostOf, Sum, Among, AmountsOf

\* The sum of a set with one element at most.
IsOnly(X, f, item, a) == /\ \A x \in X : x = item
                         /\ f[item] = a \/ X = {}
                         /\ X = {} => a = 0
                         /\ a \in Int

LEMMA SumOfOne ==
    ASSUME NEW X, NEW f, NEW item, NEW a, IsOnly(X, f, item, a)
    PROVE  SumFunctionOnSet(f, X) = a
<1> USE DEF IsOnly
<1>1. CASE X = {}
  BY <1>1, SumEmpty
<1>2. CASE X # {}
  <2>1. X = {} \cup {item} /\ item \notin {} /\ f[item] \in Int
    BY <1>2
  <2>2. IsFiniteSet({}) /\ Counts(f, {})
    BY FS_EmptySet DEF Counts
  <2>3. SumFunctionOnSet(f, {} \cup {item}) = f[item] + SumFunctionOnSet(f, {})
    BY <2>1, <2>2, SumAdd
  <2>4. SumFunctionOnSet(f, {}) = 0 /\ f[item] = a
    BY <1>2, SumEmpty
  <2>5. SumFunctionOnSet(f, X) = SumFunctionOnSet(f, {} \cup {item})
    BY <2>1
  <2> QED
    BY <2>3, <2>4, <2>5
<1> QED
  BY <1>1, <1>2

\* A key's cost in a currency.
LEMMA CostOfKey ==
    ASSUME NEW B, IsBuckets(B), NEW key, NEW k, NEW currency
    PROVE  CostOf(CostsOf(CostRowsBy(B, key), k), currency) =
               Amount(Keyed(InCurrency(B, currency), key, k))
<1> DEFINE C == Keyed(InCurrency(B, currency), key, k)
           rows == CostRowsBy(B, key)
           X == Among(CostsOf(rows, k), currency)
           a == Amount(C)
           item == [currency |-> currency, amount |-> a]
<1>1. C \in SUBSET B
  BY DEF Keyed, InCurrency, Priced
<1>2. a \in Int
  <2>1. IsBuckets(C) /\ Amount(C) = SumFunctionOnSet(AmountIn(B), C)
    BY <1>1, PartSums
  <2>2. IsFiniteSet(C) /\ Counts(AmountIn(B), C)
    BY <1>1, <2>1, BucketFacts DEF Counts, IsBuckets
  <2> QED
    BY <2>1, <2>2, SumTake
<1>3. C = {} => a = 0
  <2> SUFFICES ASSUME C = {} PROVE Amount(C) = 0
    OBVIOUS
  <2> QED
    BY <1>1, PartSums, SumEmpty
<1>4. \A b : b \in C <=> b \in Priced(B) /\ key[b] = k /\ b.currency = currency
  BY DEF Keyed, InCurrency
<1>5. \A d \in rows : /\ \E b \in Priced(B) : key[b] = d.key /\ b.currency = d.currency
                      /\ d.key = k /\ d.currency = currency => d.amount = a
  <2> TAKE d \in rows
  <2>1. \E b \in Priced(B) : key[b] = d.key /\ b.currency = d.currency
    BY CostRowFacts
  <2>2. ASSUME d.key = k, d.currency = currency PROVE d.amount = a
    <3>1. d.amount = Amount(Keyed(InCurrency(B, d.currency), key, d.key))
      BY CostRowFacts
    <3> QED
      BY <2>2, <3>1, Zenon
  <2> QED
    BY <2>1, <2>2
<1>6. \A b \in Priced(B) : \E d \in rows : d.key = key[b] /\ d.currency = b.currency
  BY CostRowThere
<1>7. \A c : c \in X <=> \E d \in rows : /\ d.key = k /\ d.currency = currency
                                         /\ c = [currency |-> d.currency, amount |-> d.amount]
  <2> HIDE DEF rows
  <2> DEFINE Row(d) == [currency |-> d.currency, amount |-> d.amount]
             T == {d \in rows : d.key = k}
  <2>1. CostsOf(rows, k) = {Row(d) : d \in T}
    BY DEF CostsOf
  <2>2. \A d : Row(d).currency = d.currency
    OBVIOUS
  <2>3. \A d : d \in T <=> d \in rows /\ d.key = k
    OBVIOUS
  <2>4. X = {c \in CostsOf(rows, k) : c.currency = currency}
    BY DEF Among
  <2>5. SUFFICES \A c : c \in X <=> \E d \in rows : d.key = k /\ d.currency = currency /\ c = Row(d)
    OBVIOUS
  <2> HIDE DEF Row, T, X
  <2> QED
    BY <2>1, <2>2, <2>3, <2>4
<1> HIDE DEF rows, a, X, C
<1>8. \A c \in X : c = item
  BY <1>5, <1>7
<1>9. X = {} => a = 0
  <2> SUFFICES ASSUME X = {} PROVE C = {}
    BY <1>3
  <2> SUFFICES ASSUME NEW b \in C PROVE FALSE
    OBVIOUS
  <2>1. PICK d \in rows : d.key = k /\ d.currency = currency
    BY <1>4, <1>6
  <2> QED
    BY <1>7, <2>1
<1>10. AmountsOf(X)[item] = a \/ X = {}
  BY <1>8 DEF AmountsOf
<1> HIDE DEF item
<1>11. SumFunctionOnSet(AmountsOf(X), X) = a
  <2>1. IsOnly(X, AmountsOf(X), item, a)
    BY <1>2, <1>8, <1>9, <1>10 DEF IsOnly
  <2> QED
    BY <2>1, SumOfOne
<1> QED
  BY <1>11, CostOfIs DEF X, a, C, rows

\* The costs of a page in a currency.
LEMMA PageCosts ==
    ASSUME NEW B, IsBuckets(B), NEW key, NEW R, IsPage(R, B, key),
           \A r \in R : r.costs = CostsOf(CostRowsBy(B, key), r.key),
           \A b \in Priced(B) : \E r \in R : r.key = key[b],
           NEW currency
    PROVE  Sum(LAMBDA r : CostOf(r.costs, currency), R)
               = Amount(InCurrency(B, currency))
<1> DEFINE P == InCurrency(B, currency)  f == AmountIn(B)
           R2 == {r \in R : r.key \in KeysOf(P, key)}
           v == [r \in R |-> CostOf(r.costs, currency)]
<1>1. P \in SUBSET B /\ P = {b \in Priced(B) : b.currency = currency}
  BY DEF Priced, InCurrency
<1>2. IsBuckets(P) /\ IsFiniteSet(P) /\ Amount(P) = SumFunctionOnSet(f, P) /\ Counts(f, P)
  BY <1>1, PartSums, BucketFacts DEF IsBuckets, Counts
<1>3. Sum(LAMBDA r : CostOf(r.costs, currency), R) = SumFunctionOnSet(v, R)
  BY SumIs DEF Sum
<1>4. \A r \in R : v[r] = SumFunctionOnSet(f, Keyed(P, key, r.key))
  <2> TAKE r \in R
  <2>1. v[r] = Amount(Keyed(P, key, r.key))
    BY CostOfKey
  <2>2. Keyed(P, key, r.key) \in SUBSET B
    BY <1>1 DEF Keyed
  <2> QED
    BY <2>1, <2>2, PartSums
<1>5. \A b \in P : \E r \in R2 : r.key = key[b]
  <2> TAKE b \in P
  <2>1. b \in Priced(B)
    BY <1>1
  <2>2. key[b] \in KeysOf(P, key)
    BY DEF KeysOf
  <2> HIDE DEF P
  <2> QED
    BY <2>1, <2>2
<1>6. \A r \in R \ R2 : v[r] = 0
  <2> TAKE r \in R \ R2
  <2>1. Keyed(P, key, r.key) = {}
    BY DEF Keyed, KeysOf
  <2> QED
    BY <1>4, <2>1, SumEmpty
<1> HIDE DEF v, f, P
<1>7. IsPage(R2, P, key) /\ R2 \in SUBSET R /\ IsFiniteSet(R)
  <2>1. R2 \in SUBSET R /\ IsFiniteSet(R)
    BY DEF IsPage
  <2> QED
    BY <2>1, FS_Subset DEF IsPage
<1>8. \A r \in R2 : v[r] = SumFunctionOnSet(f, Keyed(P, key, r.key))
  BY <1>4
<1> HIDE DEF R2
<1>9. SumFunctionOnSet(v, R2) = SumFunctionOnSet(f, P)
  BY <1>2, <1>5, <1>7, <1>8, PageTotal
<1>10. Counts(v, R2)
  <2>1. \A r \in R2 : SumFunctionOnSet(f, Keyed(P, key, r.key)) \in Int
    <3> TAKE r \in R2
    <3>1. Keyed(P, key, r.key) \in SUBSET P
      BY DEF Keyed
    <3>2. IsFiniteSet(Keyed(P, key, r.key)) /\ Counts(f, Keyed(P, key, r.key))
      BY <1>2, <3>1, FS_Subset DEF Counts
    <3> QED
      BY <3>2, SumTake
  <2> QED
    BY <1>8, <2>1 DEF Counts
<1>11. SumFunctionOnSet(v, R) = SumFunctionOnSet(v, R2)
  BY <1>6, <1>7, <1>10, SumWithin
<1> QED
  BY <1>2, <1>3, <1>9, <1>11 DEF P

-----------------------------------------------------------------------------
(* The rows of the distribution.                                            *)

DimensionOf(B, dimension, dims) == [b \in B |-> GroupKey(b, dimension, dims)]

TokensRow(B, key, k) ==
    [key |-> k, tokens |-> Tokens(Keyed(B, key, k)), requests |-> Requests(Keyed(B, key, k))]
RowsBy(B, key) == {TokensRow(B, key, k) : k \in KeysOf(B, key)}

LEMMA DistributionIs ==
    ASSUME NEW B, NEW dimension, NEW dims
    PROVE  Distribution(B, LAMBDA b : GroupKey(b, dimension, dims))
               = RowsBy(B, DimensionOf(B, dimension, dims))
<1> DEFINE key == DimensionOf(B, dimension, dims)
           Key(b) == GroupKey(b, dimension, dims)
           Of(k) == {b \in B : Key(b) = k}
           Row(k, C) == [key |-> k, tokens |-> Tokens(C), requests |-> Requests(C)]
<1>1. Distribution(B, LAMBDA b : GroupKey(b, dimension, dims)) = {Row(k, Of(k)) : k \in {Key(b) : b \in B}}
  BY DEF Distribution, GroupBy
<1>2. {Key(b) : b \in B} = KeysOf(B, key)
  BY DEF KeysOf, DimensionOf
<1>3. \A k : Of(k) = Keyed(B, key, k)
  BY DEF Keyed, DimensionOf
<1>4. \A k : Row(k, Of(k)) = TokensRow(B, key, k)
  BY <1>3 DEF TokensRow
<1> HIDE DEF Key, Row, Of, key
<1>5. RowsBy(B, key) = {TokensRow(B, key, k) : k \in KeysOf(B, key)}
  BY DEF RowsBy
<1> QED
  BY <1>1, <1>2, <1>4, <1>5 DEF key

LEMMA DistributionCostsIs ==
    ASSUME NEW B, NEW dimension, NEW dims
    PROVE  DistributionCosts(B, LAMBDA b : GroupKey(b, dimension, dims))
               = CostRowsBy(B, DimensionOf(B, dimension, dims))
<1> DEFINE key == DimensionOf(B, dimension, dims)
           Key(b) == <<GroupKey(b, dimension, dims), b.currency>>
           Of(k) == {b \in Priced(B) : Key(b) = k}
           Row(k, C) == [key |-> k[1], currency |-> k[2], amount |-> Amount(C)]
<1>1. DistributionCosts(B, LAMBDA b : GroupKey(b, dimension, dims))
          = {Row(k, Of(k)) : k \in {Key(b) : b \in Priced(B)}}
  BY DEF DistributionCosts, GroupBy
<1>2. \A b \in Priced(B) : Key(b) = <<key[b], b.currency>>
  BY DEF DimensionOf, Priced
<1>3. {Key(b) : b \in Priced(B)} = CostKeys(B, key)
  BY <1>2 DEF CostKeys
<1>4. \A k : Of(k) = {b \in Priced(B) : <<key[b], b.currency>> = k}
  BY <1>2
<1>5. \A k : Row(k, Of(k)) = CostRow(B, key, k)
  BY <1>4 DEF CostRow
<1> HIDE DEF Key, Row, Of, key
<1>6. CostRowsBy(B, key) = {CostRow(B, key, k) : k \in CostKeys(B, key)}
  BY DEF CostRowsBy
<1> QED
  BY <1>1, <1>3, <1>5, <1>6 DEF key

\* The sums of a page in all: those of its token rows.
LEMMA PageSums ==
    ASSUME NEW B, IsBuckets(B), NEW key, NEW R, IsPage(R, B, key),
           \A r \in R : r.tokens = Tokens(Keyed(B, key, r.key)),
           \A b \in B : (\E r \in R : r.key = key[b]) \/ Tokens(Keyed(B, key, key[b])) = 0
    PROVE  Sum(LAMBDA r : r.tokens, R) = Tokens(B)
<1> DEFINE f == TokensIn(B)  v == [r \in R |-> r.tokens]
<1>1. Counts(f, B) /\ IsFiniteSet(B)
  BY BucketFacts DEF IsBuckets
<1>2. \A k : Tokens(Keyed(B, key, k)) = SumFunctionOnSet(f, Keyed(B, key, k))
  BY KeyedFacts, PartSums, <1>1
<1>3. Tokens(B) = SumFunctionOnSet(f, B)
  BY PartSums
<1>4. Sum(LAMBDA r : r.tokens, R) = SumFunctionOnSet(v, R)
  BY SumIs DEF Sum
<1>5. \A r \in R : v[r] = SumFunctionOnSet(f, Keyed(B, key, r.key))
  BY <1>2
<1>6. \A b \in B : (\E r \in R : r.key = key[b]) \/ SumFunctionOnSet(f, Keyed(B, key, key[b])) = 0
  BY <1>2
<1> HIDE DEF f, v
<1>7. SumFunctionOnSet(v, R) = SumFunctionOnSet(f, B)
  BY <1>1, <1>5, <1>6, PageTotal
<1> QED
  BY <1>3, <1>4, <1>7

LEMMA PageRequests ==
    ASSUME NEW B, IsBuckets(B), NEW key, NEW R, IsPage(R, B, key),
           \A r \in R : r.requests = Requests(Keyed(B, key, r.key)),
           \A b \in B : \E r \in R : r.key = key[b]
    PROVE  Sum(LAMBDA r : r.requests, R) = Requests(B)
<1> DEFINE f == RequestsIn(B)  v == [r \in R |-> r.requests]
<1>1. Counts(f, B) /\ IsFiniteSet(B)
  BY BucketFacts DEF IsBuckets
<1>2. \A k : Requests(Keyed(B, key, k)) = SumFunctionOnSet(f, Keyed(B, key, k))
  BY KeyedFacts, PartSums, <1>1
<1>3. Requests(B) = SumFunctionOnSet(f, B)
  BY PartSums
<1>4. Sum(LAMBDA r : r.requests, R) = SumFunctionOnSet(v, R)
  BY SumIs DEF Sum
<1>5. \A r \in R : v[r] = SumFunctionOnSet(f, Keyed(B, key, r.key))
  BY <1>2
<1> HIDE DEF f, v
<1>7. SumFunctionOnSet(v, R) = SumFunctionOnSet(f, B)
  BY <1>1, <1>5, PageTotal
<1> QED
  BY <1>3, <1>4, <1>7

Distributed(B, dimension, dims, traceRows) ==
    DistributionRows(Distribution(B, LAMBDA b : GroupKey(b, dimension, dims)),
                     DistributionCosts(B, LAMBDA b : GroupKey(b, dimension, dims)), traceRows)

AreDistributed(R, B) == \E dimension, dims, traceRows : R = Distributed(B, dimension, dims, traceRows)

\* A page of the distribution, and a row for each key.
LEMMA DistributionIsPage ==
    ASSUME NEW B, IsBuckets(B), NEW R, NEW dimension, NEW dims, NEW traceRows,
           R = Distributed(B, dimension, dims, traceRows)
    PROVE  \E key : /\ IsPage(R, B, key)
                    /\ \A b \in B : \E r \in R : r.key = key[b]
                    /\ \A r \in R : /\ r.tokens = Tokens(Keyed(B, key, r.key))
                                    /\ r.requests = Requests(Keyed(B, key, r.key))
                                    /\ r.costs = CostsOf(CostRowsBy(B, key), r.key)
<1> DEFINE key == DimensionOf(B, dimension, dims)
           K == KeysOf(B, key)
           TracesOf(k) == Sum(LAMBDA t : t.traces, {t \in traceRows : t.key = k})
           Row(k) == [key |-> k, tokens |-> Tokens(Keyed(B, key, k)),
                      requests |-> Requests(Keyed(B, key, k)), traces |-> TracesOf(k),
                      costs |-> CostsOf(CostRowsBy(B, key), k)]
           Of(t) == [key |-> t.key, tokens |-> t.tokens, requests |-> t.requests,
                     traces |-> TracesOf(t.key), costs |-> CostsOf(CostRowsBy(B, key), t.key)]
<1>1. R = {Of(t) : t \in RowsBy(B, key)}
  <2>1. R = DistributionRows(RowsBy(B, key), CostRowsBy(B, key), traceRows)
    BY DistributionIs, DistributionCostsIs DEF Distributed
  <2> QED
    BY <2>1 DEF DistributionRows
<1>2. \A k : Of(TokensRow(B, key, k)) = Row(k)
  BY DEF TokensRow
<1>3. /\ \A k : /\ Row(k).key = k /\ Row(k).tokens = Tokens(Keyed(B, key, k))
                /\ Row(k).requests = Requests(Keyed(B, key, k))
                /\ Row(k).costs = CostsOf(CostRowsBy(B, key), k)
  OBVIOUS
<1> HIDE DEF Row, Of, key, K
<1>4. R = {Row(k) : k \in K}
  <2>1. RowsBy(B, key) = {TokensRow(B, key, k) : k \in K}
    BY DEF RowsBy, K
  <2> QED
    BY <1>1, <1>2, <2>1
<1>5. IsFiniteSet(B)
  BY DEF IsBuckets
<1>6. IsFiniteSet(K) /\ \A b \in B : key[b] \in K
  <2>1. IsFiniteSet(K)
    BY <1>5, KeyedFacts DEF K
  <2>2. \A b \in B : key[b] \in K
    BY DEF K, KeysOf
  <2> QED
    BY <2>1, <2>2
<1>7. IsPage(R, B, key) /\ \A b \in B : \E r \in R : r.key = key[b]
  <2> DEFINE f == [k \in K |-> Row(k)]
  <2>1. \A r \in R : \E k \in K : f[k] = r
    BY <1>4
  <2> HIDE DEF f
  <2>2. IsFiniteSet(R)
    BY <1>6, <2>1, Images
  <2>3. \A r \in R : r.key \in K /\ r = Row(r.key)
    BY <1>3, <1>4
  <2>4. \A r, q \in R : r.key = q.key => r = q
    BY <2>3
  <2>5. \A b \in B : \E r \in R : r.key = key[b]
    BY <1>3, <1>4, <1>6
  <2> QED
    BY <2>2, <2>3, <2>4, <2>5 DEF IsPage, K
<1>8. \A r \in R : /\ r.tokens = Tokens(Keyed(B, key, r.key))
                   /\ r.requests = Requests(Keyed(B, key, r.key))
                   /\ r.costs = CostsOf(CostRowsBy(B, key), r.key)
  BY <1>3, <1>4
<1> QED
  BY <1>7, <1>8

LEMMA DistributionAddsUp ==
    ASSUME NEW B, IsBuckets(B), NEW R, AreDistributed(R, B)
    PROVE  /\ Sum(LAMBDA r : r.tokens, R) = Tokens(B)
           /\ Sum(LAMBDA r : r.requests, R) = Requests(B)
           /\ \A currency : Sum(LAMBDA r : CostOf(r.costs, currency), R) = Amount(InCurrency(B, currency))
<1>1. PICK key : /\ IsPage(R, B, key)
                 /\ \A b \in B : \E r \in R : r.key = key[b]
                 /\ \A r \in R : /\ r.tokens = Tokens(Keyed(B, key, r.key))
                                 /\ r.requests = Requests(Keyed(B, key, r.key))
                                 /\ r.costs = CostsOf(CostRowsBy(B, key), r.key)
  BY DistributionIsPage DEF AreDistributed
<1>2. \A b \in Priced(B) : b \in B
  BY DEF Priced
<1>3. Sum(LAMBDA r : r.tokens, R) = Tokens(B)
  BY <1>1, PageSums
<1>4. Sum(LAMBDA r : r.requests, R) = Requests(B)
  BY <1>1, PageRequests
<1>5. \A currency : Sum(LAMBDA r : CostOf(r.costs, currency), R) = Amount(InCurrency(B, currency))
  BY <1>1, <1>2, PageCosts
<1> QED
  BY <1>3, <1>4, <1>5

-----------------------------------------------------------------------------
(* The rows of the breakdown.                                               *)

FullKey(B, dims) == [b \in B |-> BreakdownKey(b, dims)]

SumOfKey(B, key, k) == [key |-> k, tokens |-> Tokens(Keyed(B, key, k))]
SumsBy(B, key) == {SumOfKey(B, key, k) : k \in KeysOf(B, key)}
Positive(rows) == {row \in rows : row.tokens > 0}

LEMMA BreakdownTokensIs ==
    ASSUME NEW B, NEW dims
    PROVE  BreakdownTokens(B, dims) = Positive(SumsBy(B, FullKey(B, dims)))
<1> DEFINE key == FullKey(B, dims)
           Key(b) == BreakdownKey(b, dims)
           Of(k) == {b \in B : Key(b) = k}
           Row(k, C) == [key |-> k, tokens |-> Tokens(C)]
           rows == {Row(k, Of(k)) : k \in {Key(b) : b \in B}}
<1>1. BreakdownTokens(B, dims) = {row \in rows : row.tokens > 0}
  BY DEF BreakdownTokens, GroupBy
<1>2. {Key(b) : b \in B} = KeysOf(B, key)
  BY DEF KeysOf, FullKey
<1>3. \A k : Of(k) = Keyed(B, key, k)
  BY DEF Keyed, FullKey
<1>4. \A k : Row(k, Of(k)) = SumOfKey(B, key, k)
  BY <1>3 DEF SumOfKey
<1> HIDE DEF Key, Row, Of, key
<1>5. rows = SumsBy(B, key)
  BY <1>2, <1>4 DEF SumsBy
<1> HIDE DEF rows
<1> QED
  BY <1>1, <1>5 DEF key, Positive

LEMMA BreakdownCostsIs ==
    ASSUME NEW B, NEW dims
    PROVE  BreakdownCosts(B, dims) = CostRowsBy(B, FullKey(B, dims))
<1> DEFINE key == FullKey(B, dims)
           Key(b) == <<BreakdownKey(b, dims), b.currency>>
           Of(k) == {b \in Priced(B) : Key(b) = k}
           Row(k, C) == [key |-> k[1], currency |-> k[2], amount |-> Amount(C)]
<1>1. BreakdownCosts(B, dims) = {Row(k, Of(k)) : k \in {Key(b) : b \in Priced(B)}}
  BY DEF BreakdownCosts, GroupBy
<1>2. \A b \in Priced(B) : Key(b) = <<key[b], b.currency>>
  BY DEF FullKey, Priced
<1>3. {Key(b) : b \in Priced(B)} = CostKeys(B, key)
  BY <1>2 DEF CostKeys
<1>4. \A k : Of(k) = {b \in Priced(B) : <<key[b], b.currency>> = k}
  BY <1>2
<1>5. \A k : Row(k, Of(k)) = CostRow(B, key, k)
  BY <1>4 DEF CostRow
<1> HIDE DEF Key, Row, Of, key
<1>6. CostRowsBy(B, key) = {CostRow(B, key, k) : k \in CostKeys(B, key)}
  BY DEF CostRowsBy
<1> QED
  BY <1>1, <1>3, <1>5, <1>6 DEF key

LEMMA TokensAreNumbers ==
    ASSUME NEW B, IsBuckets(B)
    PROVE  Tokens(B) \in Nat
<1>1. IsFiniteSet(B) /\ (\A b \in B : TokensIn(B)[b] \in Nat) /\ Tokens(B) = SumFunctionOnSet(TokensIn(B), B)
  BY BucketFacts, PartSums DEF IsBuckets
<1> QED
  BY <1>1, SumOfNumbers

Merged(B, dims) == MergeBreakdown(BreakdownTokens(B, dims), BreakdownCosts(B, dims))

LEMMA BreakdownAddsUp ==
    ASSUME NEW B, IsBuckets(B), NEW dims, NEW R, R = Merged(B, dims)
    PROVE  /\ Sum(LAMBDA r : r.tokens, R) = Tokens(B)
           /\ \A currency : Sum(LAMBDA r : CostOf(r.costs, currency), R) = Amount(InCurrency(B, currency))
<1> DEFINE key == FullKey(B, dims)
           K == KeysOf(B, key)
           tokenRows == BreakdownTokens(B, dims)
           costRows == BreakdownCosts(B, dims)
           there == {t.key : t \in tokenRows} \cup {c.key : c \in costRows}
           TokensFor(k) == Sum(LAMBDA t : t.tokens, {t \in tokenRows : t.key = k})
           Row(k) == [key |-> k, tokens |-> TokensFor(k), costs |-> CostsOf(costRows, k)]
<1>1. R = {Row(k) : k \in there}
  BY DEF Merged, MergeBreakdown
<1>2. costRows = CostRowsBy(B, key)
  BY BreakdownCostsIs
<1>3. /\ \A t \in tokenRows : t.key \in K /\ t = SumOfKey(B, key, t.key) /\ t.tokens > 0
      /\ \A k \in K : Tokens(Keyed(B, key, k)) > 0 => SumOfKey(B, key, k) \in tokenRows
  <2>1. tokenRows = Positive(SumsBy(B, key))
    BY BreakdownTokensIs
  <2>2. \A k : SumOfKey(B, key, k).key = k /\ SumOfKey(B, key, k).tokens = Tokens(Keyed(B, key, k))
    BY DEF SumOfKey
  <2> HIDE DEF tokenRows, key
  <2> QED
    BY <2>1, <2>2 DEF Positive, SumsBy
<1>4. \A k : Row(k).key = k /\ Row(k).tokens = TokensFor(k) /\ Row(k).costs = CostsOf(costRows, k)
  OBVIOUS
<1>5. \A k : Keyed(B, key, k) \in SUBSET B
  BY DEF Keyed
<1>6. \A k : Tokens(Keyed(B, key, k)) \in Nat
  BY <1>5, PartSums, TokensAreNumbers
<1>7. \A k : SumOfKey(B, key, k).key = k /\ SumOfKey(B, key, k).tokens = Tokens(Keyed(B, key, k))
  BY DEF SumOfKey
<1>8. \A c \in costRows : c.key \in K
  <2>1. \A c \in costRows : \E b \in Priced(B) : c.key = key[b]
    BY <1>2, CostRowFacts
  <2>2. \A b \in Priced(B) : key[b] \in K
    BY DEF Priced, KeysOf
  <2> HIDE DEF K, key, costRows
  <2> QED
    BY <2>1, <2>2
<1>9. \A b \in Priced(B) : \E c \in costRows : c.key = key[b]
  BY <1>2, CostRowThere
<1>10. IsFiniteSet(B)
  BY DEF IsBuckets
<1>11. IsFiniteSet(K) /\ \A b \in B : key[b] \in K
  <2>1. IsFiniteSet(K)
    BY <1>10, KeyedFacts
  <2>2. \A b \in B : key[b] \in K
    BY DEF KeysOf
  <2> QED
    BY <2>1, <2>2
<1> DEFINE Found(k) == {t \in tokenRows : t.key = k}
<1>12. \A k : TokensFor(k) = SumFunctionOnSet([t \in Found(k) |-> t.tokens], Found(k))
  BY SumIs DEF Sum
<1> HIDE DEF key, tokenRows, costRows, TokensFor, Row, K
<1>13. ASSUME NEW k \in K PROVE TokensFor(k) = Tokens(Keyed(B, key, k))
  <2> DEFINE X == Found(k)
             f == [t \in X |-> t.tokens]
             item == SumOfKey(B, key, k)
             a == Tokens(Keyed(B, key, k))
  <2>1. \A t \in X : t = item
    BY <1>3
  <2>2. f[item] = a \/ X = {}
    BY <1>7, <2>1
  <2>3. X = {} => a = 0
    <3> SUFFICES ASSUME a # 0 PROVE X # {}
      OBVIOUS
    <3>1. a > 0
      BY <1>6
    <3>2. item \in X
      BY <1>3, <1>7, <3>1
    <3> QED
      BY <3>2
  <2>4. a \in Int /\ TokensFor(k) = SumFunctionOnSet(f, X)
    BY <1>6, <1>12
  <2> HIDE DEF X, f, item, a
  <2>5. IsOnly(X, f, item, a)
    BY <2>1, <2>2, <2>3, <2>4 DEF IsOnly
  <2>6. SumFunctionOnSet(f, X) = a
    BY <2>5, SumOfOne
  <2> QED
    BY <2>4, <2>6 DEF a
<1> HIDE DEF Found
<1>14. there \in SUBSET K /\ IsFiniteSet(there)
  <2>1. there \in SUBSET K
    BY <1>3, <1>8
  <2> HIDE DEF there
  <2> QED
    BY <1>11, <2>1, FS_Subset
<1>15. \A b \in B : key[b] \in there \/ Tokens(Keyed(B, key, key[b])) = 0
  BY <1>3, <1>6, <1>7, <1>11
<1>16. \A b \in Priced(B) : key[b] \in there
  BY <1>9
<1> HIDE DEF there
<1>17. IsPage(R, B, key)
  <2> DEFINE f == [k \in there |-> Row(k)]
  <2>1. \A r \in R : \E k \in there : f[k] = r
    BY <1>1
  <2> HIDE DEF f
  <2>2. IsFiniteSet(R)
    BY <1>14, <2>1, Images
  <2>3. \A r \in R : r.key \in K /\ r = Row(r.key)
    BY <1>1, <1>4, <1>14
  <2>4. \A r, q \in R : r.key = q.key => r = q
    BY <2>3
  <2> QED
    BY <2>2, <2>3, <2>4 DEF IsPage, K
<1>18. /\ \A b \in B : (\E r \in R : r.key = key[b]) \/ Tokens(Keyed(B, key, key[b])) = 0
       /\ \A b \in Priced(B) : \E r \in R : r.key = key[b]
  BY <1>1, <1>4, <1>15, <1>16
<1>19. \A r \in R : /\ r.tokens = Tokens(Keyed(B, key, r.key))
                    /\ r.costs = CostsOf(CostRowsBy(B, key), r.key)
  BY <1>1, <1>2, <1>4, <1>13, <1>14
<1>20. Sum(LAMBDA r : r.tokens, R) = Tokens(B)
  BY <1>17, <1>18, <1>19, PageSums
<1>21. \A currency : Sum(LAMBDA r : CostOf(r.costs, currency), R) = Amount(InCurrency(B, currency))
  BY <1>17, <1>18, <1>19, PageCosts
<1> QED
  BY <1>20, <1>21

-----------------------------------------------------------------------------
(* The rows of an administrator's breakdown, whose keys are narrowed.       *)

AdminMerged(B) == MergeAdminBreakdown(BreakdownTokens(B, AdminDims), BreakdownCosts(B, AdminDims))

\* No two token rows have the same narrowed key.
RowsApart(B) ==
    \A t, q \in BreakdownTokens(B, AdminDims) : Narrowed(t.key) = Narrowed(q.key) => t = q

LEMMA NarrowedAddsUp ==
    ASSUME NEW B, IsBuckets(B), NEW R, R = AdminMerged(B)
    PROVE  /\ Sum(LAMBDA r : r.tokens, R) <= Tokens(B)
           /\ RowsApart(B) => Sum(LAMBDA r : r.tokens, R) = Tokens(B)
<1> DEFINE key == FullKey(B, AdminDims)
           K == KeysOf(B, key)
           T == BreakdownTokens(B, AdminDims)
           C == BreakdownCosts(B, AdminDims)
           Tokened(k) == {t \in T : Narrowed(t.key) = k}
           Costed(k) == {c \in C : Narrowed(c.key) = k}
           Chosen(k) == CHOOSE t \in Tokened(k) : TRUE
           N == {Narrowed(row.key) : row \in T \cup C}
           Row(k) == [key |-> k, tokens |-> IF Tokened(k) = {} THEN 0 ELSE Chosen(k).tokens,
                      costs |-> {[of |-> c.key, currency |-> c.currency, amount |-> c.amount] : c \in Costed(k)}]
           f == [t \in T |-> t.tokens]
           g == [r \in R |-> r.tokens]
           name == [r \in R |-> Chosen(r.key)]
<1>1. R = {Row(k) : k \in N}
  BY DEF AdminMerged, MergeAdminBreakdown
<1>2. \A k : Row(k).key = k /\ Row(k).tokens = IF Tokened(k) = {} THEN 0 ELSE Chosen(k).tokens
  OBVIOUS
<1> HIDE DEF Row
<1>3. IsFiniteSet(B)
  BY DEF IsBuckets
<1>4. IsFiniteSet(K) /\ \A b \in B : key[b] \in K
  <2>1. IsFiniteSet(K)
    BY <1>3, KeyedFacts
  <2>2. \A b \in B : key[b] \in K
    BY DEF KeysOf
  <2> QED
    BY <2>1, <2>2
<1>5. /\ \A t \in T : t.key \in K /\ t = SumOfKey(B, key, t.key) /\ t.tokens > 0
      /\ \A k \in K : Tokens(Keyed(B, key, k)) > 0 => SumOfKey(B, key, k) \in T
  <2>1. T = Positive(SumsBy(B, key))
    BY BreakdownTokensIs
  <2>2. \A k : SumOfKey(B, key, k).key = k /\ SumOfKey(B, key, k).tokens = Tokens(Keyed(B, key, k))
    BY DEF SumOfKey
  <2> HIDE DEF T, key
  <2> QED
    BY <2>1, <2>2 DEF Positive, SumsBy
<1>6. \A c \in C : c.key \in K
  <2>1. \A c \in C : \E b \in Priced(B) : c.key = key[b]
    BY BreakdownCostsIs, CostRowFacts
  <2>2. \A b \in Priced(B) : key[b] \in K
    BY <1>4 DEF Priced
  <2> HIDE DEF K, key, C
  <2> QED
    BY <2>1, <2>2
<1>7. \A k : SumOfKey(B, key, k).key = k /\ SumOfKey(B, key, k).tokens = Tokens(Keyed(B, key, k))
  BY DEF SumOfKey
<1>8. \A k : Tokens(Keyed(B, key, k)) \in Nat
  <2>1. \A k : Keyed(B, key, k) \in SUBSET B
    BY DEF Keyed
  <2> QED
    BY <2>1, PartSums, TokensAreNumbers
<1> HIDE DEF key, K, T, C, N, Chosen
<1>9. IsFiniteSet(N) /\ IsFiniteSet(R) /\ IsFiniteSet(T)
  <2> DEFINE n == [k \in K |-> Narrowed(k)]  m == [k \in N |-> Row(k)]  o == [k \in K |-> SumOfKey(B, key, k)]
  <2>1. \A x \in N : \E k \in K : n[k] = x
    BY <1>5, <1>6 DEF N
  <2>2. \A r \in R : \E x \in N : m[x] = r
    BY <1>1
  <2>3. \A t \in T : \E k \in K : o[k] = t
    BY <1>5
  <2> HIDE DEF n, m, o
  <2>4. IsFiniteSet(N) /\ IsFiniteSet(T)
    BY <1>4, <2>1, <2>3, Images
  <2> QED
    BY <2>2, <2>4, Images
<1>10. Sum(LAMBDA r : r.tokens, T) = Tokens(B)
  <2>1. IsPage(T, B, key)
    <3>1. \A t, q \in T : t.key = q.key => t = q
      BY <1>5
    <3> QED
      BY <1>5, <1>9, <3>1 DEF IsPage, K
  <2>2. \A t \in T : t.tokens = Tokens(Keyed(B, key, t.key))
    BY <1>5, <1>7
  <2>3. \A b \in B : (\E t \in T : t.key = key[b]) \/ Tokens(Keyed(B, key, key[b])) = 0
    BY <1>4, <1>5, <1>7, <1>8
  <2> QED
    BY <2>1, <2>2, <2>3, PageSums
<1>11. \A t \in T : f[t] \in Nat /\ f[t] # 0
  BY <1>5, <1>7, <1>8
<1>12. \A r \in R : \E k \in N : r = Row(k) /\ r.key = k
  BY <1>1, <1>2
<1>13. \A k : Tokened(k) # {} => Chosen(k) \in Tokened(k)
  BY DEF Chosen
<1>14. \A r \in R : g[r] = 0 \/ (name[r] \in T /\ Narrowed(name[r].key) = r.key /\ g[r] = f[name[r]])
  BY <1>2, <1>12, <1>13
<1>15. \A r, q \in R : r.key = q.key => r = q
  BY <1>12
<1>16. RowsApart(B) => \A t \in T : \E r \in R : g[r] # 0 /\ name[r] = t
  <2> SUFFICES ASSUME RowsApart(B), NEW t \in T PROVE \E r \in R : g[r] # 0 /\ name[r] = t
    OBVIOUS
  <2> DEFINE k == Narrowed(t.key)
  <2>1. k \in N
    BY DEF N
  <2>2. t \in Tokened(k)
    OBVIOUS
  <2>3. \A q \in Tokened(k) : q = t
    BY DEF RowsApart, T
  <2>4. Chosen(k) = t /\ Tokened(k) # {}
    BY <2>2, <2>3, <1>13
  <2> HIDE DEF k
  <2>5. Row(k) \in R /\ Row(k).key = k /\ Row(k).tokens = t.tokens
    BY <1>1, <1>2, <2>1, <2>4
  <2> QED
    BY <1>11, <2>4, <2>5
<1>17. /\ Sum(LAMBDA r : r.tokens, T) = SumFunctionOnSet(f, T)
       /\ Sum(LAMBDA r : r.tokens, R) = SumFunctionOnSet(g, R)
  BY SumIs DEF Sum
<1> HIDE DEF f, g, name
<1>18. \A r, q \in R : g[r] # 0 /\ g[q] # 0 /\ name[r] = name[q] => r = q
  BY <1>14, <1>15
<1>19. \A t \in T : f[t] \in Nat
  BY <1>11
<1>20. \A r \in R : g[r] = 0 \/ (name[r] \in T /\ g[r] = f[name[r]])
  BY <1>14
<1>21. /\ SumFunctionOnSet(g, R) <= SumFunctionOnSet(f, T)
       /\ (\A t \in T : \E r \in R : g[r] # 0 /\ name[r] = t) =>
              SumFunctionOnSet(g, R) = SumFunctionOnSet(f, T)
  BY <1>9, <1>18, <1>19, <1>20, SumPicked
<1> QED
  BY <1>10, <1>16, <1>17, <1>21

-----------------------------------------------------------------------------
(* The tokens by kind, and the costs of the totals.                         *)

LEMMA KindsAddUp ==
    ASSUME NEW B, IsBuckets(B)
    PROVE  SumFunction(TokenBreakdown(B)) = Tokens(B)
<1> DEFINE t == TokenBreakdown(B)
 f == [k \in Kinds |-> [b \in B |-> b.tokens[k]]]
           g == [b \in B |-> [k \in Kinds |-> b.tokens[k]]]
           p == [k \in Kinds |-> t[k]]
           q == TokensIn(B)
<1>1. IsFiniteSet(B) /\ IsFiniteSet(Kinds)
  BY KindsFinite DEF IsBuckets
<1>2. IsTableau(Kinds, B, f, g)
  BY DEF IsTableau, IsBuckets
<1>3. \A k \in Kinds : p[k] = SumFunctionOnSet(f[k], B)
  BY SumIs DEF TokenBreakdown, Sum
<1>4. \A b \in B : q[b] = SumFunctionOnSet(g[b], Kinds)
  BY SumIs DEF TokensIn, TokensOf, Sum
<1>5. Tokens(B) = SumFunctionOnSet(q, B)
  BY PartSums
<1>6. SumFunction(t) = SumFunctionOnSet(p, Kinds)
  <2>1. p = t /\ DOMAIN t = Kinds
    BY DEF TokenBreakdown
  <2> QED
    BY <2>1, SumIs
<1> HIDE DEF f, g, p, q
<1>7. AreSums(Kinds, B, f, p) /\ AreSums(B, Kinds, g, q)
  BY <1>3, <1>4 DEF AreSums
<1>8. SumFunctionOnSet(p, Kinds) = SumFunctionOnSet(q, B)
  BY <1>1, <1>2, <1>7, SumSwaps
<1> QED
  BY <1>5, <1>6, <1>8

LEMMA CostsFacts ==
    ASSUME NEW B
    PROVE  \A c \in Costs(B) : c.amount = Amount(InCurrency(B, c.currency))
<1> DEFINE Of(k) == {b \in Priced(B) : b.currency = k}
           Row(k, C) == [currency |-> k, amount |-> Amount(C)]
<1>1. Costs(B) = {Row(k, Of(k)) : k \in {b.currency : b \in Priced(B)}}
  BY DEF Costs, GroupBy
<1>2. \A k : Of(k) = InCurrency(B, k)
  BY DEF InCurrency
<1>3. \A k : Row(k, Of(k)).currency = k /\ Row(k, Of(k)).amount = Amount(Of(k))
  OBVIOUS
<1> HIDE DEF Of, Row
<1> QED
  BY <1>1, <1>2, <1>3

-----------------------------------------------------------------------------
(* The pages.                                                               *)

\* The table holds rows of the pool, finitely many.
TableInv == IsFiniteSet(request) /\ request \subseteq Pool

LEMMA TableInvHolds == Spec => []TableInv
<1>1. Init => TableInv
  BY FS_EmptySet DEF Init, TableInv
<1>2. TableInv /\ [Next]_vars => TableInv'
  <2> SUFFICES ASSUME TableInv, [Next]_vars PROVE TableInv'
    OBVIOUS
  <2>1. CASE UNCHANGED vars
    BY <2>1 DEF vars, TableInv
  <2>2. ASSUME NEW r \in Pool, InsertRequest(r) PROVE TableInv'
    <3>1. request' = request \cup {r}
      BY <2>2 DEF InsertRequest
    <3>2. IsFiniteSet(request \cup {r})
      BY FS_AddElement DEF TableInv
    <3> QED
      BY <3>1, <3>2 DEF TableInv
  <2>3. ASSUME NEW r \in Pool, UpsertTrace(r) PROVE TableInv'
    BY <2>3 DEF UpsertTrace, TableInv
  <2> QED
    BY <2>1, <2>2, <2>3 DEF Next
<1> QED
  BY <1>1, <1>2, PTL DEF Spec

View == RequestOverviewBucketed(request)

LEMMA ViewHolds ==
    ASSUME TableInv
    PROVE  /\ IsBuckets(View) /\ \A b \in View : b.at \in Int
           /\ \A w, filter : IsBuckets(Selected(View, w, filter))
<1>1. IsFiniteSet(request) /\ \A r \in request : IsRequest(r)
  BY PoolAssumption DEF TableInv, IsRequest
<1>2. IsBuckets(View) /\ \A b \in View : b.at \in Int
  BY <1>1, ViewFacts DEF View
<1> QED
  BY <1>2, SelectedFacts

\* A question has one window at most.
LEMMA OneWindow ==
    ASSUME NEW in, NEW w \in OwnWindow(in, Now), NEW x \in OwnWindow(in, Now)
    PROVE  w = x
<1>1. w \in OverviewWindow(in.range, Now, Hour) /\ x \in OverviewWindow(in.range, Now, Hour)
  BY DEF OwnWindow
<1> QED
  BY <1>1 DEF OverviewWindow, CustomWindow, PresetWindow

\* The rows of the user's pages.
LEMMA SummaryIs ==
    ASSUME NEW in, NEW s \in GetOverviewSummary(data, in, Now)
    PROVE  \E w \in OwnWindow(in, Now) :
               LET B == Selected(View, w, Own(in.user, in.filter))
               IN /\ s.totals.tokens = Tokens(B) /\ s.totals.requests = Requests(B)
                  /\ s.totals.costs = Costs(B)
                  /\ s.tokenBreakdown = TokenBreakdown(B)
                  /\ s.breakdown = Merged(B, OwnDims)
BY DEF GetOverviewSummary, GetOverviewTotals, Totals, GetOverviewTokenBreakdown, data, View,
       ListOverviewBreakdownTokens, ListOverviewBreakdownCosts, Merged

LEMMA DistributionPageIs ==
    ASSUME NEW in, NEW page \in GetOverviewDistribution(data, in, Now)
    PROVE  \E w \in OwnWindow(in, Now) :
               AreDistributed(page.rows, Selected(View, w, Own(in.user, in.filter)))
<1>1. PICK w \in OwnWindow(in, Now) :
          page = [window |-> w,
                  rows |-> DistributionRows(
                    ListOverviewDistribution(View, w, in.user, in.filter, in.dimension),
                    ListOverviewDistributionCosts(View, w, in.user, in.filter, in.dimension),
                    ListOverviewTraceCountsByDimension(request, w, in.user, in.filter, in.dimension))]
  BY DEF GetOverviewDistribution, data, View
<1> DEFINE traceRows == ListOverviewTraceCountsByDimension(request, w, in.user, in.filter, in.dimension)
<1>2. page.rows = Distributed(Selected(View, w, Own(in.user, in.filter)), in.dimension, OwnDims, traceRows)
  BY <1>1 DEF ListOverviewDistribution, ListOverviewDistributionCosts, Distributed
<1> QED
  BY <1>2 DEF AreDistributed

\* The pages of the same buckets agree.
LEMMA PagesAgree ==
    ASSUME NEW B, IsBuckets(B), NEW s, NEW page, NEW dims,
           s.totals.tokens = Tokens(B), s.totals.requests = Requests(B),
           s.totals.costs = Costs(B), s.tokenBreakdown = TokenBreakdown(B),
           s.breakdown = Merged(B, dims),
           AreDistributed(page.rows, B)
    PROVE  /\ Sum(LAMBDA r : r.tokens, page.rows) = s.totals.tokens
           /\ Sum(LAMBDA r : r.requests, page.rows) = s.totals.requests
           /\ Sum(LAMBDA r : r.tokens, s.breakdown) = s.totals.tokens
           /\ Sum(LAMBDA k : s.tokenBreakdown[k], Kinds) = s.totals.tokens
           /\ \A c \in s.totals.costs :
               /\ Sum(LAMBDA r : CostOf(r.costs, c.currency), page.rows) = c.amount
               /\ Sum(LAMBDA r : CostOf(r.costs, c.currency), s.breakdown) = c.amount
<1>1. Sum(LAMBDA r : r.tokens, page.rows) = Tokens(B)
  BY DistributionAddsUp
<1>2. Sum(LAMBDA r : r.requests, page.rows) = Requests(B)
  BY DistributionAddsUp
<1>3. Sum(LAMBDA r : r.tokens, s.breakdown) = Tokens(B)
  BY BreakdownAddsUp
<1>4. Sum(LAMBDA k : s.tokenBreakdown[k], Kinds) = Tokens(B)
  <2>1. s.tokenBreakdown = [k \in Kinds |-> s.tokenBreakdown[k]]
    BY DEF TokenBreakdown
  <2>2. SumFunction(s.tokenBreakdown) = Tokens(B)
    BY KindsAddUp
  <2> QED
    BY <2>1, <2>2 DEF Sum
<1>5. \A currency : Sum(LAMBDA r : CostOf(r.costs, currency), page.rows) = Amount(InCurrency(B, currency))
  BY DistributionAddsUp
<1>6. \A currency : Sum(LAMBDA r : CostOf(r.costs, currency), s.breakdown) = Amount(InCurrency(B, currency))
  BY BreakdownAddsUp
<1>7. ASSUME NEW c \in s.totals.costs
      PROVE  /\ Sum(LAMBDA r : CostOf(r.costs, c.currency), page.rows) = c.amount
             /\ Sum(LAMBDA r : CostOf(r.costs, c.currency), s.breakdown) = c.amount
  <2>1. c.amount = Amount(InCurrency(B, c.currency))
    BY CostsFacts
  <2> QED
    BY <1>5, <1>6, <2>1
<1> QED
  BY <1>1, <1>2, <1>3, <1>4, <1>7

\* Every row and every cost of the summary's and the distribution's pages is
\* counted once, and none is lost (mergeBreakdown, handle_overview.go).
THEOREM RowsAddUpHolds == Spec => []RowsAddUp
<1>1. TableInv => RowsAddUp
  <2> SUFFICES ASSUME TableInv, NEW in \in OwnQuestions,
                      NEW s \in GetOverviewSummary(data, in, Now),
                      NEW page \in GetOverviewDistribution(data, in, Now)
               PROVE  /\ Sum(LAMBDA r : r.tokens, page.rows) = s.totals.tokens
                      /\ Sum(LAMBDA r : r.requests, page.rows) = s.totals.requests
                      /\ Sum(LAMBDA r : r.tokens, s.breakdown) = s.totals.tokens
                      /\ Sum(LAMBDA k : s.tokenBreakdown[k], Kinds) = s.totals.tokens
                      /\ \A c \in s.totals.costs :
                          /\ Sum(LAMBDA r : CostOf(r.costs, c.currency), page.rows) = c.amount
                          /\ Sum(LAMBDA r : CostOf(r.costs, c.currency), s.breakdown) = c.amount
    BY DEF RowsAddUp
  <2>1. PICK w \in OwnWindow(in, Now) :
            LET B == Selected(View, w, Own(in.user, in.filter))
            IN /\ s.totals.tokens = Tokens(B) /\ s.totals.requests = Requests(B)
               /\ s.totals.costs = Costs(B)
               /\ s.tokenBreakdown = TokenBreakdown(B)
               /\ s.breakdown = Merged(B, OwnDims)
    BY SummaryIs
  <2>2. PICK x \in OwnWindow(in, Now) :
            AreDistributed(page.rows, Selected(View, x, Own(in.user, in.filter)))
    BY DistributionPageIs
  <2>3. w = x
    BY OneWindow
  <2> DEFINE B == Selected(View, w, Own(in.user, in.filter))
  <2>4. AreDistributed(page.rows, B)
    BY <2>2, <2>3
  <2>5. /\ s.totals.tokens = Tokens(B) /\ s.totals.requests = Requests(B)
        /\ s.totals.costs = Costs(B) /\ s.tokenBreakdown = TokenBreakdown(B)
        /\ s.breakdown = Merged(B, OwnDims)
    BY <2>1
  <2>6. IsBuckets(B)
    BY ViewHolds
  <2> HIDE DEF B
  <2> QED
    BY <2>4, <2>5, <2>6, PagesAgree
<1> QED
  BY <1>1, TableInvHolds, PTL

-----------------------------------------------------------------------------
(* The bars of a series.                                                    *)

\* The groups of SeriesMetrics.
TimeKey(B, dimension, dims) == [b \in B |-> <<b.at, GroupKey(b, dimension, dims), b.currency>>]
MetricRow(B, key, k) ==
    [at |-> k[1], key |-> k[2], currency |-> k[3], tokens |-> Tokens(Keyed(B, key, k)),
     requests |-> Requests(Keyed(B, key, k)), cost |-> Amount(Keyed(B, key, k))]
MetricRowsBy(B, key) == {MetricRow(B, key, k) : k \in KeysOf(B, key)}
NameOf(R) == [r \in R |-> <<r.at, r.key, r.currency>>]

LEMMA SeriesMetricsIs ==
    ASSUME NEW B, NEW dimension, NEW dims
    PROVE  SeriesMetrics(B, LAMBDA b : GroupKey(b, dimension, dims))
               = MetricRowsBy(B, TimeKey(B, dimension, dims))
<1> DEFINE key == TimeKey(B, dimension, dims)
           Key(b) == <<b.at, GroupKey(b, dimension, dims), b.currency>>
           Of(k) == {b \in B : Key(b) = k}
           Row(k, C) == [at |-> k[1], key |-> k[2], currency |-> k[3], tokens |-> Tokens(C),
                         requests |-> Requests(C), cost |-> Amount(C)]
<1>1. SeriesMetrics(B, LAMBDA b : GroupKey(b, dimension, dims)) = {Row(k, Of(k)) : k \in {Key(b) : b \in B}}
  BY DEF SeriesMetrics, GroupBy
<1>2. {Key(b) : b \in B} = KeysOf(B, key)
  BY DEF KeysOf, TimeKey
<1>3. \A k : Of(k) = Keyed(B, key, k)
  BY DEF Keyed, TimeKey
<1>4. \A k : Row(k, Of(k)) = MetricRow(B, key, k)
  BY <1>3 DEF MetricRow
<1> HIDE DEF Key, Row, Of, key
<1>5. MetricRowsBy(B, key) = {MetricRow(B, key, k) : k \in KeysOf(B, key)}
  BY DEF MetricRowsBy
<1> QED
  BY <1>1, <1>2, <1>4, <1>5 DEF key

LEMMA MetricRowFacts ==
    ASSUME NEW B, IsBuckets(B), NEW dimension, NEW dims, NEW key, key = TimeKey(B, dimension, dims),
           NEW R, R = MetricRowsBy(B, key), NEW name, name = NameOf(R)
    PROVE  /\ IsFiniteSet(R)
           /\ \A r \in R : /\ name[r] \in KeysOf(B, key)
                           /\ r.tokens = Tokens(Keyed(B, key, name[r]))
                           /\ r.requests = Requests(Keyed(B, key, name[r]))
                           /\ r.cost = Amount(Keyed(B, key, name[r]))
                           /\ \E b \in B : r.at = b.at /\ r.currency = b.currency
           /\ \A r, q \in R : name[r] = name[q] => r = q
           /\ \A k \in KeysOf(B, key) : \E r \in R : name[r] = k
<1> DEFINE K == KeysOf(B, key)
           Row(k) == MetricRow(B, key, k)
<1>1. R = {Row(k) : k \in K}
  BY DEF MetricRowsBy
<1>2. IsFiniteSet(K)
  BY KeyedFacts DEF IsBuckets
<1>3. \A k \in K : \E b \in B : k = <<b.at, GroupKey(b, dimension, dims), b.currency>>
  BY DEF KeysOf, TimeKey
<1>4. \A k \in K : k = <<k[1], k[2], k[3]>> /\ \E b \in B : k[1] = b.at /\ k[3] = b.currency
  BY <1>3
<1>5. \A k : /\ Row(k).at = k[1] /\ Row(k).key = k[2] /\ Row(k).currency = k[3]
             /\ Row(k).tokens = Tokens(Keyed(B, key, k))
             /\ Row(k).requests = Requests(Keyed(B, key, k))
             /\ Row(k).cost = Amount(Keyed(B, key, k))
  BY DEF MetricRow
<1> HIDE DEF Row, K
<1>6. \A r \in R : name[r] = <<r.at, r.key, r.currency>>
  BY DEF NameOf
<1>7. \A k \in K : Row(k) \in R /\ name[Row(k)] = k
  BY <1>1, <1>4, <1>5, <1>6
<1>8. \A r \in R : name[r] \in K /\ r = Row(name[r])
  BY <1>1, <1>7
<1>9. IsFiniteSet(R)
  <2> DEFINE f == [k \in K |-> Row(k)]
  <2>1. \A r \in R : \E k \in K : f[k] = r
    BY <1>1
  <2> HIDE DEF f
  <2> QED
    BY <1>2, <2>1, Images
<1>10. \A r \in R : \E b \in B : r.at = b.at /\ r.currency = b.currency
  BY <1>4, <1>5, <1>8
<1>11. \A r \in R : /\ r.tokens = Tokens(Keyed(B, key, name[r]))
                    /\ r.requests = Requests(Keyed(B, key, name[r]))
                    /\ r.cost = Amount(Keyed(B, key, name[r]))
  BY <1>5, <1>8
<1>12. \A r, q \in R : name[r] = name[q] => r = q
  BY <1>8
<1>13. \A k \in K : \E r \in R : name[r] = k
  BY <1>7
<1> QED
  BY <1>8, <1>9, <1>10, <1>11, <1>12, <1>13 DEF K

\* The rows' tokens, requests and costs are the buckets'.
TokensAt(R) == [r \in R |-> r.tokens]
RequestsAt(R) == [r \in R |-> r.requests]
CostAt(R) == [r \in R |-> r.cost]
WithCurrency(R, currency) == {r \in R : r.currency = currency}

LEMMA MetricRowsAddUp ==
    ASSUME NEW B, IsBuckets(B), NEW dimension, NEW dims,
           NEW R, R = MetricRowsBy(B, TimeKey(B, dimension, dims))
    PROVE  /\ Counts(TokensAt(R), R) /\ SumFunctionOnSet(TokensAt(R), R) = Tokens(B)
           /\ Counts(RequestsAt(R), R) /\ SumFunctionOnSet(RequestsAt(R), R) = Requests(B)
<1> DEFINE key == TimeKey(B, dimension, dims)
           K == KeysOf(B, key)
           part == [k \in K |-> Keyed(B, key, k)]
           name == NameOf(R)
<1>1. IsFiniteSet(B) /\ Counts(TokensIn(B), B) /\ Counts(RequestsIn(B), B)
  BY BucketFacts DEF IsBuckets
<1>2. IsFiniteSet(K) /\ IsPartition(B, K, part)
  BY <1>1, KeyedFacts
<1>3. /\ IsFiniteSet(R)
      /\ \A r \in R : /\ name[r] \in K
                      /\ r.tokens = Tokens(Keyed(B, key, name[r]))
                      /\ r.requests = Requests(Keyed(B, key, name[r]))
      /\ \A r, q \in R : name[r] = name[q] => r = q
      /\ \A k \in K : \E r \in R : name[r] = k
  BY MetricRowFacts
<1>4. \A k : Keyed(B, key, k) \in SUBSET B
  BY DEF Keyed
<1>5. \A k \in K : /\ Tokens(Keyed(B, key, k)) = SumFunctionOnSet(TokensIn(B), part[k])
                   /\ Requests(Keyed(B, key, k)) = SumFunctionOnSet(RequestsIn(B), part[k])
  BY <1>4, PartSums
<1>6. \A r \in R : /\ TokensAt(R)[r] = SumFunctionOnSet(TokensIn(B), part[name[r]])
                   /\ RequestsAt(R)[r] = SumFunctionOnSet(RequestsIn(B), part[name[r]])
  BY <1>3, <1>5 DEF TokensAt, RequestsAt
<1>7. Tokens(B) = SumFunctionOnSet(TokensIn(B), B) /\ Requests(B) = SumFunctionOnSet(RequestsIn(B), B)
  BY PartSums
<1> HIDE DEF key, K, part, name
<1>8. SumFunctionOnSet(TokensAt(R), R) = SumFunctionOnSet(TokensIn(B), B) /\ Counts(TokensAt(R), R)
  BY <1>1, <1>2, <1>3, <1>6, SumRows
<1>9. SumFunctionOnSet(RequestsAt(R), R) = SumFunctionOnSet(RequestsIn(B), B) /\ Counts(RequestsAt(R), R)
  BY <1>1, <1>2, <1>3, <1>6, SumRows
<1> QED
  BY <1>7, <1>8, <1>9

IsCurrency(currency) == currency # Empty

LEMMA MetricCostsAddUp ==
    ASSUME NEW B, IsBuckets(B), NEW dimension, NEW dims,
           NEW R, R = MetricRowsBy(B, TimeKey(B, dimension, dims)), NEW currency, IsCurrency(currency)
    PROVE  /\ Counts(CostAt(R), WithCurrency(R, currency))
           /\ SumFunctionOnSet(CostAt(R), WithCurrency(R, currency)) = Amount(InCurrency(B, currency))
<1> DEFINE key == TimeKey(B, dimension, dims)
           P == InCurrency(B, currency)
           K == KeysOf(B, key)
           part == [k \in K |-> Keyed(P, key, k)]
           name == NameOf(R)
           f == AmountIn(B)
<1>1. \A b : b \in P <=> b \in B /\ b.currency = currency
  BY DEF InCurrency, Priced, IsCurrency
<1>2. P \in SUBSET B
  BY <1>1
<1>3. IsFiniteSet(P) /\ Counts(f, P) /\ Amount(P) = SumFunctionOnSet(f, P)
  <2>1. IsBuckets(P) /\ Amount(P) = SumFunctionOnSet(f, P)
    BY <1>2, PartSums
  <2>2. Counts(f, B) /\ IsFiniteSet(P)
    BY <2>1, BucketFacts DEF IsBuckets
  <2> QED
    BY <1>2, <2>1, <2>2 DEF Counts
<1>4. IsFiniteSet(K) /\ \A b \in B : key[b] \in K
  <2>1. IsFiniteSet(K)
    BY KeyedFacts DEF IsBuckets
  <2>2. \A b \in B : key[b] \in K
    BY DEF KeysOf
  <2> QED
    BY <2>1, <2>2
<1>5. /\ IsFiniteSet(R)
      /\ \A r \in R : name[r] \in K /\ r.cost = Amount(Keyed(B, key, name[r]))
      /\ \A r, q \in R : name[r] = name[q] => r = q
      /\ \A k \in K : \E r \in R : name[r] = k
  BY MetricRowFacts
<1>6. \A r \in R : name[r][3] = r.currency
  BY DEF NameOf
<1>7. \A b \in B : key[b][3] = b.currency
  BY DEF TimeKey
<1>8. \A k : Keyed(P, key, k) = {b \in P : key[b] = k} /\ Keyed(B, key, k) = {b \in B : key[b] = k}
  BY DEF Keyed
<1>9. \A k \in K : part[k] = Keyed(P, key, k)
  OBVIOUS
<1> HIDE DEF key, P, K, part, name, f
<1>10. IsPartition(P, K, part)
  BY <1>2, <1>4, <1>8, <1>9 DEF IsPartition
<1>11. \A r \in WithCurrency(R, currency) : Keyed(B, key, name[r]) = part[name[r]]
  <2> TAKE r \in WithCurrency(R, currency)
  <2>1. r \in R /\ name[r] \in K /\ name[r][3] = currency
    BY <1>5, <1>6 DEF WithCurrency
  <2>2. \A b \in B : key[b] = name[r] => b \in P
    BY <1>1, <1>7, <2>1
  <2> QED
    BY <1>2, <1>8, <1>9, <2>1, <2>2
<1>12. \A r \in WithCurrency(R, currency) : CostAt(R)[r] = SumFunctionOnSet(f, part[name[r]])
  <2> TAKE r \in WithCurrency(R, currency)
  <2>1. r \in R /\ CostAt(R)[r] = Amount(Keyed(B, key, name[r]))
    BY <1>5 DEF WithCurrency, CostAt
  <2>2. Keyed(B, key, name[r]) \in SUBSET B
    BY <1>8
  <2>3. Amount(Keyed(B, key, name[r])) = SumFunctionOnSet(f, Keyed(B, key, name[r]))
    BY <2>2, PartSums DEF f
  <2> QED
    BY <1>11, <2>1, <2>3
<1>13. \A k \in K : (\E r \in WithCurrency(R, currency) : name[r] = k) \/ SumFunctionOnSet(f, part[k]) = 0
  <2> TAKE k \in K
  <2>1. PICK r \in R : name[r] = k
    BY <1>5
  <2>2. CASE r.currency = currency
    BY <2>1, <2>2 DEF WithCurrency
  <2>3. CASE r.currency # currency
    <3>1. \A b \in P : key[b] # k
      BY <1>1, <1>6, <1>7, <2>1, <2>3
    <3>2. part[k] = {}
      BY <1>8, <1>9, <3>1
    <3> QED
      BY <3>2, SumEmpty
  <2> QED
    BY <2>2, <2>3
<1>14. IsFiniteSet(WithCurrency(R, currency))
  <2>1. WithCurrency(R, currency) \in SUBSET R
    BY DEF WithCurrency
  <2> QED
    BY <1>5, <2>1, FS_Subset
<1>15. /\ \A r \in WithCurrency(R, currency) : name[r] \in K
       /\ \A r, q \in WithCurrency(R, currency) : name[r] = name[q] => r = q
  BY <1>5 DEF WithCurrency
<1> DEFINE S == WithCurrency(R, currency)  v == CostAt(R)
<1>16. /\ \A r \in S : v[r] = SumFunctionOnSet(f, part[name[r]]) /\ name[r] \in K
       /\ \A k \in K : (\E r \in S : name[r] = k) \/ SumFunctionOnSet(f, part[k]) = 0
       /\ \A r, q \in S : name[r] = name[q] => r = q
       /\ IsFiniteSet(S)
  BY <1>12, <1>13, <1>14, <1>15
<1> HIDE DEF S, v
<1>17. SumFunctionOnSet(v, S) = SumFunctionOnSet(f, P) /\ Counts(v, S)
  BY <1>3, <1>4, <1>10, <1>16, SumRows
<1> QED
  BY <1>3, <1>17 DEF S, v, P

-----------------------------------------------------------------------------
(* Display buckets.                                                         *)

IsWindow(w) == w.from \in Int /\ w.to \in Int /\ w.from < w.to

LEMMA Quotients ==
    ASSUME NEW a \in Nat, NEW b \in Nat, a <= b, NEW d \in Nat \ {0}
    PROVE  a \div d \in Nat /\ a \div d <= b \div d
<1> DEFINE p == a \div d  q == b \div d
<1>1. p \in Int /\ q \in Int
  OBVIOUS
<1>2. a = d * p + (a % d) /\ 0 <= a % d /\ a % d < d
  OBVIOUS
<1>3. b = d * q + (b % d) /\ 0 <= b % d /\ b % d < d
  OBVIOUS
<1>4. a % d \in Int /\ b % d \in Int
  OBVIOUS
<1> HIDE DEF p, q
<1>5. 0 <= p
  <2> SUFFICES ASSUME p <= -1 PROVE FALSE
    BY <1>1
  <2>1. d * p <= -d
    BY <1>1
  <2> QED
    BY <1>1, <1>2, <1>4, <2>1
<1>6. p <= q
  <2> SUFFICES ASSUME q + 1 <= p PROVE FALSE
    BY <1>1
  <2>1. d * (q + 1) <= d * p
    BY <1>1
  <2>2. d * (q + 1) = d * q + d
    BY <1>1
  <2> QED
    BY <1>1, <1>2, <1>3, <1>4, <2>1, <2>2
<1> QED
  BY <1>1, <1>5, <1>6 DEF p, q

LEMMA BucketThere ==
    ASSUME NEW w, IsWindow(w), NEW width \in Nat \ {0}, NEW at \in Int, w.from <= at, at < w.to
    PROVE  BucketAt(w.from, at, width) \in Buckets(w, width)
<1> DEFINE a == at - w.from  b == w.to - w.from - 1
<1>1. a \in Nat /\ b \in Nat /\ a <= b
  BY DEF IsWindow
<1>2. a \div width \in Nat /\ a \div width <= b \div width
  BY <1>1, Quotients
<1>3. 0 \in Nat /\ 0 <= b \div width /\ b \div width \in Int
  BY <1>1, <1>2
<1>4. Buckets(w, width) = {w.from + i * width : i \in 0..(b \div width)}
  BY DEF Buckets
<1>5. CASE at <= w.from
  <2>1. BucketAt(w.from, at, width) = w.from + 0 * width
    BY <1>5 DEF BucketAt, IsWindow
  <2>2. 0 \in 0..(b \div width)
    BY <1>3
  <2> QED
    BY <1>4, <2>1, <2>2
<1>6. CASE ~ (at <= w.from)
  <2>1. BucketAt(w.from, at, width) = w.from + (a \div width) * width
    BY <1>6 DEF BucketAt
  <2>2. a \div width \in 0..(b \div width)
    BY <1>2, <1>3
  <2> QED
    BY <1>4, <2>1, <2>2
<1> QED
  BY <1>5, <1>6

LEMMA BucketsFinite ==
    ASSUME NEW w, IsWindow(w), NEW width \in Nat \ {0}
    PROVE  IsFiniteSet(Buckets(w, width))
<1> DEFINE n == (w.to - w.from - 1) \div width
           I == 0..n
           f == [i \in I |-> w.from + i * width]
<1>1. n \in Int
  BY DEF IsWindow
<1> HIDE DEF n
<1>2. IsFiniteSet(I)
  BY <1>1, FS_Interval
<1>3. \A x \in Buckets(w, width) : \E i \in I : f[i] = x
  BY DEF Buckets, n
<1> HIDE DEF I, f
<1> QED
  BY <1>2, <1>3, Images

-----------------------------------------------------------------------------
(* The points of a series.                                                  *)

SumTokens(M) == Sum(LAMBDA r : r.tokens, M)
SumRequests(M) == Sum(LAMBDA r : r.requests, M)
SumCost(M) == Sum(LAMBDA r : r.cost, M)

TokensPoint(at, key, M) == Point("tokens", at, key, Empty, SumTokens(M))
RequestsPoint(at, key, M) == Point("requests", at, key, Empty, SumRequests(M))
CostPoint(at, key, c, M) == Point("cost", at, key, c, SumCost(WithCurrency(M, c)))

\* The points of a display bucket and group by metric.
LEMMA MetricPoints ==
    ASSUME NEW M, NEW T, NEW C, NEW currencies, NEW at, NEW key
    PROVE  \A p : LET there == p \in PointsAt(M, T, C, currencies, at, key)
                  IN /\ there /\ p.metric = "tokens" <=> p = TokensPoint(at, key, M)
                     /\ there /\ p.metric = "requests" <=> p = RequestsPoint(at, key, M)
                     /\ \A c : there /\ p.metric = "cost" /\ p.currency = c <=>
                                   c \in currencies /\ p = CostPoint(at, key, c, M)
<1> TAKE p
<1>1. \A metric, currency, value : /\ Point(metric, at, key, currency, value).metric = metric
                                   /\ Point(metric, at, key, currency, value).currency = currency
  BY DEF Point
<1> DEFINE A == PointsAt(M, T, C, currencies, at, key)
           t == TokensPoint(at, key, M)
           q == RequestsPoint(at, key, M)
           n == Point("traces", at, key, Empty, Sum(LAMBDA r : r.traces, T))
           h == Point("cacheHitRate", at, key, Empty,
                      <<Sum(LAMBDA r : r.read, C), Sum(LAMBDA r : r.input, C)>>)
           cost(c) == CostPoint(at, key, c, M)
<1>2. /\ p \in A => p \in {t, q, n, h} \/ \E c \in currencies : p = cost(c)
      /\ t \in A /\ q \in A /\ \A c \in currencies : cost(c) \in A
  <2>1. A = {t, q, n} \cup {h : i \in {Sum(LAMBDA r : r.input, C)} \ {0}} \cup {cost(c) : c \in currencies}
    BY DEF PointsAt, WithCurrency, TokensPoint, RequestsPoint, CostPoint, SumTokens, SumRequests, SumCost
  <2> HIDE DEF A, t, q, n, h, cost
  <2> QED
    BY <2>1
<1>3. /\ t.metric = "tokens" /\ q.metric = "requests" /\ n.metric = "traces"
      /\ h.metric = "cacheHitRate" /\ \A c : cost(c).metric = "cost" /\ cost(c).currency = c
  BY <1>1 DEF TokensPoint, RequestsPoint, CostPoint
<1> HIDE DEF A, t, q, n, h, cost
<1>4. p \in A /\ p.metric = "tokens" <=> p = t
  BY <1>2, <1>3
<1>5. p \in A /\ p.metric = "requests" <=> p = q
  BY <1>2, <1>3
<1>6. \A c : p \in A /\ p.metric = "cost" /\ p.currency = c <=> c \in currencies /\ p = cost(c)
  BY <1>2, <1>3
<1> QED
  BY <1>4, <1>5, <1>6 DEF A, t, q, cost

\* The rows of a display bucket and group.
AtIn(rows, w, width, k) == InBucket(rows, w, width, k[1], k[2])
Cells(w, width, groups) == Buckets(w, width) \X groups

GroupsOf(rows, traceRows, cacheRows) ==
    LET seen == {r.key : r \in rows} \cup {r.key : r \in traceRows} \cup {r.key : r \in cacheRows}
    IN IF seen = {} THEN {Empty} ELSE seen

LEMMA GroupsFacts ==
    ASSUME NEW rows, NEW T, NEW C
    PROVE  /\ \A r \in rows : r.key \in GroupsOf(rows, T, C)
           /\ IsFiniteSet(rows) /\ IsFiniteSet(T) /\ IsFiniteSet(C) => IsFiniteSet(GroupsOf(rows, T, C))
<1> DEFINE A == {r.key : r \in rows}  A2 == {r.key : r \in T}  A3 == {r.key : r \in C}
           seen == A \cup A2 \cup A3
           f == [r \in rows |-> r.key]  f2 == [r \in T |-> r.key]  f3 == [r \in C |-> r.key]
<1>1. GroupsOf(rows, T, C) = IF seen = {} THEN {Empty} ELSE seen
  BY DEF GroupsOf
<1>2. /\ \A x \in A : \E r \in rows : f[r] = x
      /\ \A x \in A2 : \E r \in T : f2[r] = x
      /\ \A x \in A3 : \E r \in C : f3[r] = x
  OBVIOUS
<1>3. \A r \in rows : r.key \in A
  OBVIOUS
<1> HIDE DEF A, A2, A3, f, f2, f3
<1>4. ASSUME IsFiniteSet(rows), IsFiniteSet(T), IsFiniteSet(C) PROVE IsFiniteSet(seen)
  <2>1. IsFiniteSet(A) /\ IsFiniteSet(A2) /\ IsFiniteSet(A3)
    BY <1>2, <1>4, Images
  <2> QED
    BY <2>1, FS_Union
<1>5. IsFiniteSet({Empty})
  BY FS_Singleton
<1>6. A \subseteq seen
  OBVIOUS
<1> HIDE DEF seen
<1>7. \A r \in rows : r.key \in GroupsOf(rows, T, C)
  BY <1>1, <1>3, <1>6
<1> QED
  BY <1>1, <1>4, <1>5, <1>7

LEMMA PointsAre ==
    ASSUME NEW rows, NEW traceRows, NEW cacheRows, NEW w, NEW width
    PROVE  \E T, C : \A p : p \in SeriesPoints(rows, traceRows, cacheRows, w, width).points <=>
               \E k \in Cells(w, width, GroupsOf(rows, traceRows, cacheRows)) :
                   p \in PointsAt(AtIn(rows, w, width, k), T[k], C[k], Currencies(rows, k[2]), k[1], k[2])
<1> DEFINE groups == GroupsOf(rows, traceRows, cacheRows)
           points == SeriesPoints(rows, traceRows, cacheRows, w, width).points
           TOf(at, key) == InBucket(traceRows, w, width, at, key)
           COf(at, key) == InBucket(cacheRows, w, width, at, key)
           At(at, key) == PointsAt(InBucket(rows, w, width, at, key), TOf(at, key), COf(at, key),
                                   Currencies(rows, key), at, key)
           D == Buckets(w, width)
           K == Cells(w, width, groups)
           T == [k \in K |-> TOf(k[1], k[2])]
           C == [k \in K |-> COf(k[1], k[2])]
<1>1. points = UNION {At(at, key) : at \in D, key \in groups}
  BY DEF SeriesPoints, GroupsOf
<1>3. \A k \in K : At(k[1], k[2]) =
          PointsAt(AtIn(rows, w, width, k), T[k], C[k], Currencies(rows, k[2]), k[1], k[2])
  <2> HIDE DEF TOf, COf
  <2> QED
    BY DEF AtIn
<1> HIDE DEF At, T, C, points, groups, D
<1>4. ASSUME NEW p PROVE p \in points <=> \E k \in K : p \in At(k[1], k[2])
  <2>1. ASSUME p \in points PROVE \E k \in K : p \in At(k[1], k[2])
    <3>1. PICK at \in D, key \in groups : p \in At(at, key)
      BY <1>1, <2>1
    <3> DEFINE k == <<at, key>>
    <3>2. k \in K /\ k[1] = at /\ k[2] = key
      BY DEF Cells, D
    <3> HIDE DEF k
    <3> QED
      BY <3>1, <3>2
  <2>2. ASSUME NEW k \in K, p \in At(k[1], k[2]) PROVE p \in points
    BY <1>1, <2>2 DEF Cells, D
  <2> QED
    BY <2>1, <2>2
<1>5. \A p : p \in points <=>
          \E k \in K : p \in PointsAt(AtIn(rows, w, width, k), T[k], C[k], Currencies(rows, k[2]), k[1], k[2])
  BY <1>3, <1>4
<1> QED
  BY <1>5 DEF points, groups

\* The points of a series by metric, a bar for each display bucket and group.
TokensBars(rows, w, width, K) == [k \in K |-> TokensPoint(k[1], k[2], AtIn(rows, w, width, k))]
RequestsBars(rows, w, width, K) == [k \in K |-> RequestsPoint(k[1], k[2], AtIn(rows, w, width, k))]
CostBars(rows, w, width, K, c) == [k \in K |-> CostPoint(k[1], k[2], c, AtIn(rows, w, width, k))]
Priceable(rows, K, c) == {k \in K : c \in Currencies(rows, k[2])}

WithMetric(points, metric) == {p \in points : p.metric = metric}
WithCost(points, c) == {p \in points : p.metric = "cost" /\ p.currency = c}

AreBars(points, rows, w, width, K) ==
    /\ \A p : p \in WithMetric(points, "tokens") <=> \E k \in K : p = TokensBars(rows, w, width, K)[k]
    /\ \A p : p \in WithMetric(points, "requests") <=> \E k \in K : p = RequestsBars(rows, w, width, K)[k]
    /\ \A c, p : p \in WithCost(points, c) <=>
                    \E k \in Priceable(rows, K, c) : p = CostBars(rows, w, width, K, c)[k]

LEMMA BarsAre ==
    ASSUME NEW rows, NEW T, NEW C, NEW w, NEW width, NEW K, K = Cells(w, width, GroupsOf(rows, T, C))
    PROVE  AreBars(SeriesPoints(rows, T, C, w, width).points, rows, w, width, K)
<1> DEFINE points == SeriesPoints(rows, T, C, w, width).points
<1>1. PICK TT, CC : \A p : p \in points <=> \E k \in K :
          p \in PointsAt(AtIn(rows, w, width, k), TT[k], CC[k], Currencies(rows, k[2]), k[1], k[2])
  BY PointsAre
<1> HIDE DEF points
<1> DEFINE M(k) == AtIn(rows, w, width, k)
           A(k) == PointsAt(M(k), TT[k], CC[k], Currencies(rows, k[2]), k[1], k[2])
<1>2. \A k, p : /\ p \in A(k) /\ p.metric = "tokens" <=> p = TokensPoint(k[1], k[2], M(k))
                /\ p \in A(k) /\ p.metric = "requests" <=> p = RequestsPoint(k[1], k[2], M(k))
                /\ \A c : p \in A(k) /\ p.metric = "cost" /\ p.currency = c <=>
                            c \in Currencies(rows, k[2]) /\ p = CostPoint(k[1], k[2], c, M(k))
  BY MetricPoints
<1>3. \A k \in K : /\ TokensBars(rows, w, width, K)[k] = TokensPoint(k[1], k[2], M(k))
                   /\ RequestsBars(rows, w, width, K)[k] = RequestsPoint(k[1], k[2], M(k))
                   /\ \A c : CostBars(rows, w, width, K, c)[k] = CostPoint(k[1], k[2], c, M(k))
  BY DEF TokensBars, RequestsBars, CostBars
<1>4. \A p : p \in points <=> \E k \in K : p \in A(k)
  BY <1>1
<1> HIDE DEF A, M
<1>5. \A p : p \in WithMetric(points, "tokens") <=> \E k \in K : p = TokensBars(rows, w, width, K)[k]
  <2> TAKE p
  <2>1. ASSUME p \in WithMetric(points, "tokens") PROVE \E k \in K : p = TokensBars(rows, w, width, K)[k]
    <3>1. p \in points /\ p.metric = "tokens"
      BY <2>1 DEF WithMetric
    <3>2. PICK k \in K : p \in A(k)
      BY <1>4, <3>1
    <3>3. p = TokensPoint(k[1], k[2], M(k))
      BY <1>2, <3>1, <3>2
    <3> QED
      BY <1>3, <3>3
  <2>2. ASSUME NEW k \in K, p = TokensBars(rows, w, width, K)[k] PROVE p \in WithMetric(points, "tokens")
    <3>1. p = TokensPoint(k[1], k[2], M(k))
      BY <1>3, <2>2
    <3>2. p \in A(k) /\ p.metric = "tokens"
      BY <1>2, <3>1
    <3>3. p \in points
      BY <1>4, <3>2
    <3> QED
      BY <3>2, <3>3 DEF WithMetric
  <2> QED
    BY <2>1, <2>2
<1>6. \A p : p \in WithMetric(points, "requests") <=> \E k \in K : p = RequestsBars(rows, w, width, K)[k]
  <2> TAKE p
  <2>1. ASSUME p \in WithMetric(points, "requests") PROVE \E k \in K : p = RequestsBars(rows, w, width, K)[k]
    <3>1. p \in points /\ p.metric = "requests"
      BY <2>1 DEF WithMetric
    <3>2. PICK k \in K : p \in A(k)
      BY <1>4, <3>1
    <3>3. p = RequestsPoint(k[1], k[2], M(k))
      BY <1>2, <3>1, <3>2
    <3> QED
      BY <1>3, <3>3
  <2>2. ASSUME NEW k \in K, p = RequestsBars(rows, w, width, K)[k] PROVE p \in WithMetric(points, "requests")
    <3>1. p = RequestsPoint(k[1], k[2], M(k))
      BY <1>3, <2>2
    <3>2. p \in A(k) /\ p.metric = "requests"
      BY <1>2, <3>1
    <3>3. p \in points
      BY <1>4, <3>2
    <3> QED
      BY <3>2, <3>3 DEF WithMetric
  <2> QED
    BY <2>1, <2>2
<1>7. ASSUME NEW c, NEW p
      PROVE  p \in WithCost(points, c) <=>
                 \E k \in Priceable(rows, K, c) : p = CostBars(rows, w, width, K, c)[k]
  <2> DEFINE H == Priceable(rows, K, c)
  <2>0. \A k : k \in H <=> k \in K /\ c \in Currencies(rows, k[2])
    BY DEF Priceable
  <2> HIDE DEF H
  <2>1. ASSUME p \in WithCost(points, c) PROVE \E k \in H : p = CostBars(rows, w, width, K, c)[k]
    <3>1. p \in points /\ p.metric = "cost" /\ p.currency = c
      BY <2>1 DEF WithCost
    <3>2. PICK k \in K : p \in A(k)
      BY <1>4, <3>1
    <3>3. c \in Currencies(rows, k[2]) /\ p = CostPoint(k[1], k[2], c, M(k))
      BY <1>2, <3>1, <3>2
    <3> QED
      BY <1>3, <2>0, <3>3
  <2>2. ASSUME NEW k \in H, p = CostBars(rows, w, width, K, c)[k] PROVE p \in WithCost(points, c)
    <3>1. k \in K /\ c \in Currencies(rows, k[2]) /\ p = CostPoint(k[1], k[2], c, M(k))
      BY <1>3, <2>0, <2>2
    <3>2. p \in A(k) /\ p.metric = "cost" /\ p.currency = c
      BY <1>2, <3>1
    <3>3. p \in points
      BY <1>4, <3>1, <3>2
    <3> QED
      BY <3>2, <3>3 DEF WithCost
  <2> QED
    BY <2>1, <2>2 DEF H
<1> QED
  BY <1>5, <1>6, <1>7 DEF points, AreBars

-----------------------------------------------------------------------------
(* Source buckets folded into display buckets.                              *)

\* Bars, one for each part there is.
IsBars(X, K, H, bar, sums) ==
    /\ H \in SUBSET K
    /\ \A k \in K : k = <<k[1], k[2]>>
    /\ \A k \in H : bar[k].at = k[1] /\ bar[k].key = k[2] /\ bar[k].value = sums[k]
    /\ \A p : p \in X <=> \E k \in H : p = bar[k]
    /\ \A k \in K \ H : sums[k] = 0

LEMMA BarsTotal ==
    ASSUME NEW f, NEW S, IsFiniteSet(S), Counts(f, S), NEW K, IsFiniteSet(K),
           NEW part, IsPartition(S, K, part), NEW X, NEW H, NEW bar, NEW sums, IsBars(X, K, H, bar, sums),
           \A k \in K : sums[k] = SumFunctionOnSet(f, part[k])
    PROVE  Sum(LAMBDA p : p.value, X) = SumFunctionOnSet(f, S)
<1> DEFINE name == [p \in X |-> <<p.at, p.key>>]
           v == [p \in X |-> p.value]
<1>1. Sum(LAMBDA p : p.value, X) = SumFunctionOnSet(v, X)
  BY SumIs DEF Sum
<1>2. \A k \in H : bar[k] \in X /\ name[bar[k]] = k /\ v[bar[k]] = sums[k] /\ k \in K
  BY DEF IsBars
<1>3. \A p \in X : \E k \in H : p = bar[k]
  BY DEF IsBars
<1>4. IsFiniteSet(H) /\ \A k \in K \ H : sums[k] = 0
  BY FS_Subset DEF IsBars
<1> HIDE DEF name, v
<1>5. IsFiniteSet(X)
  BY <1>3, <1>4, Images
<1>6. \A p \in X : name[p] \in K /\ v[p] = SumFunctionOnSet(f, part[name[p]])
  BY <1>2, <1>3
<1>7. \A p, q \in X : name[p] = name[q] => p = q
  BY <1>2, <1>3
<1>8. \A k \in K : (\E p \in X : name[p] = k) \/ SumFunctionOnSet(f, part[k]) = 0
  BY <1>2, <1>4
<1>9. SumFunctionOnSet(v, X) = SumFunctionOnSet(f, S)
  BY <1>5, <1>6, <1>7, <1>8, SumRows
<1> QED
  BY <1>1, <1>9

\* Display buckets and groups part the rows.
CellsOf(rows, w, width, groups) == [k \in Cells(w, width, groups) |-> AtIn(rows, w, width, k)]
AreInside(rows, w) == \A r \in rows : r.at \in Int /\ w.from <= r.at /\ r.at < w.to

LEMMA CellsPart ==
    ASSUME NEW rows, NEW w, IsWindow(w), AreInside(rows, w), NEW width \in Nat \ {0},
           NEW groups, IsFiniteSet(groups), \A r \in rows : r.key \in groups
    PROVE  /\ IsFiniteSet(Cells(w, width, groups))
           /\ IsPartition(rows, Cells(w, width, groups), CellsOf(rows, w, width, groups))
<1> DEFINE K == Cells(w, width, groups)  part == CellsOf(rows, w, width, groups)
           D == Buckets(w, width)
<1>1. IsFiniteSet(K)
  BY BucketsFinite, FS_Product DEF Cells
<1>2. \A k \in K : part[k] \in SUBSET rows /\ k = <<k[1], k[2]>>
                   /\ \A r : r \in part[k] <=> r \in rows /\ BucketAt(w.from, r.at, width) = k[1] /\ r.key = k[2]
  BY DEF Cells, CellsOf, AtIn, InBucket
<1>3. \A r \in rows : BucketAt(w.from, r.at, width) \in D
  BY BucketThere DEF AreInside
<1>4. ASSUME NEW r \in rows PROVE \E k \in K : r \in part[k]
  <2> DEFINE k == <<BucketAt(w.from, r.at, width), r.key>>
  <2>1. k \in K /\ k[1] = BucketAt(w.from, r.at, width) /\ k[2] = r.key
    BY <1>3 DEF Cells
  <2> HIDE DEF k, K, part
  <2> QED
    BY <1>2, <2>1
<1> HIDE DEF K, part
<1>5. \A k, l \in K : \A r \in rows : r \in part[k] /\ r \in part[l] => k = l
  BY <1>2
<1>6. IsPartition(rows, K, part)
  BY <1>2, <1>4, <1>5 DEF IsPartition
<1> QED
  BY <1>1, <1>6 DEF K, part

LEMMA SumOfSome ==
    ASSUME NEW R, NEW Q, IsFiniteSet(Q), Q \in SUBSET R
    PROVE  /\ Counts(TokensAt(R), Q) => Sum(LAMBDA r : r.tokens, Q) = SumFunctionOnSet(TokensAt(R), Q)
           /\ Counts(RequestsAt(R), Q) => Sum(LAMBDA r : r.requests, Q) = SumFunctionOnSet(RequestsAt(R), Q)
           /\ Counts(CostAt(R), Q) => Sum(LAMBDA r : r.cost, Q) = SumFunctionOnSet(CostAt(R), Q)
<1>1. /\ Sum(LAMBDA r : r.tokens, Q) = SumFunctionOnSet(TokensAt(Q), Q)
      /\ Sum(LAMBDA r : r.requests, Q) = SumFunctionOnSet(RequestsAt(Q), Q)
      /\ Sum(LAMBDA r : r.cost, Q) = SumFunctionOnSet(CostAt(Q), Q)
  BY SumIs DEF Sum, TokensAt, RequestsAt, CostAt
<1>2. \A r \in Q : /\ TokensAt(R)[r] = TokensAt(Q)[r] /\ RequestsAt(R)[r] = RequestsAt(Q)[r]
                   /\ CostAt(R)[r] = CostAt(Q)[r]
  BY DEF TokensAt, RequestsAt, CostAt
<1>3. Counts(TokensAt(R), Q) => SumFunctionOnSet(TokensAt(R), Q) = SumFunctionOnSet(TokensAt(Q), Q)
  BY <1>2, SumSame
<1>4. Counts(RequestsAt(R), Q) => SumFunctionOnSet(RequestsAt(R), Q) = SumFunctionOnSet(RequestsAt(Q), Q)
  BY <1>2, SumSame
<1>5. Counts(CostAt(R), Q) => SumFunctionOnSet(CostAt(R), Q) = SumFunctionOnSet(CostAt(Q), Q)
  BY <1>2, SumSame
<1> QED
  BY <1>1, <1>3, <1>4, <1>5

\* The sum of the points of a metric: what the rows it folds add up to.
AreTotals(points, R) ==
    /\ Counts(TokensAt(R), R) => ValueOf(points, "tokens") = SumFunctionOnSet(TokensAt(R), R)
    /\ Counts(RequestsAt(R), R) => ValueOf(points, "requests") = SumFunctionOnSet(RequestsAt(R), R)
    /\ \A c : IsCurrency(c) /\ Counts(CostAt(R), WithCurrency(R, c)) =>
           Sum(LAMBDA p : p.value, WithCost(points, c)) = SumFunctionOnSet(CostAt(R), WithCurrency(R, c))

LEMMA MetricTotals ==
    ASSUME NEW R, IsFiniteSet(R), NEW w, IsWindow(w), AreInside(R, w), NEW width \in Nat \ {0},
           NEW T, IsFiniteSet(T), NEW C, IsFiniteSet(C)
    PROVE  AreTotals(SeriesPoints(R, T, C, w, width).points, R)
<1> DEFINE points == SeriesPoints(R, T, C, w, width).points
           groups == GroupsOf(R, T, C)
           K == Cells(w, width, groups)
           part == CellsOf(R, w, width, groups)
<1>1. IsFiniteSet(groups) /\ (\A r \in R : r.key \in groups) /\ K = Cells(w, width, groups)
  BY GroupsFacts
<1>0. K = Cells(w, width, GroupsOf(R, T, C))
  OBVIOUS
<1>7. AreBars(points, R, w, width, K)
  <2> HIDE DEF K
  <2> QED
    BY <1>0, BarsAre
<1> HIDE DEF groups, points
<1>2. IsFiniteSet(K) /\ IsPartition(R, K, part)
  BY <1>1, CellsPart
<1>3. \A k \in K : /\ part[k] = AtIn(R, w, width, k) /\ part[k] \in SUBSET R
                   /\ IsFiniteSet(part[k]) /\ k = <<k[1], k[2]>>
  <2>1. \A k \in K : part[k] = AtIn(R, w, width, k) /\ part[k] \in SUBSET R /\ k = <<k[1], k[2]>>
    BY DEF Cells, CellsOf, AtIn, InBucket
  <2> HIDE DEF part, K
  <2>2. \A k \in K : IsFiniteSet(part[k])
    BY <2>1, FS_Subset
  <2> QED
    BY <2>1, <2>2
<1>4. ASSUME Counts(TokensAt(R), R)
      PROVE  ValueOf(points, "tokens") = SumFunctionOnSet(TokensAt(R), R)
  <2> DEFINE X == WithMetric(points, "tokens")
             bar == TokensBars(R, w, width, K)
             sums == [k \in K |-> SumTokens(AtIn(R, w, width, k))]
  <2>1. \A p : p \in X <=> \E k \in K : p = bar[k]
    BY <1>7 DEF AreBars
  <2>2. \A k \in K : bar[k].at = k[1] /\ bar[k].key = k[2] /\ bar[k].value = sums[k]
    BY DEF TokensBars, TokensPoint, Point
  <2>3. \A k \in K : sums[k] = SumFunctionOnSet(TokensAt(R), part[k])
    <3> TAKE k \in K
    <3>1. Counts(TokensAt(R), part[k])
      BY <1>3, <1>4 DEF Counts
    <3>2. sums[k] = Sum(LAMBDA r : r.tokens, part[k])
      BY <1>3 DEF SumTokens
    <3> HIDE DEF sums, part, K
    <3> QED
      BY <1>3, <3>1, <3>2, SumOfSome
  <2> HIDE DEF X, bar, sums, K, part, points
  <2>4. IsBars(X, K, K, bar, sums)
    BY <1>3, <2>1, <2>2 DEF IsBars
  <2>5. Sum(LAMBDA p : p.value, X) = SumFunctionOnSet(TokensAt(R), R)
    BY <1>2, <1>4, <2>3, <2>4, BarsTotal
  <2> QED
    BY <2>5 DEF ValueOf, WithMetric, X
<1>5. ASSUME Counts(RequestsAt(R), R)
      PROVE  ValueOf(points, "requests") = SumFunctionOnSet(RequestsAt(R), R)
  <2> DEFINE X == WithMetric(points, "requests")
             bar == RequestsBars(R, w, width, K)
             sums == [k \in K |-> SumRequests(AtIn(R, w, width, k))]
  <2>1. \A p : p \in X <=> \E k \in K : p = bar[k]
    BY <1>7 DEF AreBars
  <2>2. \A k \in K : bar[k].at = k[1] /\ bar[k].key = k[2] /\ bar[k].value = sums[k]
    BY DEF RequestsBars, RequestsPoint, Point
  <2>3. \A k \in K : sums[k] = SumFunctionOnSet(RequestsAt(R), part[k])
    <3> TAKE k \in K
    <3>1. Counts(RequestsAt(R), part[k])
      BY <1>3, <1>5 DEF Counts
    <3>2. sums[k] = Sum(LAMBDA r : r.requests, part[k])
      BY <1>3 DEF SumRequests
    <3> HIDE DEF sums, part, K
    <3> QED
      BY <1>3, <3>1, <3>2, SumOfSome
  <2> HIDE DEF X, bar, sums, K, part, points
  <2>4. IsBars(X, K, K, bar, sums)
    BY <1>3, <2>1, <2>2 DEF IsBars
  <2>5. Sum(LAMBDA p : p.value, X) = SumFunctionOnSet(RequestsAt(R), R)
    BY <1>2, <1>5, <2>3, <2>4, BarsTotal
  <2> QED
    BY <2>5 DEF ValueOf, WithMetric, X
<1>6. ASSUME NEW c, IsCurrency(c), Counts(CostAt(R), WithCurrency(R, c))
      PROVE  Sum(LAMBDA p : p.value, WithCost(points, c)) = SumFunctionOnSet(CostAt(R), WithCurrency(R, c))
  <2> DEFINE X == WithCost(points, c)
             Q == WithCurrency(R, c)
             some == CellsOf(Q, w, width, groups)
             sums == [k \in K |-> SumCost(WithCurrency(AtIn(R, w, width, k), c))]
             bar == CostBars(R, w, width, K, c)
             H == Priceable(R, K, c)
  <2>1. \A p : p \in X <=> \E k \in H : p = bar[k]
    BY <1>7 DEF AreBars
  <2>2. \A k \in K : bar[k].at = k[1] /\ bar[k].key = k[2] /\ bar[k].value = sums[k]
    BY DEF CostBars, CostPoint, Point
  <2>3. Q \in SUBSET R /\ IsFiniteSet(Q)
    <3>1. Q \in SUBSET R
      BY DEF WithCurrency
    <3> QED
      BY <3>1, FS_Subset
  <2>4. AreInside(Q, w) /\ \A r \in Q : r.key \in groups
    BY <1>1, <2>3 DEF AreInside
  <2>5. IsPartition(Q, K, some)
    <3> HIDE DEF Q, groups
    <3> QED
      BY <1>1, <2>4, CellsPart
  <2>6. \A k \in K : some[k] = WithCurrency(AtIn(R, w, width, k), c) /\ some[k] \in SUBSET Q
    BY DEF CellsOf, AtIn, InBucket, WithCurrency
  <2>7. \A k \in K : sums[k] = SumFunctionOnSet(CostAt(R), some[k])
    <3> TAKE k \in K
    <3>1. some[k] \in SUBSET Q /\ some[k] \in SUBSET R /\ sums[k] = Sum(LAMBDA r : r.cost, some[k])
      BY <2>3, <2>6 DEF SumCost
    <3> HIDE DEF sums, some, K
    <3>2. Counts(CostAt(R), some[k]) /\ IsFiniteSet(some[k])
      BY <1>6, <2>3, <3>1, FS_Subset DEF Counts
    <3> HIDE DEF Q
    <3> QED
      BY <3>1, <3>2, SumOfSome
  <2>8. \A k \in K \ H : sums[k] = 0
    <3> TAKE k \in K \ H
    <3>1. c \notin Currencies(R, k[2])
      BY DEF Priceable
    <3>2. \A r \in R : r.key = k[2] => r.currency # c
      BY <1>6, <3>1 DEF Currencies, IsCurrency
    <3>3. some[k] = {}
      BY <3>2 DEF CellsOf, AtIn, InBucket, WithCurrency
    <3> HIDE DEF sums, some, H
    <3> QED
      BY <2>7, <3>3, SumEmpty
  <2>9. H \in SUBSET K
    BY DEF Priceable
  <2> HIDE DEF X, bar, sums, K, H, Q, some, points
  <2>10. IsBars(X, K, H, bar, sums)
    BY <1>3, <2>1, <2>2, <2>8, <2>9 DEF IsBars
  <2>11. Counts(CostAt(R), Q)
    BY <1>6 DEF Q
  <2>12. Sum(LAMBDA p : p.value, X) = SumFunctionOnSet(CostAt(R), Q)
    BY <1>2, <2>3, <2>5, <2>7, <2>10, <2>11, BarsTotal
  <2> QED
    BY <2>12 DEF X, Q
<1> QED
  BY <1>4, <1>5, <1>6 DEF points, AreTotals

-----------------------------------------------------------------------------
(* The series of a question.                                                *)

\* The rows a series is folded of.
MetricsOf(B, dimension, dims) == SeriesMetrics(B, LAMBDA b : GroupKey(b, dimension, dims))
TracesOf(R, dimension, dims, width, origin) ==
    SeriesTraces(R, LAMBDA r : GroupKey(r, dimension, dims), width, origin)
HitsOf(B, dimension, dims) == CacheHitRateSeries(B, LAMBDA b : GroupKey(b, dimension, dims))

LEMMA TraceRowsFinite ==
    ASSUME NEW R, IsFiniteSet(R), NEW dimension, NEW dims, NEW width, NEW origin
    PROVE  IsFiniteSet(TracesOf(R, dimension, dims, width, origin))
<1> DEFINE Key(r) == <<TimeBucket(width, r.at, origin), GroupKey(r, dimension, dims)>>
           S == InTrace(R)
           Row(k, C) == [at |-> k[1], key |-> k[2], traces |-> Spans(C)]
           X == {Row(k, {r \in S : Key(r) = k}) : k \in {Key(r) : r \in S}}
           f == [r \in S |-> Row(Key(r), {q \in S : Key(q) = Key(r)})]
<1>1. TracesOf(R, dimension, dims, width, origin) = X
  BY DEF TracesOf, SeriesTraces, GroupBy
<1>2. IsFiniteSet(S)
  <2>1. S \in SUBSET R
    BY DEF InTrace
  <2> QED
    BY <2>1, FS_Subset
<1> HIDE DEF Key, Row, S
<1>3. \A x \in X : \E r \in S : f[r] = x
  OBVIOUS
<1> HIDE DEF X, f
<1> QED
  BY <1>1, <1>2, <1>3, Images

LEMMA CacheRowsFinite ==
    ASSUME NEW B, IsFiniteSet(B), NEW dimension, NEW dims
    PROVE  IsFiniteSet(HitsOf(B, dimension, dims))
<1> DEFINE Key(b) == <<b.at, GroupKey(b, dimension, dims)>>
           Row(k, C) == [at |-> k[1], key |-> k[2],
                         read |-> Sum(LAMBDA b : b.tokens["cacheRead"], C),
                         input |-> Sum(InputOf, C)]
           X == {Row(k, {b \in B : Key(b) = k}) : k \in {Key(b) : b \in B}}
           f == [b \in B |-> Row(Key(b), {q \in B : Key(q) = Key(b)})]
<1>1. HitsOf(B, dimension, dims) = {x \in X : x.input > 0}
  BY DEF HitsOf, CacheHitRateSeries, GroupBy
<1> HIDE DEF Key, Row
<1>2. \A x \in X : \E b \in B : f[b] = x
  OBVIOUS
<1> HIDE DEF X, f
<1>3. IsFiniteSet(X)
  BY <1>2, Images
<1>4. {x \in X : x.input > 0} \in SUBSET X
  OBVIOUS
<1> QED
  BY <1>1, <1>3, <1>4, FS_Subset

\* Windows and widths.
LEMMA Smaller ==
    ASSUME NEW a \in Nat \ {0}, NEW b \in Nat \ {0}
    PROVE  Min({a, b}) \in Nat \ {0}
<1>1. \E x \in {a, b} : \A y \in {a, b} : x <= y
  <2>1. CASE a <= b
    BY <2>1
  <2>2. CASE b <= a
    BY <2>2
  <2> QED
    BY <2>1, <2>2
<1>2. Min({a, b}) \in {a, b}
  BY <1>1, Zenon DEF Min
<1> QED
  BY <1>2

LEMMA AreWidths ==
    ASSUME NEW bucket, NEW span
    PROVE  SeriesBucket(bucket, span) \subseteq Nat \ {0}
<1>1. /\ Hour \in Nat \ {0} /\ 6 * Hour \in Nat \ {0} /\ 12 * Hour \in Nat \ {0} /\ Day \in Nat \ {0}
      /\ 4 * Hour \in Nat \ {0} /\ 8 * Hour \in Nat \ {0} /\ {x \in {10} : span <= 7 * Day} \subseteq Nat \ {0}
  BY DEF Hour, Day
<1>2. AutoBucket(span) \in Nat \ {0}
  BY <1>1 DEF AutoBucket
<1>3. \/ SeriesBucket(bucket, span) = {AutoBucket(span)}
      \/ SeriesBucket(bucket, span) = {x \in {10} : span <= 7 * Day}
      \/ SeriesBucket(bucket, span) = {Hour}
      \/ SeriesBucket(bucket, span) = {6 * Hour}
      \/ SeriesBucket(bucket, span) = {12 * Hour}
      \/ SeriesBucket(bucket, span) = {Day}
      \/ SeriesBucket(bucket, span) = {}
  <2> HIDE <1>1, <1>2
  <2>1. CASE bucket \in {"", "auto"}
    BY <2>1 DEF SeriesBucket
  <2>2. CASE bucket = "10m"
    BY <2>2 DEF SeriesBucket
  <2>3. CASE bucket = "1h"
    BY <2>3 DEF SeriesBucket
  <2>4. CASE bucket = "6h"
    BY <2>4 DEF SeriesBucket
  <2>5. CASE bucket = "12h"
    BY <2>5 DEF SeriesBucket
  <2>6. CASE bucket = "24h"
    BY <2>6 DEF SeriesBucket
  <2>7. CASE bucket \notin {"", "auto", "10m", "1h", "6h", "12h", "24h"}
    BY <2>7 DEF SeriesBucket
  <2> QED
    BY <2>1, <2>2, <2>3, <2>4, <2>5, <2>6, <2>7
<1> QED
  BY <1>1, <1>2, <1>3

LEMMA Presets ==
    ASSUME NEW range, NEW align \in Nat \ {0}
    PROVE  \A w \in PresetWindow(range, Now, align) : IsWindow(w) /\ w = [from |-> w.from, to |-> w.to]
<1>1. \A key \in DOMAIN Lookback : Lookback[key] \in Nat \ {0}
  BY DEF Lookback, Hour, Day
<1>2. Now - (Now % align) + align \in Int
  BY NowAssumption
<1>3. TAKE w \in PresetWindow(range, Now, align)
<1> DEFINE end == Now - (Now % align) + align
<1>4. PICK key \in DOMAIN Lookback : w = [from |-> end - Lookback[key], to |-> end]
  BY DEF PresetWindow
<1> HIDE DEF end
<1> QED
  BY <1>1, <1>2, <1>4 DEF IsWindow, end

LEMMA Customs ==
    ASSUME NEW range, range.from \in Int, range.to \in Int
    PROVE  \A w \in CustomWindow(range) : IsWindow(w) /\ w = [from |-> w.from, to |-> w.to]
BY DEF CustomWindow, IsWindow

LEMMA SeriesWindows ==
    ASSUME NEW range \in Ranges, NEW bucket
    PROVE  \A s \in SeriesWindow(range, bucket, Now) :
               IsWindow(s.w) /\ s.w = [from |-> s.w.from, to |-> s.w.to] /\ s.width \in Nat \ {0}
<1> TAKE s \in SeriesWindow(range, bucket, Now)
<1>1. CASE range.key = "custom"
  <2>1. PICK w \in CustomWindow(range) : \E width \in SeriesBucket(bucket, w.to - w.from) :
            s = [w |-> w, width |-> width]
    BY <1>1 DEF SeriesWindow
  <2>2. PICK width \in SeriesBucket(bucket, w.to - w.from) : s = [w |-> w, width |-> width]
    BY <2>1
  <2> QED
    BY <1>1, <2>1, <2>2, Customs, AreWidths, RangesAssumption
<1>2. CASE range.key # "custom"
  <2> DEFINE W == UNION {SeriesBucket(bucket, Lookback[key]) : key \in {range.key} \cap DOMAIN Lookback}
  <2>1. PICK width \in W : s \in {[w |-> w, width |-> width] : w \in PresetWindow(range, Now, Min({width, Hour}))}
    BY <1>2 DEF SeriesWindow
  <2>2. PICK w \in PresetWindow(range, Now, Min({width, Hour})) : s = [w |-> w, width |-> width]
    BY <2>1
  <2>3. W \subseteq Nat \ {0}
    BY AreWidths
  <2> HIDE DEF W
  <2>4. width \in Nat \ {0} /\ Min({width, Hour}) \in Nat \ {0}
    BY <2>3, Smaller DEF Hour
  <2> QED
    BY <2>2, <2>4, Presets
<1> QED
  BY <1>1, <1>2

\* The bars of the buckets B.
AreBarsOf(points, B) ==
    /\ ValueOf(points, "tokens") = Tokens(B)
    /\ ValueOf(points, "requests") = Requests(B)
    /\ \A c : IsCurrency(c) =>
            Sum(LAMBDA p : p.value, WithCost(points, c)) = Amount(InCurrency(B, c))

LEMMA SeriesTotals ==
    ASSUME NEW B, IsBuckets(B), NEW w, IsWindow(w), AreInside(B, w), NEW width \in Nat \ {0},
           NEW T, IsFiniteSet(T), NEW C, IsFiniteSet(C), NEW dimension, NEW dims
    PROVE  AreBarsOf(SeriesPoints(MetricsOf(B, dimension, dims),
                                  T, C, w, width).points, B)
<1> DEFINE key == TimeKey(B, dimension, dims)
           R == MetricRowsBy(B, key)
<1>1. MetricsOf(B, dimension, dims) = R
  BY SeriesMetricsIs DEF MetricsOf
<1>2. IsFiniteSet(R) /\ \A r \in R : \E b \in B : r.at = b.at
  BY MetricRowFacts
<1>3. AreInside(R, w)
  BY <1>2 DEF AreInside
<1>4. /\ Counts(TokensAt(R), R) /\ SumFunctionOnSet(TokensAt(R), R) = Tokens(B)
      /\ Counts(RequestsAt(R), R) /\ SumFunctionOnSet(RequestsAt(R), R) = Requests(B)
  BY MetricRowsAddUp
<1>5. \A c : IsCurrency(c) => /\ Counts(CostAt(R), WithCurrency(R, c))
                             /\ SumFunctionOnSet(CostAt(R), WithCurrency(R, c)) = Amount(InCurrency(B, c))
  <2> TAKE c
  <2> HAVE IsCurrency(c)
  <2> QED
    BY MetricCostsAddUp
<1> HIDE DEF key, R
<1> DEFINE points == SeriesPoints(R, T, C, w, width).points
<1>6. AreTotals(points, R)
  BY <1>2, <1>3, MetricTotals
<1> HIDE DEF points
<1>7. AreBarsOf(points, B)
  BY <1>4, <1>5, <1>6 DEF AreBarsOf, AreTotals
<1> QED
  BY <1>1, <1>7 DEF points

LEMMA CostCurrencies == ASSUME NEW B PROVE \A c \in Costs(B) : IsCurrency(c.currency)
<1> DEFINE Row(k) == [currency |-> k, amount |-> Amount({b \in Priced(B) : b.currency = k})]
<1>1. Costs(B) = {Row(k) : k \in {b.currency : b \in Priced(B)}}
  BY DEF Costs, GroupBy
<1>2. \A k : Row(k).currency = k
  OBVIOUS
<1>3. \A b \in Priced(B) : IsCurrency(b.currency)
  BY DEF Priced, IsCurrency
<1> HIDE DEF Row
<1> QED
  BY <1>1, <1>2, <1>3

\* The buckets of a question.
OwnBuckets(in, w) == Selected(View, w, Own(in.user, in.filter))
AdminBuckets(in, w) == Selected(View, w, in.filter)

LEMMA SelectedInside ==
    ASSUME TableInv, NEW w, NEW filter
    PROVE  IsBuckets(Selected(View, w, filter)) /\ AreInside(Selected(View, w, filter), w)
<1>1. IsBuckets(Selected(View, w, filter)) /\ \A b \in View : b.at \in Int
  BY ViewHolds
<1> QED
  BY <1>1 DEF AreInside, Selected

\* The series of the requests that pass a filter.
SeriesOf(filter, dimension, dims, w, width) ==
    SeriesPoints(MetricsOf(Selected(View, w, filter), dimension, dims),
                 TracesOf(Selected(request, w, filter), dimension, dims, width, w.from),
                 HitsOf(Selected(View, w, filter), dimension, dims), w, width)

LEMMA SeriesOfFacts ==
    ASSUME TableInv, NEW filter, NEW dimension, NEW dims, NEW w, IsWindow(w), NEW width \in Nat \ {0}
    PROVE  /\ AreBarsOf(SeriesOf(filter, dimension, dims, w, width).points, Selected(View, w, filter))
           /\ SeriesOf(filter, dimension, dims, w, width).window = w
<1> DEFINE B == Selected(View, w, filter)
           R == Selected(request, w, filter)
           T == TracesOf(R, dimension, dims, width, w.from)
           C == HitsOf(B, dimension, dims)
<1>1. SeriesOf(filter, dimension, dims, w, width) = SeriesPoints(MetricsOf(B, dimension, dims), T, C, w, width)
  BY DEF SeriesOf
<1>2. IsBuckets(B) /\ AreInside(B, w) /\ IsFiniteSet(B)
  BY SelectedInside DEF IsBuckets
<1>3. IsFiniteSet(R)
  <2>1. R \in SUBSET request
    BY DEF Selected
  <2> QED
    BY <2>1, FS_Subset DEF TableInv
<1> HIDE DEF B, R
<1>4. IsFiniteSet(T)
  BY <1>3, TraceRowsFinite
<1>5. IsFiniteSet(C)
  BY <1>2, CacheRowsFinite
<1> HIDE DEF T, C
<1>6. AreBarsOf(SeriesPoints(MetricsOf(B, dimension, dims), T, C, w, width).points, B)
  BY <1>2, <1>4, <1>5, SeriesTotals
<1>7. SeriesPoints(MetricsOf(B, dimension, dims), T, C, w, width).window = w
  BY DEF SeriesPoints
<1> QED
  BY <1>1, <1>6, <1>7 DEF B

\* The user's series.
LEMMA SeriesIs ==
    ASSUME TableInv, NEW in, in.range \in Ranges, NEW series \in GetOverviewSeries(data, in, Now)
    PROVE  \E s \in OwnSeriesWindow(in, Now) :
               /\ IsWindow(s.w) /\ s.w = [from |-> s.w.from, to |-> s.w.to]
               /\ series.window = s.w
               /\ AreBarsOf(series.points, OwnBuckets(in, s.w))
<1>1. PICK s \in OwnSeriesWindow(in, Now) :
          series = SeriesOf(Own(in.user, in.filter), in.dimension, OwnDims, s.w, s.width)
  BY DEF GetOverviewSeries, data, View, SeriesOf, ListOverviewSeriesMetrics, ListOverviewSeriesTraces,
         ListOverviewCacheHitRateSeries, MetricsOf, TracesOf, HitsOf
<1>2. s \in SeriesWindow(in.range, in.bucket, Now)
  BY DEF OwnSeriesWindow
<1>3. IsWindow(s.w) /\ s.w = [from |-> s.w.from, to |-> s.w.to] /\ s.width \in Nat \ {0}
  BY <1>2, SeriesWindows
<1>4. /\ AreBarsOf(SeriesOf(Own(in.user, in.filter), in.dimension, OwnDims, s.w, s.width).points,
                   Selected(View, s.w, Own(in.user, in.filter)))
      /\ SeriesOf(Own(in.user, in.filter), in.dimension, OwnDims, s.w, s.width).window = s.w
  BY <1>3, SeriesOfFacts
<1> QED
  BY <1>1, <1>3, <1>4 DEF OwnBuckets

\* The summary over the series' window.
LEMMA SameWindow ==
    ASSUME NEW in, NEW w, w = [from |-> w.from, to |-> w.to],
           NEW x \in OwnWindow([in EXCEPT !.range = Same(w)], Now), "range" \in DOMAIN in
    PROVE  x = w
<1>1. [in EXCEPT !.range = Same(w)].range = Same(w)
  OBVIOUS
<1>2. x \in CustomWindow(Same(w))
  BY <1>1 DEF OwnWindow, OverviewWindow, Same
<1> QED
  BY <1>2 DEF CustomWindow, Same

\* The bars of a series, whatever its width, dimension and alignment, are the
\* summary's totals over its window (handle_overview.go).
THEOREM BarsAddUpHolds == Spec => []BarsAddUp
<1>1. TableInv => BarsAddUp
  <2> SUFFICES ASSUME TableInv, NEW in \in OwnQuestions,
                      NEW series \in GetOverviewSeries(data, in, Now),
                      NEW summary \in GetOverviewSummary(data, [in EXCEPT !.range = Same(series.window)], Now)
               PROVE  /\ ValueOf(series.points, "tokens") = summary.totals.tokens
                      /\ ValueOf(series.points, "requests") = summary.totals.requests
                      /\ \A c \in summary.totals.costs :
                          Sum(LAMBDA p : p.value,
                              {p \in series.points : p.metric = "cost" /\ p.currency = c.currency}) = c.amount
    BY DEF BarsAddUp
  <2> DEFINE there == [in EXCEPT !.range = Same(series.window)]
  <2>1. /\ in.range \in Ranges /\ there.user = in.user /\ there.filter = in.filter
        /\ "range" \in DOMAIN in
    BY DEF OwnQuestions, Questions, Ask
  <2>2. PICK s \in OwnSeriesWindow(in, Now) :
            /\ IsWindow(s.w) /\ s.w = [from |-> s.w.from, to |-> s.w.to]
            /\ series.window = s.w
            /\ AreBarsOf(series.points, OwnBuckets(in, s.w))
    BY <2>1, SeriesIs
  <2>3. PICK x \in OwnWindow(there, Now) :
            LET B == Selected(View, x, Own(there.user, there.filter))
            IN /\ summary.totals.tokens = Tokens(B) /\ summary.totals.requests = Requests(B)
               /\ summary.totals.costs = Costs(B)
               /\ summary.tokenBreakdown = TokenBreakdown(B)
               /\ summary.breakdown = Merged(B, OwnDims)
    BY SummaryIs
  <2>4. x = s.w
    BY <2>1, <2>2, SameWindow
  <2> DEFINE B == OwnBuckets(in, s.w)
  <2>5. /\ summary.totals.tokens = Tokens(B) /\ summary.totals.requests = Requests(B)
        /\ summary.totals.costs = Costs(B)
    BY <2>1, <2>3, <2>4 DEF OwnBuckets
  <2>6. \A c \in Costs(B) : c.amount = Amount(InCurrency(B, c.currency)) /\ IsCurrency(c.currency)
    BY CostsFacts, CostCurrencies
  <2> HIDE DEF B
  <2>7. /\ ValueOf(series.points, "tokens") = Tokens(B)
        /\ ValueOf(series.points, "requests") = Requests(B)
        /\ \A c : IsCurrency(c) =>
               Sum(LAMBDA p : p.value, WithCost(series.points, c)) = Amount(InCurrency(B, c))
    BY <2>2 DEF AreBarsOf, B
  <2>8. \A c \in summary.totals.costs :
            Sum(LAMBDA p : p.value, WithCost(series.points, c.currency)) = c.amount
    BY <2>5, <2>6, <2>7
  <2> QED
    BY <2>5, <2>7, <2>8 DEF WithCost
<1> QED
  BY <1>1, TableInvHolds, PTL

-----------------------------------------------------------------------------
(* Whose the requests and the traces are.                                   *)

\* A trace is some user's.
TracesInv == IsFiniteSet(traces) /\ \A t \in traces : "user" \in DOMAIN t /\ t.user \in Users

LEMMA TracesInvHolds == Spec => []TracesInv
<1>1. Init => TracesInv
  BY FS_EmptySet DEF Init, TracesInv
<1>2. TracesInv /\ [Next]_vars => TracesInv'
  <2> SUFFICES ASSUME TracesInv, [Next]_vars PROVE TracesInv'
    OBVIOUS
  <2>1. CASE UNCHANGED vars
    BY <2>1 DEF vars, TracesInv
  <2>3. ASSUME NEW r \in Pool, InsertRequest(r) PROVE TracesInv'
    BY <2>3 DEF InsertRequest, TracesInv
  <2>2. ASSUME NEW r \in Pool, UpsertTrace(r) PROVE TracesInv'
    <3> DEFINE span == r.span  user == r.dims["user"]  at == r.at
               same == {t \in traces : t.span = span /\ t.user = user}
               new == [id |-> Traces!Cardinality(traces) + 1, span |-> span, user |-> user, first |-> at, last |-> at]
               longer == {Traces!Extended(t, at, at) : t \in same}
    <3>1. \/ traces' = traces
          \/ user # NullName /\ traces' = traces \cup {new}
          \/ traces' = (traces \ same) \cup longer
      <4>1. traces' = IF span = NullName \/ user = NullName THEN traces
                      ELSE IF same = {} THEN traces \cup {new} ELSE (traces \ same) \cup longer
        BY <2>2 DEF UpsertTrace, Traces!UpsertTrace, Traces!PutTrace
      <4> HIDE DEF same, new, longer, user, span
      <4> QED
        BY <4>1
    <3>2. user # NullName => user \in Users
      BY PoolAssumption
    <3>3. \A t \in longer : "user" \in DOMAIN t /\ t.user \in Users
      BY DEF Traces!Extended, TracesInv
    <3>4. IsFiniteSet(traces \ same) /\ IsFiniteSet(longer)
      <4>1. IsFiniteSet(traces \ same) /\ IsFiniteSet(same)
        BY FS_Subset DEF TracesInv
      <4> DEFINE f == [t \in same |-> Traces!Extended(t, at, at)]
      <4>2. \A t \in longer : \E s \in same : f[s] = t
        OBVIOUS
      <4> HIDE DEF same, longer, f
      <4> QED
        BY <4>1, <4>2, Images
    <3>5. "user" \in DOMAIN new /\ new.user = user
      OBVIOUS
    <3> HIDE DEF same, longer, new
    <3>6. IsFiniteSet(traces \cup {new}) /\ IsFiniteSet((traces \ same) \cup longer)
      BY <3>4, FS_AddElement, FS_Union DEF TracesInv
    <3> QED
      BY <3>1, <3>2, <3>3, <3>5, <3>6 DEF TracesInv
  <2> QED
    BY <2>1, <2>2, <2>3 DEF Next
<1> QED
  BY <1>1, <1>2, PTL DEF Spec

\* A bucket is an upstream row's, and some user's.
LEMMA BucketsAreRows ==
    \A b \in View : \E r \in {q \in request : q.type = 1} : b.dims = r.dims
<1> DEFINE T == {r \in request : r.type = 1}
           Key(r) == <<TenMinutes(r.at), r.dims, OrEmpty(r.currency)>>
<1> DEFINE Row(k) == [at |-> k[1], dims |-> k[2], currency |-> k[3],
                      requests |-> Cardinality({r \in T : Key(r) = k}),
                      cost |-> Sum(LAMBDA r : OrZero(r.cost), {r \in T : Key(r) = k}),
                      tokens |-> [kind \in Kinds |->
                                     Sum(LAMBDA r : OrZero(r.tokens[kind]), {r \in T : Key(r) = k})]]
<1>4. View = {Row(k) : k \in {Key(r) : r \in T}}
  BY DEF View, RequestOverviewBucketed, GroupBy
<1>5. \A k : Row(k).dims = k[2]
  OBVIOUS
<1> HIDE DEF Row
<1>1. \A b \in View : \E r \in T : b.dims = Key(r)[2]
  BY <1>4, <1>5
<1>2. \A r : Key(r)[2] = r.dims
  OBVIOUS
<1> QED
  BY <1>1, <1>2

LEMMA BucketsOwned == ASSUME TableInv PROVE \A b \in View : b.dims["user"] \in Users
BY BucketsAreRows, PoolAssumption DEF TableInv

-----------------------------------------------------------------------------
(* The users' parts of what an administrator sees.                          *)

Others(filter) == [d \in DOMAIN filter \ {"user"} |-> filter[d]]
UsersSeen(filter) == {u \in Users : "user" \in DOMAIN filter => u = filter["user"]}
PartOf(w, filter) == [u \in UsersSeen(filter) |-> Selected(View, w, Own(u, Others(filter)))]

LEMMA SeenFinite == ASSUME NEW filter PROVE IsFiniteSet(UsersSeen(filter))
<1>1. UsersSeen(filter) \in SUBSET Users
  BY DEF UsersSeen
<1> QED
  BY <1>1, UsersAssumption, FS_Subset

LEMMA UsersPart ==
    ASSUME TableInv, NEW w, NEW filter
    PROVE  IsPartition(Selected(View, w, filter), UsersSeen(filter), PartOf(w, filter))
<1> DEFINE S == Selected(View, w, filter)
           K == UsersSeen(filter)
           P(u) == Selected(View, w, Own(u, Others(filter)))
<1>1. ASSUME NEW u
      PROVE  \A b : b \in P(u) <=> /\ b \in View /\ w.from <= b.at /\ b.at < w.to
                                   /\ b.dims["user"] = u
                                   /\ \A d \in DOMAIN filter \ {"user"} : b.dims[d] = filter[d]
  BY DEF Selected, Own, Others
<1>2. \A b : b \in S <=> /\ b \in View /\ w.from <= b.at /\ b.at < w.to
                         /\ \A d \in DOMAIN filter : b.dims[d] = filter[d]
  BY DEF Selected
<1>3. \A u : u \in K <=> u \in Users /\ ("user" \in DOMAIN filter => u = filter["user"])
  BY DEF UsersSeen
<1>4. \A u \in K : PartOf(w, filter)[u] = P(u)
  BY DEF PartOf
<1> HIDE DEF S, K, P
<1>5. \A u \in K : \A b \in P(u) : b \in S
  BY <1>1, <1>2, <1>3
<1>6. \A b \in S : b.dims["user"] \in K /\ b \in P(b.dims["user"])
  BY <1>1, <1>2, <1>3, BucketsOwned
<1>7. \A u, v \in K : \A b : b \in P(u) /\ b \in P(v) => u = v
  BY <1>1
<1>8. IsPartition(S, K, PartOf(w, filter))
  BY <1>4, <1>5, <1>6, <1>7 DEF IsPartition
<1> QED
  BY <1>8 DEF S, K

\* The users' totals add up to the administrator's.
TokensOfUsers(w, filter) == [u \in UsersSeen(filter) |-> Tokens(Selected(View, w, Own(u, Others(filter))))]
RequestsOfUsers(w, filter) ==
    [u \in UsersSeen(filter) |-> Requests(Selected(View, w, Own(u, Others(filter))))]

LEMMA UsersAddUp ==
    ASSUME TableInv, NEW w, NEW filter
    PROVE  /\ SumFunction(TokensOfUsers(w, filter)) = Tokens(Selected(View, w, filter))
           /\ SumFunction(RequestsOfUsers(w, filter)) = Requests(Selected(View, w, filter))
<1> DEFINE S == Selected(View, w, filter)
           K == UsersSeen(filter)
           part == PartOf(w, filter)
           t == TokensOfUsers(w, filter)
           q == RequestsOfUsers(w, filter)
<1>1. /\ \A u \in K : part[u] = Selected(View, w, Own(u, Others(filter)))
      /\ \A u \in K : t[u] = Tokens(Selected(View, w, Own(u, Others(filter))))
      /\ \A u \in K : q[u] = Requests(Selected(View, w, Own(u, Others(filter))))
      /\ DOMAIN t = K /\ DOMAIN q = K
  BY DEF PartOf, TokensOfUsers, RequestsOfUsers
<1>2. IsBuckets(S) /\ IsFiniteSet(K) /\ IsPartition(S, K, part)
  BY ViewHolds, SeenFinite, UsersPart
<1> HIDE DEF S, K, part, t, q
<1>3. IsFiniteSet(S) /\ Counts(TokensIn(S), S) /\ Counts(RequestsIn(S), S)
  BY <1>2, BucketFacts DEF IsBuckets
<1>4. /\ \A u \in K : part[u] \in SUBSET S
      /\ \A x \in S : \E u \in K : x \in part[u]
      /\ \A u, v \in K : \A x \in S : x \in part[u] /\ x \in part[v] => u = v
  BY <1>2 DEF IsPartition
<1>5. \A u \in K : /\ t[u] = SumFunctionOnSet(TokensIn(S), part[u])
                   /\ q[u] = SumFunctionOnSet(RequestsIn(S), part[u])
  BY <1>1, <1>2, <1>4, PartSums
<1>6. Tokens(S) = SumFunctionOnSet(TokensIn(S), S) /\ Requests(S) = SumFunctionOnSet(RequestsIn(S), S)
  BY <1>2, PartSums
<1>7. SumFunctionOnSet(t, K) = SumFunctionOnSet(TokensIn(S), S)
  BY <1>2, <1>3, <1>4, <1>5, SumParts
<1>8. SumFunctionOnSet(q, K) = SumFunctionOnSet(RequestsIn(S), S)
  BY <1>2, <1>3, <1>4, <1>5, SumParts
<1>9. SumFunction(t) = SumFunctionOnSet(t, K) /\ SumFunction(q) = SumFunctionOnSet(q, K)
  BY <1>1, SumIs
<1> QED
  BY <1>6, <1>7, <1>8, <1>9 DEF S, t, q

\* The users' traces.
TracesOfUser(S, u) == {t \in S : t.user = u}
CountsOfUsers(S) == [u \in Users |-> Cardinality(TracesOfUser(S, u))]

LEMMA TracesAddUp ==
    ASSUME NEW S, IsFiniteSet(S), \A t \in S : t.user \in Users
    PROVE  SumFunction(CountsOfUsers(S)) = Cardinality(S)
<1> DEFINE one == [t \in S |-> 1]
           part == [u \in Users |-> TracesOfUser(S, u)]
           key == [t \in S |-> t.user]
           g == CountsOfUsers(S)
<1>1. /\ \A t \in S : one[t] = 1 /\ key[t] \in Users
      /\ \A u \in Users : part[u] \in SUBSET S /\ g[u] = Cardinality(part[u])
      /\ \A u \in Users : \A t \in S : t \in part[u] <=> key[t] = u
      /\ DOMAIN g = Users
  BY DEF TracesOfUser, CountsOfUsers
<1> HIDE DEF one, part, key, g
<1>2. Counts(one, S) /\ SumFunctionOnSet(one, S) = Cardinality(S)
  BY <1>1, SumCounts DEF Counts
<1>3. \A u \in Users : g[u] = SumFunctionOnSet(one, part[u])
  <2> TAKE u \in Users
  <2>1. IsFiniteSet(part[u]) /\ \A t \in part[u] : one[t] = 1
    BY <1>1, FS_Subset
  <2> QED
    BY <1>1, <2>1, SumCounts
<1>4. SumFunctionOnSet(g, Users) = SumFunctionOnSet(one, S)
  BY <1>1, <1>2, <1>3, UsersAssumption, SumGroups
<1> QED
  BY <1>1, <1>2, <1>4, SumIs DEF g

-----------------------------------------------------------------------------
(* What an administrator asks, and what a user asked the same.              *)

LEMMA AsFacts ==
    ASSUME NEW in \in AdminQuestions, NEW u
    PROVE  /\ As(u, in).user = u /\ As(u, in).filter = Others(in.filter)
           /\ As(u, in).range = in.range /\ As(u, in).bucket = in.bucket
           /\ As(u, in).dimension = in.dimension
           /\ in.range \in Ranges
<1>1. PICK q \in Asked, v \in {NullName}, range \in Ranges, b \in Widths : in = Ask(q, v, range, b)
  BY DEF AdminQuestions, Questions
<1> QED
  BY <1>1 DEF Ask, As, Others

LEMMA AsWindows ==
    ASSUME NEW in \in AdminQuestions, NEW u \in Users
    PROVE  /\ OwnWindow(As(u, in), Now) = OverviewWindow(in.range, Now, Hour)
           /\ OwnSeriesWindow(As(u, in), Now) = SeriesWindow(in.range, in.bucket, Now)
<1>1. LoggedIn(As(u, in))
  BY AsFacts, UsersAssumption DEF LoggedIn
<1> QED
  BY <1>1, AsFacts DEF OwnWindow, OwnSeriesWindow

LEMMA OneOverviewWindow ==
    ASSUME NEW range, NEW w \in OverviewWindow(range, Now, Hour), NEW x \in OverviewWindow(range, Now, Hour)
    PROVE  w = x
BY DEF OverviewWindow, CustomWindow, PresetWindow

LEMMA OneWidth ==
    ASSUME NEW bucket, NEW span, NEW a \in SeriesBucket(bucket, span), NEW b \in SeriesBucket(bucket, span)
    PROVE  a = b
<1> DEFINE At(X) == \A x, y \in X : x = y
<1> SUFFICES At(SeriesBucket(bucket, span))
  OBVIOUS
<1>1. CASE bucket \in {"", "auto"}
  BY <1>1 DEF SeriesBucket
<1>2. CASE bucket = "10m"
  BY <1>2 DEF SeriesBucket
<1>3. CASE bucket = "1h"
  BY <1>3 DEF SeriesBucket
<1>4. CASE bucket = "6h"
  BY <1>4 DEF SeriesBucket
<1>5. CASE bucket = "12h"
  BY <1>5 DEF SeriesBucket
<1>6. CASE bucket = "24h"
  BY <1>6 DEF SeriesBucket
<1>7. CASE bucket \notin {"", "auto", "10m", "1h", "6h", "12h", "24h"}
  BY <1>7 DEF SeriesBucket
<1> QED
  BY <1>1, <1>2, <1>3, <1>4, <1>5, <1>6, <1>7

LEMMA OneSeriesWindow ==
    ASSUME NEW range, NEW bucket, NEW s \in SeriesWindow(range, bucket, Now),
           NEW t \in SeriesWindow(range, bucket, Now)
    PROVE  s.w = t.w
<1>1. CASE range.key = "custom"
  <2>1. \A x \in SeriesWindow(range, bucket, Now) : x.w \in CustomWindow(range)
    BY <1>1 DEF SeriesWindow
  <2>2. s.w \in CustomWindow(range) /\ t.w \in CustomWindow(range)
    BY <2>1
  <2> QED
    BY <2>2 DEF CustomWindow
<1>2. CASE range.key # "custom"
  <2> DEFINE W == UNION {SeriesBucket(bucket, Lookback[key]) : key \in {range.key} \cap DOMAIN Lookback}
             P(width) == PresetWindow(range, Now, Min({width, Hour}))
  <2>1. \A x \in SeriesWindow(range, bucket, Now) : \E width \in W : x.w \in P(width)
    BY <1>2 DEF SeriesWindow
  <2>2. PICK a \in W, b \in W : s.w \in P(a) /\ t.w \in P(b)
    BY <2>1
  <2>3. a \in SeriesBucket(bucket, Lookback[range.key]) /\ b \in SeriesBucket(bucket, Lookback[range.key])
    BY <2>2
  <2>4. a = b
    BY <2>3, OneWidth
  <2>5. \A x, y \in P(a) : x = y
    BY DEF PresetWindow
  <2> HIDE DEF P
  <2> QED
    BY <2>2, <2>4, <2>5
<1> QED
  BY <1>1, <1>2

\* What an administrator's question is answered when a user asks it.
SummaryFor(u, in) == CHOOSE s \in GetOverviewSummary(data, As(u, in), Now) : TRUE
SeriesFor(u, in) == CHOOSE s \in GetOverviewSeries(data, As(u, in), Now) : TRUE

TracesSeen(w, filter) ==
    IF HasFilters(filter) THEN {t \in TracesIn(traces, w) : Holds(t, request, filter)}
    ELSE TracesIn(traces, w)

LEMMA SummaryForIs ==
    ASSUME NEW in \in AdminQuestions, NEW w \in OverviewWindow(in.range, Now, Hour), NEW u \in Users
    PROVE  LET B == Selected(View, w, Own(u, Others(in.filter)))
           IN /\ SummaryFor(u, in).totals.tokens = Tokens(B)
              /\ SummaryFor(u, in).totals.requests = Requests(B)
              /\ SummaryFor(u, in).traces =
                     IF HasFilters(Others(in.filter))
                     THEN CountTracesFiltered(traces, request, w, u, Others(in.filter))
                     ELSE CountTraces(traces, w, u)
<1> DEFINE page == GetOverviewSummary(data, As(u, in), Now)
           filter == Others(in.filter)
<1>1. \A s \in page : \E x \in OwnWindow(As(u, in), Now) :
          /\ s.totals.tokens = Tokens(Selected(View, x, Own(u, filter)))
          /\ s.totals.requests = Requests(Selected(View, x, Own(u, filter)))
          /\ s.traces = IF HasFilters(filter) THEN CountTracesFiltered(traces, request, x, u, filter)
                        ELSE CountTraces(traces, x, u)
  BY AsFacts DEF GetOverviewSummary, GetOverviewTotals, Totals, data, View
<1>2. page # {}
  BY AsWindows DEF GetOverviewSummary
<1>3. \A x \in OwnWindow(As(u, in), Now) : x = w
  BY AsWindows, OneOverviewWindow
<1> HIDE DEF page, filter
<1>4. SummaryFor(u, in) \in page
  BY <1>2 DEF SummaryFor, page
<1> QED
  BY <1>1, <1>3, <1>4 DEF filter

LEMMA SeriesForIs ==
    ASSUME TableInv, NEW in \in AdminQuestions, NEW s \in SeriesWindow(in.range, in.bucket, Now),
           NEW u \in Users
    PROVE  AreBarsOf(SeriesFor(u, in).points, Selected(View, s.w, Own(u, Others(in.filter))))
<1> DEFINE page == GetOverviewSeries(data, As(u, in), Now)
           ask == As(u, in)
<1>1. ask.range \in Ranges /\ ask.user = u /\ ask.filter = Others(in.filter)
      /\ OwnSeriesWindow(ask, Now) = SeriesWindow(in.range, in.bucket, Now)
  BY AsFacts, AsWindows
<1>2. page # {}
  BY <1>1 DEF GetOverviewSeries
<1>3. SeriesFor(u, in) \in page
  BY <1>2 DEF SeriesFor
<1> HIDE DEF ask
<1>4. SeriesFor(u, in) \in GetOverviewSeries(data, ask, Now)
  BY <1>3 DEF ask
<1> HIDE DEF page
<1>5. PICK x \in OwnSeriesWindow(ask, Now) : AreBarsOf(SeriesFor(u, in).points, OwnBuckets(ask, x.w))
  BY <1>1, <1>4, SeriesIs
<1>6. x.w = s.w
  BY <1>1, OneSeriesWindow
<1> QED
  BY <1>1, <1>5, <1>6 DEF OwnBuckets

LEMMA TracesSeenFacts ==
    ASSUME TracesInv, NEW w, NEW filter
    PROVE  IsFiniteSet(TracesSeen(w, filter)) /\ \A t \in TracesSeen(w, filter) : t.user \in Users
<1>1. TracesSeen(w, filter) \in SUBSET traces
  BY DEF TracesSeen, TracesIn
<1> QED
  BY <1>1, FS_Subset DEF TracesInv

\* The traces when no filter names a user.
LEMMA TracesForUser ==
    ASSUME NEW w, NEW filter, "user" \notin DOMAIN filter, NEW u
    PROVE  (IF HasFilters(Others(filter)) THEN CountTracesFiltered(traces, request, w, u, Others(filter))
            ELSE CountTraces(traces, w, u)) = Cardinality(TracesOfUser(TracesSeen(w, filter), u))
<1>1. DOMAIN Others(filter) = DOMAIN filter /\ \A d \in DOMAIN filter : Others(filter)[d] = filter[d]
  BY DEF Others
<1>2. HasFilters(Others(filter)) <=> HasFilters(filter)
  BY <1>1 DEF HasFilters
<1>3. \A t : Holds(t, request, Others(filter)) <=> Holds(t, request, filter)
  BY <1>1 DEF Holds
<1>4. CASE HasFilters(filter)
  <2>1. {t \in TracesIn(traces, w) : t.user = u /\ Holds(t, request, Others(filter))}
            = TracesOfUser(TracesSeen(w, filter), u)
    BY <1>3, <1>4 DEF TracesOfUser, TracesSeen
  <2> QED
    BY <1>2, <1>4, <2>1 DEF CountTracesFiltered
<1>5. CASE ~ HasFilters(filter)
  <2>1. {t \in TracesIn(traces, w) : t.user = u} = TracesOfUser(TracesSeen(w, filter), u)
    BY <1>5 DEF TracesOfUser, TracesSeen
  <2> QED
    BY <1>2, <1>5, <2>1 DEF CountTraces
<1> QED
  BY <1>4, <1>5

\* Users of different 32 bits have rows of different narrowed keys.
LEMMA ApartInRows ==
    ASSUME TableInv, IdsApart, NEW w, NEW filter
    PROVE  RowsApart(Selected(View, w, filter))
<1> DEFINE B == Selected(View, w, filter)
           busy == {r.dims["user"] : r \in {q \in request : q.type = 1}}
<1>1. \A b \in B : b.dims["user"] \in busy /\ b.dims["user"] # NullName
  <2>1. \A b \in View : b.dims["user"] \in busy
    BY BucketsAreRows
  <2>2. \A b \in View : b.dims["user"] \in Users
    BY BucketsOwned
  <2> HIDE DEF busy
  <2> QED
    BY <2>1, <2>2, UsersAssumption DEF Selected
<1>2. \A u, v \in busy : Int32[u] = Int32[v] => u = v
  BY DEF IdsApart
<1> HIDE DEF busy, B
<1>3. \A t \in BreakdownTokens(B, AdminDims) : \E b \in B : t = SumOfKey(B, FullKey(B, AdminDims), BreakdownKey(b, AdminDims))
  <2>1. \A t \in BreakdownTokens(B, AdminDims) : t \in SumsBy(B, FullKey(B, AdminDims))
    BY BreakdownTokensIs DEF Positive
  <2> QED
    BY <2>1 DEF SumsBy, KeysOf, FullKey
<1>4. \A k, x : SumOfKey(B, x, k).key = k
  BY DEF SumOfKey
<1>5. ASSUME NEW b \in B, NEW c \in B,
             Narrowed(BreakdownKey(b, AdminDims)) = Narrowed(BreakdownKey(c, AdminDims))
      PROVE  BreakdownKey(b, AdminDims) = BreakdownKey(c, AdminDims)
  <2> DEFINE k == BreakdownKey(b, AdminDims)  l == BreakdownKey(c, AdminDims)
  <2>1. /\ k = [d \in AdminDims |-> OrEmpty(b.dims[d])] /\ l = [d \in AdminDims |-> OrEmpty(c.dims[d])]
        /\ "user" \in AdminDims
    BY DEF BreakdownKey, AdminDims, Dims
  <2>2. k["user"] = b.dims["user"] /\ l["user"] = c.dims["user"]
    BY <1>1, <2>1 DEF OrEmpty
  <2>3. DOMAIN k = AdminDims /\ DOMAIN l = AdminDims
    BY <2>1
  <2>4. k = [d \in AdminDims |-> k[d]] /\ l = [d \in AdminDims |-> l[d]]
    BY <2>1
  <2> HIDE DEF k, l
  <2>5. /\ Narrowed(k) = [d \in AdminDims |-> IF d = "user" THEN Int32[k["user"]] ELSE k[d]]
        /\ Narrowed(l) = [d \in AdminDims |-> IF d = "user" THEN Int32[l["user"]] ELSE l[d]]
    BY <2>3, <2>4 DEF Narrowed
  <2>6. Narrowed(k) = Narrowed(l)
    BY <1>5 DEF k, l
  <2>7. \A d \in AdminDims : Narrowed(k)[d] = Narrowed(l)[d]
    BY <2>6
  <2>8. Int32[k["user"]] = Int32[l["user"]]
    BY <2>1, <2>5, <2>7
  <2>9. k["user"] = l["user"]
    BY <1>1, <1>2, <2>2, <2>8
  <2>10. \A d \in AdminDims : k[d] = l[d]
    BY <2>5, <2>7, <2>9
  <2> QED
    BY <2>4, <2>10 DEF k, l
<1>6. RowsApart(B)
  <2> SUFFICES ASSUME NEW t \in BreakdownTokens(B, AdminDims), NEW q \in BreakdownTokens(B, AdminDims),
                      Narrowed(t.key) = Narrowed(q.key)
               PROVE  t = q
    BY DEF RowsApart
  <2>1. PICK b \in B : t = SumOfKey(B, FullKey(B, AdminDims), BreakdownKey(b, AdminDims))
    BY <1>3
  <2>2. PICK c \in B : q = SumOfKey(B, FullKey(B, AdminDims), BreakdownKey(c, AdminDims))
    BY <1>3
  <2>3. t.key = BreakdownKey(b, AdminDims) /\ q.key = BreakdownKey(c, AdminDims)
    BY <1>4, <2>1, <2>2
  <2>4. BreakdownKey(b, AdminDims) = BreakdownKey(c, AdminDims)
    BY <1>5, <2>3
  <2> QED
    BY <2>1, <2>2, <2>4
<1> QED
  BY <1>6 DEF B

\* The administrator's pages.
LEMMA AdminSummaryIs ==
    ASSUME NEW in, NEW all \in GetAdminOverviewSummary(data, in, Now)
    PROVE  \E w \in OverviewWindow(in.range, Now, Hour) :
               /\ all.totals.tokens = Tokens(AdminBuckets(in, w))
               /\ all.totals.requests = Requests(AdminBuckets(in, w))
               /\ all.tokenBreakdown = TokenBreakdown(AdminBuckets(in, w))
               /\ all.breakdown = AdminMerged(AdminBuckets(in, w))
               /\ "user" \notin DOMAIN in.filter => all.traces = Cardinality(TracesSeen(w, in.filter))
<1>1. PICK w \in OverviewWindow(in.range, Now, Hour) :
          /\ all.totals = Totals(AdminBuckets(in, w))
          /\ all.tokenBreakdown = TokenBreakdown(AdminBuckets(in, w))
          /\ all.breakdown = AdminMerged(AdminBuckets(in, w))
          /\ all.traces = IF HasFilters(in.filter) THEN CountAdminTracesFiltered(traces, request, w, in.filter)
                          ELSE CountAdminTraces(traces, w, in.filter)
  BY DEF GetAdminOverviewSummary, GetAdminOverviewTotals, GetAdminOverviewTokenBreakdown, data, View,
         ListAdminOverviewBreakdownTokens, ListAdminOverviewBreakdownCosts, AdminMerged, AdminBuckets
<1>2. "user" \notin DOMAIN in.filter => all.traces = Cardinality(TracesSeen(w, in.filter))
  <2> HAVE "user" \notin DOMAIN in.filter
  <2>1. {t \in TracesIn(traces, w) : "user" \in DOMAIN in.filter => t.user = in.filter["user"]}
            = TracesIn(traces, w)
    OBVIOUS
  <2> QED
    BY <1>1, <2>1 DEF CountAdminTracesFiltered, CountAdminTraces, TracesSeen
<1> QED
  BY <1>1, <1>2 DEF Totals

LEMMA AdminDistributionIs ==
    ASSUME NEW in, NEW page \in GetAdminOverviewDistribution(data, in, Now)
    PROVE  \E w \in OverviewWindow(in.range, Now, Hour) : AreDistributed(page.rows, AdminBuckets(in, w))
<1>1. PICK w \in OverviewWindow(in.range, Now, Hour) :
          page = [window |-> w,
                  rows |-> DistributionRows(
                    ListAdminOverviewDistribution(View, w, in.filter, in.dimension),
                    ListAdminOverviewDistributionCosts(View, w, in.filter, in.dimension),
                    ListAdminOverviewTraceCountsByDimension(request, w, in.filter, in.dimension))]
  BY DEF GetAdminOverviewDistribution, data, View
<1> DEFINE traceRows == ListAdminOverviewTraceCountsByDimension(request, w, in.filter, in.dimension)
<1>2. page.rows = Distributed(AdminBuckets(in, w), in.dimension, AdminDims, traceRows)
  BY <1>1 DEF ListAdminOverviewDistribution, ListAdminOverviewDistributionCosts, Distributed, AdminBuckets
<1> QED
  BY <1>2 DEF AreDistributed

LEMMA AdminSeriesIs ==
    ASSUME TableInv, NEW in, in.range \in Ranges, NEW all \in GetAdminOverviewSeries(data, in, Now)
    PROVE  \E s \in SeriesWindow(in.range, in.bucket, Now) : AreBarsOf(all.points, AdminBuckets(in, s.w))
<1>1. PICK s \in SeriesWindow(in.range, in.bucket, Now) :
          all = SeriesOf(in.filter, in.dimension, AdminDims, s.w, s.width)
  BY DEF GetAdminOverviewSeries, data, View, SeriesOf, ListAdminOverviewSeriesMetrics,
         ListAdminOverviewSeriesTraces, ListAdminOverviewCacheHitRateSeries, MetricsOf, TracesOf, HitsOf
<1>2. IsWindow(s.w) /\ s.width \in Nat \ {0}
  BY SeriesWindows
<1>3. AreBarsOf(SeriesOf(in.filter, in.dimension, AdminDims, s.w, s.width).points,
                Selected(View, s.w, in.filter))
  BY <1>2, SeriesOfFacts
<1> QED
  BY <1>1, <1>3 DEF AdminBuckets

\* An administrator's totals, traces and bars are the users' together; the
\* breakdown, whose ids are narrowed to 32 bits, shows no more than the totals,
\* and all of them when no two users with requests share 32 bits
\* (handle_admin_overview.go, admin_overview_breakdown.go).
THEOREM AdminSeesAllHolds == Spec => []AdminSeesAll
<1>1. TableInv /\ TracesInv => AdminSeesAll
  <2> SUFFICES ASSUME TableInv, TracesInv, NEW in \in AdminQuestions
               PROVE  /\ \A all \in GetAdminOverviewSummary(data, in, Now) :
                           /\ all.totals.tokens
                                  = SumFunction([u \in UsersSeen(in.filter) |-> SummaryFor(u, in).totals.tokens])
                           /\ all.totals.requests
                                  = SumFunction([u \in UsersSeen(in.filter) |-> SummaryFor(u, in).totals.requests])
                           /\ \/ "user" \in DOMAIN in.filter
                              \/ all.traces = SumFunction([u \in Users |-> SummaryFor(u, in).traces])
                           /\ Sum(LAMBDA r : r.tokens, all.breakdown) <= all.totals.tokens
                           /\ IdsApart => Sum(LAMBDA r : r.tokens, all.breakdown) = all.totals.tokens
                           /\ all.totals.tokens = SumFunction([k \in Kinds |-> all.tokenBreakdown[k]])
                      /\ \A all \in GetAdminOverviewDistribution(data, in, Now) :
                           Sum(LAMBDA r : r.requests, all.rows)
                               = SumFunction([u \in UsersSeen(in.filter) |-> SummaryFor(u, in).totals.requests])
                      /\ \A all \in GetAdminOverviewSeries(data, in, Now) :
                           ValueOf(all.points, "tokens")
                               = SumFunction([u \in UsersSeen(in.filter) |-> ValueOf(SeriesFor(u, in).points, "tokens")])
    BY DEF AdminSeesAll, Sum, UsersSeen, SummaryFor, SeriesFor
  <2> DEFINE filter == in.filter
             seen == UsersSeen(filter)
  <2>0. in.range \in Ranges /\ \A u \in seen : u \in Users
    BY AsFacts DEF UsersSeen
  <2>1. ASSUME NEW w \in OverviewWindow(in.range, Now, Hour)
        PROVE  /\ SumFunction([u \in seen |-> SummaryFor(u, in).totals.tokens]) = Tokens(AdminBuckets(in, w))
               /\ SumFunction([u \in seen |-> SummaryFor(u, in).totals.requests]) = Requests(AdminBuckets(in, w))
    <3>1. \A u \in seen :
              /\ SummaryFor(u, in).totals.tokens = Tokens(Selected(View, w, Own(u, Others(filter))))
              /\ SummaryFor(u, in).totals.requests = Requests(Selected(View, w, Own(u, Others(filter))))
      BY <2>0, SummaryForIs
    <3>2. /\ [u \in seen |-> SummaryFor(u, in).totals.tokens] = TokensOfUsers(w, filter)
          /\ [u \in seen |-> SummaryFor(u, in).totals.requests] = RequestsOfUsers(w, filter)
      BY <3>1 DEF TokensOfUsers, RequestsOfUsers
    <3> QED
      BY <3>2, UsersAddUp DEF AdminBuckets
  <2>2. ASSUME NEW w PROVE IsBuckets(AdminBuckets(in, w))
    BY ViewHolds DEF AdminBuckets
  <2>3. ASSUME NEW all \in GetAdminOverviewSummary(data, in, Now)
        PROVE  /\ all.totals.tokens = SumFunction([u \in seen |-> SummaryFor(u, in).totals.tokens])
               /\ all.totals.requests = SumFunction([u \in seen |-> SummaryFor(u, in).totals.requests])
               /\ \/ "user" \in DOMAIN filter
                  \/ all.traces = SumFunction([u \in Users |-> SummaryFor(u, in).traces])
               /\ Sum(LAMBDA r : r.tokens, all.breakdown) <= all.totals.tokens
               /\ IdsApart => Sum(LAMBDA r : r.tokens, all.breakdown) = all.totals.tokens
               /\ all.totals.tokens = SumFunction([k \in Kinds |-> all.tokenBreakdown[k]])
    <3>1. PICK w \in OverviewWindow(in.range, Now, Hour) :
               /\ all.totals.tokens = Tokens(AdminBuckets(in, w))
               /\ all.totals.requests = Requests(AdminBuckets(in, w))
               /\ all.tokenBreakdown = TokenBreakdown(AdminBuckets(in, w))
               /\ all.breakdown = AdminMerged(AdminBuckets(in, w))
               /\ "user" \notin DOMAIN filter => all.traces = Cardinality(TracesSeen(w, filter))
      BY AdminSummaryIs
    <3>2. ASSUME "user" \notin DOMAIN filter
          PROVE  all.traces = SumFunction([u \in Users |-> SummaryFor(u, in).traces])
      <4> DEFINE S == TracesSeen(w, filter)
      <4>1. \A u \in Users : SummaryFor(u, in).traces = Cardinality(TracesOfUser(S, u))
        <5> TAKE u \in Users
        <5>1. SummaryFor(u, in).traces =
                  IF HasFilters(Others(filter)) THEN CountTracesFiltered(traces, request, w, u, Others(filter))
                  ELSE CountTraces(traces, w, u)
          BY SummaryForIs
        <5> QED
          BY <3>2, <5>1, TracesForUser
      <4>2. [u \in Users |-> SummaryFor(u, in).traces] = CountsOfUsers(S)
        BY <4>1 DEF CountsOfUsers
      <4>3. IsFiniteSet(S) /\ \A t \in S : t.user \in Users
        BY TracesSeenFacts
      <4> HIDE DEF S
      <4>4. SumFunction(CountsOfUsers(S)) = Cardinality(S)
        BY <4>3, TracesAddUp
      <4> QED
        BY <3>1, <3>2, <4>2, <4>4 DEF S
    <3>3. /\ Sum(LAMBDA r : r.tokens, all.breakdown) <= Tokens(AdminBuckets(in, w))
          /\ IdsApart => Sum(LAMBDA r : r.tokens, all.breakdown) = Tokens(AdminBuckets(in, w))
      <4>1. IdsApart => RowsApart(AdminBuckets(in, w))
        BY ApartInRows DEF AdminBuckets
      <4> QED
        BY <2>2, <3>1, <4>1, NarrowedAddsUp
    <3>4. SumFunction([k \in Kinds |-> all.tokenBreakdown[k]]) = Tokens(AdminBuckets(in, w))
      <4>1. all.tokenBreakdown = [k \in Kinds |-> all.tokenBreakdown[k]]
        BY <3>1 DEF TokenBreakdown
      <4>2. SumFunction(all.tokenBreakdown) = Tokens(AdminBuckets(in, w))
        BY <2>2, <3>1, KindsAddUp
      <4> QED
        BY <4>1, <4>2
    <3> QED
      BY <2>1, <3>1, <3>2, <3>3, <3>4
  <2>4. ASSUME NEW all \in GetAdminOverviewDistribution(data, in, Now)
        PROVE  Sum(LAMBDA r : r.requests, all.rows)
                   = SumFunction([u \in seen |-> SummaryFor(u, in).totals.requests])
    <3>1. PICK w \in OverviewWindow(in.range, Now, Hour) : AreDistributed(all.rows, AdminBuckets(in, w))
      BY AdminDistributionIs
    <3>2. Sum(LAMBDA r : r.requests, all.rows) = Requests(AdminBuckets(in, w))
      BY <2>2, <3>1, DistributionAddsUp
    <3> QED
      BY <2>1, <3>2
  <2>5. ASSUME NEW all \in GetAdminOverviewSeries(data, in, Now)
        PROVE  ValueOf(all.points, "tokens")
                   = SumFunction([u \in seen |-> ValueOf(SeriesFor(u, in).points, "tokens")])
    <3>1. PICK s \in SeriesWindow(in.range, in.bucket, Now) : AreBarsOf(all.points, AdminBuckets(in, s.w))
      BY <2>0, AdminSeriesIs
    <3>2. \A u \in seen : AreBarsOf(SeriesFor(u, in).points, Selected(View, s.w, Own(u, Others(filter))))
      BY <2>0, SeriesForIs
    <3>3. \A u \in seen : ValueOf(SeriesFor(u, in).points, "tokens")
                               = Tokens(Selected(View, s.w, Own(u, Others(filter))))
      BY <3>2 DEF AreBarsOf
    <3>4. [u \in seen |-> ValueOf(SeriesFor(u, in).points, "tokens")] = TokensOfUsers(s.w, filter)
      BY <3>3 DEF TokensOfUsers
    <3>5. SumFunction(TokensOfUsers(s.w, filter)) = Tokens(AdminBuckets(in, s.w))
      BY UsersAddUp DEF AdminBuckets
    <3> QED
      BY <3>1, <3>4, <3>5 DEF AreBarsOf
  <2> QED
    BY <2>3, <2>4, <2>5
<1> QED
  BY <1>1, TableInvHolds, TracesInvHolds, PTL

-----------------------------------------------------------------------------
(* Outcomes.                                                                *)

\* Rows that count requests.
AreCounted(S) == IsFiniteSet(S) /\ \A o \in S : o.requests \in Nat

LEMMA CountedPart ==
    ASSUME NEW S, AreCounted(S), NEW C \in SUBSET S
    PROVE  /\ AreCounted(C) /\ Counts(RequestsIn(S), S) /\ Counts(RequestsIn(S), C)
           /\ Requests(C) = SumFunctionOnSet(RequestsIn(S), C) /\ Requests(C) \in Nat
<1>1. AreCounted(C) /\ IsFiniteSet(C)
  BY FS_Subset DEF AreCounted
<1>2. Requests(C) = SumFunctionOnSet(RequestsIn(C), C)
  BY SumIs DEF Requests, Sum, RequestsIn
<1>3. /\ \A o \in C : RequestsIn(C)[o] = RequestsIn(S)[o] /\ RequestsIn(C)[o] \in Nat
      /\ Counts(RequestsIn(C), C) /\ Counts(RequestsIn(S), S) /\ Counts(RequestsIn(S), C)
  BY <1>1 DEF AreCounted, RequestsIn, Counts
<1>4. SumFunctionOnSet(RequestsIn(C), C) = SumFunctionOnSet(RequestsIn(S), C)
  BY <1>1, <1>3, SumSame
<1>5. SumFunctionOnSet(RequestsIn(C), C) \in Nat
  BY <1>1, <1>3, SumOfNumbers
<1> QED
  BY <1>1, <1>2, <1>3, <1>4, <1>5

\* Where nothing is counted, no part counts.
LEMMA NothingCounted ==
    ASSUME NEW S, AreCounted(S), Requests(S) = 0, NEW C \in SUBSET S
    PROVE  Requests(C) = 0
<1> DEFINE f == RequestsIn(S)
<1>1. \A o \in S : f[o] \in Nat
  BY DEF AreCounted, RequestsIn
<1>2. SumFunctionOnSet(f, S) = 0 /\ Counts(f, S) /\ IsFiniteSet(S)
  BY CountedPart DEF AreCounted
<1>3. Requests(C) = SumFunctionOnSet(f, C) /\ IsFiniteSet(C)
  BY CountedPart DEF AreCounted
<1> HIDE DEF f
<1>4. \A o \in S : f[o] = 0
  <2> TAKE o \in S
  <2>1. SumFunctionOnSet(f, S) = f[o] + SumFunctionOnSet(f, S \ {o})
    BY <1>2, SumTake
  <2>2. IsFiniteSet(S \ {o}) /\ \A x \in S \ {o} : f[x] \in Nat
    BY <1>1, <1>2, FS_Subset
  <2>3. SumFunctionOnSet(f, S \ {o}) \in Nat
    BY <2>2, SumOfNumbers
  <2> QED
    BY <1>1, <1>2, <2>1, <2>3
<1>5. SumFunctionOnSet(f, C) = 0
  BY <1>3, <1>4, SumOfNumbers
<1> QED
  BY <1>3, <1>5

\* The aggregate of outcomes.
Outcomes == RequestOutcomeBucketed(request)

LEMMA OutcomesCounted == ASSUME TableInv PROVE AreCounted(Outcomes) /\ \A o \in Outcomes : o.at \in Int
<1> DEFINE Key(r) == [at |-> TenMinutes(r.at), dims |-> r.dims, type |-> r.type,
                      path |-> r.path, reason |-> OrZero(r.reason),
                      empty |-> OrZero(r.tokens["output"]) = 0]
           Those(k) == {r \in request : Key(r) = k}
           Row(k) == [at |-> k.at, dims |-> k.dims, type |-> k.type, path |-> k.path,
                      reason |-> k.reason, empty |-> k.empty, requests |-> Cardinality(Those(k))]
           X == {Row(k) : k \in {Key(r) : r \in request}}
           f == [r \in request |-> Row(Key(r))]
<1>1. Outcomes = X
  BY DEF Outcomes, RequestOutcomeBucketed, GroupBy
<1>2. \A k : Row(k).requests = Cardinality(Those(k)) /\ Row(k).at = k.at
  OBVIOUS
<1>3. \A k : Cardinality(Those(k)) \in Nat
  <2> TAKE k
  <2>1. IsFiniteSet(Those(k))
    BY FS_Subset DEF TableInv
  <2> QED
    BY <2>1, FS_CardinalityType
<1>4. \A r \in request : Key(r).at \in Int
  BY PoolAssumption DEF TableInv, TenMinutes
<1> HIDE DEF Key, Row, Those
<1>5. \A x \in X : \E r \in request : f[r] = x
  OBVIOUS
<1>6. \A x \in X : x.requests \in Nat /\ x.at \in Int
  BY <1>2, <1>3, <1>4
<1> HIDE DEF X, f
<1>7. IsFiniteSet(X)
  BY <1>5, Images DEF TableInv
<1> QED
  BY <1>1, <1>6, <1>7 DEF AreCounted

\* The rows of the outcome series.
OutcomeKey(o, dimension, dims) ==
    [at |-> o.at, key |-> GroupKey(o, dimension, dims), type |-> o.type,
     reason |-> o.reason, empty |-> o.empty]
OutcomesOf(S, dimension, dims, k) == {o \in S : OutcomeKey(o, dimension, dims) = k}
OutcomeRow(S, dimension, dims, k) ==
    [at |-> k.at, key |-> k.key, type |-> k.type, reason |-> k.reason, empty |-> k.empty,
     requests |-> Requests(OutcomesOf(S, dimension, dims, k))]
OutcomeRows(S, dimension, dims) ==
    {OutcomeRow(S, dimension, dims, k) : k \in {OutcomeKey(o, dimension, dims) : o \in S}}
RowOf(S, dimension, dims) == [o \in S |-> OutcomeRow(S, dimension, dims, OutcomeKey(o, dimension, dims))]

LEMMA OutcomeRowsAre ==
    ASSUME NEW S, AreCounted(S), NEW dimension, NEW dims,
           NEW R, R = OutcomeRows(S, dimension, dims),
           NEW rowOf, rowOf = RowOf(S, dimension, dims)
    PROVE  /\ AreCounted(R)
           /\ \A o \in S : /\ rowOf[o] \in R /\ rowOf[o].at = o.at /\ rowOf[o].type = o.type
                           /\ rowOf[o].key = GroupKey(o, dimension, dims)
                           /\ rowOf[o].reason = o.reason /\ rowOf[o].empty = o.empty
           /\ \A r \in R : /\ \E o \in S : rowOf[o] = r
                           /\ r.requests = Requests({o \in S : rowOf[o] = r})
<1> DEFINE Key(o) == OutcomeKey(o, dimension, dims)
           Row(k) == OutcomeRow(S, dimension, dims, k)
           Those(k) == OutcomesOf(S, dimension, dims, k)
<1>1. R = {Row(k) : k \in {Key(o) : o \in S}} /\ \A o \in S : rowOf[o] = Row(Key(o))
  BY DEF OutcomeRows, RowOf
<1>2. \A o : LET k == Key(o)
             IN /\ Row(k).at = o.at /\ Row(k).type = o.type /\ Row(k).key = GroupKey(o, dimension, dims)
                /\ Row(k).reason = o.reason /\ Row(k).empty = o.empty /\ Row(k).requests = Requests(Those(k))
  BY DEF OutcomeKey, OutcomeRow
<1>3. \A o, p : Row(Key(o)) = Row(Key(p)) => Key(o) = Key(p)
  <2> TAKE o, p
  <2> HAVE Row(Key(o)) = Row(Key(p))
  <2>1. /\ o.at = p.at /\ o.type = p.type /\ GroupKey(o, dimension, dims) = GroupKey(p, dimension, dims)
        /\ o.reason = p.reason /\ o.empty = p.empty
    BY <1>2
  <2> QED
    BY <2>1 DEF OutcomeKey
<1>4. \A k : Those(k) = {o \in S : Key(o) = k}
  BY DEF OutcomesOf
<1> HIDE DEF Key, Row, Those
<1>5. \A o \in S : rowOf[o] \in R
  BY <1>1
<1>6. \A r \in R : \E o \in S : rowOf[o] = r
  BY <1>1
<1>7. ASSUME NEW p \in S PROVE rowOf[p].requests = Requests({o \in S : rowOf[o] = rowOf[p]})
  <2>1. {o \in S : rowOf[o] = rowOf[p]} = Those(Key(p))
    BY <1>1, <1>3, <1>4
  <2> QED
    BY <1>1, <1>2, <2>1
<1>8. \A r \in R : r.requests = Requests({o \in S : rowOf[o] = r})
  BY <1>6, <1>7
<1>9. AreCounted(R)
  <2>1. IsFiniteSet(R)
    BY <1>6, Images DEF AreCounted
  <2>2. \A r \in R : {o \in S : rowOf[o] = r} \in SUBSET S
    OBVIOUS
  <2>3. \A r \in R : Requests({o \in S : rowOf[o] = r}) \in Nat
    BY <2>2, CountedPart
  <2> QED
    BY <1>8, <2>1, <2>3 DEF AreCounted
<1>10. \A o \in S : /\ rowOf[o].at = o.at /\ rowOf[o].type = o.type
                    /\ rowOf[o].key = GroupKey(o, dimension, dims)
                    /\ rowOf[o].reason = o.reason /\ rowOf[o].empty = o.empty
  BY <1>1, <1>2
<1> QED
  BY <1>5, <1>6, <1>8, <1>9, <1>10

\* Rows chosen by what they keep of a request count the requests chosen so.
LEMMA ChosenRows ==
    ASSUME NEW S, AreCounted(S), NEW R, AreCounted(R), NEW rowOf,
           \A r \in R : r.requests = Requests({o \in S : rowOf[o] = r}),
           NEW A \in SUBSET R, NEW C \in SUBSET S, \A o \in S : o \in C <=> rowOf[o] \in A
    PROVE  Requests(A) = Requests(C)
<1> DEFINE f == RequestsIn(S)  g == RequestsIn(R)
           part == [r \in A |-> {o \in S : rowOf[o] = r}]
<1>1. IsFiniteSet(A) /\ IsFiniteSet(C)
  BY FS_Subset DEF AreCounted
<1>2. Counts(f, C) /\ Requests(C) = SumFunctionOnSet(f, C) /\ Requests(A) = SumFunctionOnSet(g, A)
  BY CountedPart
<1>3. \A r \in A : part[r] = {o \in S : rowOf[o] = r} /\ part[r] \in SUBSET C
  OBVIOUS
<1>4. \A r \in A : \A o \in C : o \in part[r] <=> rowOf[o] = r
  OBVIOUS
<1>5. \A r \in A : g[r] = SumFunctionOnSet(f, part[r])
  <2> TAKE r \in A
  <2>1. g[r] = r.requests /\ part[r] \in SUBSET S
    BY <1>3 DEF RequestsIn
  <2> QED
    BY <1>3, <2>1, CountedPart
<1> HIDE DEF f, g, part
<1>6. \A o \in C : rowOf[o] \in A
  OBVIOUS
<1>7. SumFunctionOnSet(g, A) = SumFunctionOnSet(f, C)
  BY <1>1, <1>2, <1>3, <1>4, <1>5, <1>6, SumGroups
<1> QED
  BY <1>2, <1>7

-----------------------------------------------------------------------------
(* The points of an outcome series.                                         *)

RatioPoint(metric, at, key, category, counted, all) ==
    [metric |-> metric, at |-> at, key |-> key, category |-> category,
     count |-> Requests(counted), total |-> Requests(all)]

LEMMA RatioIs ==
    ASSUME NEW metric, NEW at, NEW key, NEW category, NEW counted, NEW all
    PROVE  \A p : p \in Ratio(metric, at, key, category, counted, all) <=>
                      Requests(all) # 0 /\ p = RatioPoint(metric, at, key, category, counted, all)
BY DEF Ratio, RatioPoint

LEMMA RatioMetric ==
    ASSUME NEW metric, NEW at, NEW key, NEW category, NEW counted, NEW all
    PROVE  \A p \in Ratio(metric, at, key, category, counted, all) : p.metric = metric
BY DEF Ratio

\* The upstream rows of a display bucket and group.
UpIn(rows, w, width, at, key) == InBucket(OfType(rows, 1), w, width, at, key)
DownIn(rows, w, width, at, key) == InBucket(OfType(rows, 0), w, width, at, key)
OutcomeGroups(rows, type, dimension) ==
    IF dimension = "none" THEN {Empty} ELSE {r.key : r \in OfType(rows, type)}
ReasonsOf(rows) == {r.reason : r \in OfType(rows, 1)}
Ungrouped(dimension) == dimension = "none"
IsAll(key) == key = Empty

SuccessPoint(at, key, up) == RatioPoint("upstreamSuccessRate", at, key, NullNumber, Successes(up), up)
WithReason(up, reason) == {r \in up : r.reason = reason}
SharePoint(at, reason, up) == RatioPoint("finishReasonShare", at, Empty, reason, WithReason(up, reason), up)

UpstreamRatiosOf(rows, w, width, dimension) ==
    UNION {UpstreamRatios(UpIn(rows, w, width, at, key), at, key) :
             at \in Buckets(w, width), key \in OutcomeGroups(rows, 1, dimension)}
DownstreamRatiosOf(rows, w, width, dimension) ==
    UNION {DownstreamRatios(DownIn(rows, w, width, at, key), at, key) :
             at \in Buckets(w, width), key \in OutcomeGroups(rows, 0, dimension)}
ReasonSharesOf(rows, w, width, reasons) ==
    UNION {ReasonShare(UpIn(rows, w, width, at, Empty), at, reason) : at \in Buckets(w, width), reason \in reasons}

LEMMA OutcomePointsAre ==
    ASSUME NEW rows, NEW w, NEW width, NEW dimension
    PROVE  OutcomePoints(rows, w, width, dimension).points =
               UpstreamRatiosOf(rows, w, width, dimension)
               \cup DownstreamRatiosOf(rows, w, width, dimension)
               \cup ReasonSharesOf(rows, w, width, IF dimension = "none" THEN ReasonsOf(rows) ELSE {})
<1> DEFINE U == UpstreamRatiosOf(rows, w, width, dimension)
           V == DownstreamRatiosOf(rows, w, width, dimension)
           reasons == IF dimension = "none" THEN ReasonsOf(rows) ELSE {}
           S == ReasonSharesOf(rows, w, width, reasons)
           Groups(type) == OutcomeGroups(rows, type, dimension)
           D == Buckets(w, width)
<1>4. OutcomePoints(rows, w, width, dimension) =
          [window |-> w, width |-> width, upstream |-> Groups(1), downstream |-> Groups(0),
           reasons |-> reasons, points |-> U \cup V \cup S]
  BY DEF OutcomePoints, OutcomeGroups, UpIn, DownIn, ReasonsOf, UpstreamRatiosOf, DownstreamRatiosOf,
               ReasonSharesOf
<1> HIDE DEF U, V, S, Groups, reasons
<1>5. OutcomePoints(rows, w, width, dimension).points = U \cup V \cup S
  BY <1>4
<1> QED
  BY <1>5 DEF U, V, S, reasons

LEMMA Metrics ==
    ASSUME NEW rows, NEW w, NEW width, NEW dimension, NEW reasons
    PROVE  /\ \A p \in DownstreamRatiosOf(rows, w, width, dimension) : p.metric = "downstreamSuccessRate"
           /\ \A p \in ReasonSharesOf(rows, w, width, reasons) : p.metric = "finishReasonShare"
           /\ \A p \in UpstreamRatiosOf(rows, w, width, dimension) :
                p.metric \in {"upstreamSuccessRate", "emptyResponseRate"}
<1>1. ASSUME NEW p \in DownstreamRatiosOf(rows, w, width, dimension) PROVE p.metric = "downstreamSuccessRate"
  <2>1. PICK at \in Buckets(w, width), key \in OutcomeGroups(rows, 0, dimension) :
            p \in DownstreamRatios(DownIn(rows, w, width, at, key), at, key)
    BY <1>1 DEF DownstreamRatiosOf
  <2> QED
    BY <2>1, RatioMetric DEF DownstreamRatios
<1>2. ASSUME NEW p \in ReasonSharesOf(rows, w, width, reasons) PROVE p.metric = "finishReasonShare"
  <2>1. PICK at \in Buckets(w, width), reason \in reasons : p \in ReasonShare(UpIn(rows, w, width, at, Empty), at, reason)
    BY <1>2 DEF ReasonSharesOf
  <2> QED
    BY <2>1, RatioMetric DEF ReasonShare
<1>3. ASSUME NEW p \in UpstreamRatiosOf(rows, w, width, dimension)
      PROVE  p.metric \in {"upstreamSuccessRate", "emptyResponseRate"}
  <2>1. PICK at \in Buckets(w, width), key \in OutcomeGroups(rows, 1, dimension) :
            p \in UpstreamRatios(UpIn(rows, w, width, at, key), at, key)
    BY <1>3 DEF UpstreamRatiosOf
  <2> QED
    BY <2>1, RatioMetric DEF UpstreamRatios
<1> QED
  BY <1>1, <1>2, <1>3

AreSuccesses(X, rows, w, width, dimension) ==
    \A p : p \in X <=> \E at \in Buckets(w, width) : \E key \in OutcomeGroups(rows, 1, dimension) :
                          /\ Requests(UpIn(rows, w, width, at, key)) # 0
                          /\ p = SuccessPoint(at, key, UpIn(rows, w, width, at, key))

LEMMA SuccessPointsAre ==
    ASSUME NEW rows, NEW w, NEW width, NEW dimension
    PROVE  AreSuccesses(WithMetric(OutcomePoints(rows, w, width, dimension).points, "upstreamSuccessRate"),
                        rows, w, width, dimension)
<1> DEFINE points == OutcomePoints(rows, w, width, dimension).points
           U == UpstreamRatiosOf(rows, w, width, dimension)
           up(at, key) == UpIn(rows, w, width, at, key)
           D == Buckets(w, width)  G == OutcomeGroups(rows, 1, dimension)
           There(p, at, key) == Requests(up(at, key)) # 0 /\ p = SuccessPoint(at, key, up(at, key))
<1> SUFFICES ASSUME NEW p
             PROVE  p \in WithMetric(points, "upstreamSuccessRate") <=>
                        \E at \in D : \E key \in G : There(p, at, key)
  BY DEF AreSuccesses
<1> DEFINE V == DownstreamRatiosOf(rows, w, width, dimension)
           reasons == IF dimension = "none" THEN ReasonsOf(rows) ELSE {}
           S == ReasonSharesOf(rows, w, width, reasons)
<1>0. points = U \cup V \cup S
  BY OutcomePointsAre
<1>4. (\A x \in V : x.metric = "downstreamSuccessRate") /\ \A x \in S : x.metric = "finishReasonShare"
  BY Metrics
<1> HIDE DEF points, V, S, U
<1>1. p \in WithMetric(points, "upstreamSuccessRate") <=> p \in U /\ p.metric = "upstreamSuccessRate"
  BY <1>0, <1>4 DEF WithMetric
<1> USE DEF U
<1>2. \A at, key : p \in UpstreamRatios(up(at, key), at, key) /\ p.metric = "upstreamSuccessRate"
                       <=> There(p, at, key)
  <2> TAKE at, key
  <2> DEFINE m == up(at, key)
             s == Ratio("upstreamSuccessRate", at, key, NullNumber, Successes(m), m)
             e == Ratio("emptyResponseRate", at, key, NullNumber, {r \in m : r.empty}, m)
  <2>1. UpstreamRatios(m, at, key) = s \cup e
    BY DEF UpstreamRatios
  <2>2. (\A x \in s : x.metric = "upstreamSuccessRate") /\ \A x \in e : x.metric = "emptyResponseRate"
    BY RatioMetric
  <2>3. p \in s <=> There(p, at, key)
    BY RatioIs DEF SuccessPoint
  <2> HIDE DEF s, e, m, There
  <2> QED
    BY <2>1, <2>2, <2>3 DEF m
<1>3. p \in U <=> \E at \in D : \E key \in G : p \in UpstreamRatios(up(at, key), at, key)
  <2> DEFINE X(at, key) == UpstreamRatios(up(at, key), at, key)
  <2>1. U = UNION {X(at, key) : at \in D, key \in G}
    BY DEF UpstreamRatiosOf
  <2> HIDE DEF X, U, D, G
  <2> QED
    BY <2>1 DEF X
<1> HIDE DEF U, up, D, G, There, points
<1> QED
  BY <1>1, <1>2, <1>3

AreShares(X, rows, w, width) ==
    \A p : p \in X <=> \E at \in Buckets(w, width) : \E reason \in ReasonsOf(rows) :
                          /\ Requests(UpIn(rows, w, width, at, Empty)) # 0
                          /\ p = SharePoint(at, reason, UpIn(rows, w, width, at, Empty))

LEMMA SharePointsAre ==
    ASSUME NEW rows, NEW w, NEW width, NEW dimension, Ungrouped(dimension)
    PROVE  AreShares(WithMetric(OutcomePoints(rows, w, width, dimension).points, "finishReasonShare"),
                     rows, w, width)
<1> DEFINE points == OutcomePoints(rows, w, width, dimension).points
           reasons == ReasonsOf(rows)
           S == ReasonSharesOf(rows, w, width, reasons)
           up(at) == UpIn(rows, w, width, at, Empty)
           D == Buckets(w, width)
           There(p, at, reason) == Requests(up(at)) # 0 /\ p = SharePoint(at, reason, up(at))
<1> SUFFICES ASSUME NEW p
             PROVE  p \in WithMetric(points, "finishReasonShare") <=>
                        \E at \in D : \E reason \in reasons : There(p, at, reason)
  BY DEF AreShares
<1>0. points = UpstreamRatiosOf(rows, w, width, dimension) \cup DownstreamRatiosOf(rows, w, width, dimension) \cup S
  BY OutcomePointsAre DEF Ungrouped
<1> HIDE DEF points
<1>1. p \in WithMetric(points, "finishReasonShare") <=> p \in S
  BY <1>0, Metrics DEF WithMetric
<1>2. \A at, reason : p \in ReasonShare(up(at), at, reason) <=> There(p, at, reason)
  BY RatioIs DEF SharePoint, ReasonShare, WithReason
<1>3. p \in S <=> \E at \in D : \E reason \in reasons : p \in ReasonShare(up(at), at, reason)
  <2> DEFINE X(at, reason) == ReasonShare(up(at), at, reason)
  <2>1. S = UNION {X(at, reason) : at \in D, reason \in reasons}
    BY DEF ReasonSharesOf
  <2> HIDE DEF X, S, D, reasons
  <2> QED
    BY <2>1 DEF X
<1> HIDE DEF S, up, D, reasons, There
<1> QED
  BY <1>1, <1>2, <1>3

-----------------------------------------------------------------------------
(* What the ratios count.                                                   *)

\* Points, one for each cell there is.
AreCells(X, K, H, bar) ==
    /\ H \in SUBSET K
    /\ \A k \in K : k = <<k[1], k[2]>>
    /\ \A k \in H : bar[k].at = k[1] /\ bar[k].key = k[2]
    /\ \A p : p \in X <=> \E k \in H : p = bar[k]

LEMMA CellsTotal ==
    ASSUME NEW f, NEW S, IsFiniteSet(S), Counts(f, S), NEW K, IsFiniteSet(K),
           NEW part, IsPartition(S, K, part), NEW X, NEW H, NEW bar, AreCells(X, K, H, bar),
           NEW v, \A k \in H : v[bar[k]] = SumFunctionOnSet(f, part[k]),
           \A k \in K \ H : SumFunctionOnSet(f, part[k]) = 0
    PROVE  SumFunctionOnSet(v, X) = SumFunctionOnSet(f, S)
<1> DEFINE name == [p \in X |-> <<p.at, p.key>>]
<1>1. \A k \in H : bar[k] \in X /\ name[bar[k]] = k /\ k \in K
  BY DEF AreCells
<1>2. \A p \in X : \E k \in H : p = bar[k]
  BY DEF AreCells
<1>3. IsFiniteSet(H)
  BY FS_Subset DEF AreCells
<1> HIDE DEF name
<1>4. IsFiniteSet(X)
  BY <1>2, <1>3, Images
<1>5. \A p \in X : name[p] \in K /\ v[p] = SumFunctionOnSet(f, part[name[p]])
  BY <1>1, <1>2
<1>6. \A p, q \in X : name[p] = name[q] => p = q
  BY <1>1, <1>2
<1>7. \A k \in K : (\E p \in X : name[p] = k) \/ SumFunctionOnSet(f, part[k]) = 0
  BY <1>1
<1> QED
  BY <1>4, <1>5, <1>6, <1>7, SumRows

SuccessBars(rows, w, width, K) ==
    [k \in K |-> SuccessPoint(k[1], k[2], UpIn(rows, w, width, k[1], k[2]))]
Counting(rows, w, width, K) == {k \in K : Requests(UpIn(rows, w, width, k[1], k[2])) # 0}
TotalsIn(X) == [p \in X |-> p.total]
CountsIn(X) == [p \in X |-> p.count]

LEMMA SuccessCells ==
    ASSUME NEW rows, NEW w, NEW width, NEW dimension, NEW K,
           K = Cells(w, width, OutcomeGroups(rows, 1, dimension))
    PROVE  AreCells(WithMetric(OutcomePoints(rows, w, width, dimension).points, "upstreamSuccessRate"), K,
                    Counting(rows, w, width, K), SuccessBars(rows, w, width, K))
<1> DEFINE X == WithMetric(OutcomePoints(rows, w, width, dimension).points, "upstreamSuccessRate")
           H == Counting(rows, w, width, K)
           bar == SuccessBars(rows, w, width, K)
           D == Buckets(w, width)  G == OutcomeGroups(rows, 1, dimension)
           up(at, key) == UpIn(rows, w, width, at, key)
<1>0. AreSuccesses(X, rows, w, width, dimension)
  BY SuccessPointsAre
<1>1. \A p : p \in X <=> \E at \in D : \E key \in G :
                 Requests(up(at, key)) # 0 /\ p = SuccessPoint(at, key, up(at, key))
  <2> HIDE DEF X
  <2> QED
    BY <1>0 DEF AreSuccesses
<1>2. \A k : k \in H <=> k \in K /\ Requests(up(k[1], k[2])) # 0
  BY DEF Counting
<1>3. \A k \in K : k = <<k[1], k[2]>> /\ k[1] \in D /\ k[2] \in G
  BY DEF Cells
<1>4. \A at \in D, key \in G : <<at, key>> \in K
  BY DEF Cells
<1>5. \A k \in K : bar[k] = SuccessPoint(k[1], k[2], up(k[1], k[2]))
  BY DEF SuccessBars
<1>10. \A at, key, m : SuccessPoint(at, key, m).at = at /\ SuccessPoint(at, key, m).key = key
  BY DEF SuccessPoint, RatioPoint
<1> HIDE DEF X, H, bar, D, G, up
<1>6. \A k \in K : bar[k].at = k[1] /\ bar[k].key = k[2]
  BY <1>5, <1>10
<1>7. ASSUME NEW p \in X PROVE \E k \in H : p = bar[k]
  <2>1. PICK at \in D, key \in G : Requests(up(at, key)) # 0 /\ p = SuccessPoint(at, key, up(at, key))
    BY <1>1, <1>7
  <2> DEFINE k == <<at, key>>
  <2>2. k \in K /\ k[1] = at /\ k[2] = key
    BY <1>4
  <2> HIDE DEF k
  <2> QED
    BY <1>2, <1>5, <2>1, <2>2
<1>8. ASSUME NEW k \in H PROVE bar[k] \in X
  BY <1>1, <1>2, <1>3, <1>5
<1>9. AreCells(X, K, H, bar)
  BY <1>2, <1>3, <1>6, <1>7, <1>8 DEF AreCells
<1> QED
  BY <1>9 DEF X, H, bar

LEMMA OutcomeGroupsFacts ==
    ASSUME NEW rows, AreCounted(rows), NEW dimension
    PROVE  IsFiniteSet(OutcomeGroups(rows, 1, dimension)) /\ IsFiniteSet(ReasonsOf(rows))
<1> DEFINE U == OfType(rows, 1)
           X == {r.key : r \in U}  f == [r \in U |-> r.key]
           Y == {r.reason : r \in U}  g == [r \in U |-> r.reason]
<1>1. IsFiniteSet(U)
  <2>1. U \in SUBSET rows
    BY DEF OfType
  <2> QED
    BY <2>1, FS_Subset DEF AreCounted
<1> HIDE DEF U
<1>2. (\A x \in X : \E r \in U : f[r] = x) /\ \A y \in Y : \E r \in U : g[r] = y
  OBVIOUS
<1>3. OutcomeGroups(rows, 1, dimension) = {Empty} \/ OutcomeGroups(rows, 1, dimension) = X
  BY DEF OutcomeGroups, U
<1>4. ReasonsOf(rows) = Y
  BY DEF ReasonsOf, U
<1> HIDE DEF X, Y, f, g
<1>5. IsFiniteSet(X) /\ IsFiniteSet(Y)
  BY <1>1, <1>2, Images
<1>6. IsFiniteSet({Empty})
  BY FS_Singleton
<1> QED
  BY <1>3, <1>4, <1>5, <1>6

LEMMA SuccessTotals ==
    ASSUME NEW rows, AreCounted(rows), NEW w, IsWindow(w), AreInside(rows, w), NEW width \in Nat \ {0},
           NEW dimension, \A r \in OfType(rows, 1) : r.key \in OutcomeGroups(rows, 1, dimension),
           NEW X, X = WithMetric(OutcomePoints(rows, w, width, dimension).points, "upstreamSuccessRate")
    PROVE  /\ Sum(LAMBDA p : p.total, X) = Requests(OfType(rows, 1))
           /\ Sum(LAMBDA p : p.count, X) = Requests(Successes(OfType(rows, 1)))
<1> DEFINE U == OfType(rows, 1)
           V == Successes(U)
           G == OutcomeGroups(rows, 1, dimension)
           K == Cells(w, width, G)
           H == Counting(rows, w, width, K)
           bar == SuccessBars(rows, w, width, K)
           f == RequestsIn(rows)
           part == CellsOf(U, w, width, G)
           good == CellsOf(V, w, width, G)
<1>1. AreCells(X, K, H, bar)
  BY SuccessCells
<1>2. U \in SUBSET rows /\ V \in SUBSET U /\ V \in SUBSET rows
  BY DEF OfType, Successes
<1>3. IsFiniteSet(G)
  BY OutcomeGroupsFacts
<1>4. \A k \in K : /\ part[k] = UpIn(rows, w, width, k[1], k[2]) /\ part[k] \in SUBSET rows
                   /\ good[k] = Successes(part[k]) /\ good[k] \in SUBSET part[k] /\ good[k] \in SUBSET rows
                   /\ bar[k] = SuccessPoint(k[1], k[2], part[k])
                   /\ k \in H <=> Requests(part[k]) # 0
  BY DEF CellsOf, AtIn, InBucket, UpIn, SuccessBars, Counting, OfType, Successes
<1>5. H \in SUBSET K
  BY DEF Counting
<1> HIDE DEF U, V, G
<1>6. AreInside(U, w) /\ AreInside(V, w) /\ (\A r \in U : r.key \in G) /\ \A r \in V : r.key \in G
  BY <1>2 DEF AreInside, U, G
<1>7. IsFiniteSet(K) /\ IsPartition(U, K, part) /\ IsPartition(V, K, good)
  BY <1>3, <1>6, CellsPart
<1> HIDE DEF K, H, bar, part, good
<1>8. /\ Requests(U) = SumFunctionOnSet(f, U) /\ Counts(f, U) /\ IsFiniteSet(U)
      /\ Requests(V) = SumFunctionOnSet(f, V) /\ Counts(f, V) /\ IsFiniteSet(V)
  BY <1>2, CountedPart DEF AreCounted
<1>9. \A k \in K : /\ Requests(part[k]) = SumFunctionOnSet(f, part[k])
                   /\ Requests(good[k]) = SumFunctionOnSet(f, good[k]) /\ AreCounted(part[k])
  BY <1>4, CountedPart
<1>10. \A k \in K \ H : Requests(part[k]) = 0 /\ Requests(good[k]) = 0
  BY <1>4, <1>9, NothingCounted
<1>11. \A k \in H : bar[k].total = Requests(part[k]) /\ bar[k].count = Requests(good[k]) /\ bar[k] \in X
  <2> TAKE k \in H
  <2>1. bar[k] = SuccessPoint(k[1], k[2], part[k]) /\ good[k] = Successes(part[k])
    BY <1>4, <1>5
  <2>2. bar[k] \in X
    BY <1>1 DEF AreCells
  <2> QED
    BY <2>1, <2>2 DEF SuccessPoint, RatioPoint
<1> HIDE DEF f
<1>12. SumFunctionOnSet(TotalsIn(X), X) = SumFunctionOnSet(f, U)
  <2>1. \A k \in H : TotalsIn(X)[bar[k]] = SumFunctionOnSet(f, part[k])
    BY <1>5, <1>9, <1>11 DEF TotalsIn
  <2>2. \A k \in K \ H : SumFunctionOnSet(f, part[k]) = 0
    BY <1>9, <1>10
  <2> QED
    BY <1>1, <1>7, <1>8, <2>1, <2>2, CellsTotal
<1>13. SumFunctionOnSet(CountsIn(X), X) = SumFunctionOnSet(f, V)
  <2>1. \A k \in H : CountsIn(X)[bar[k]] = SumFunctionOnSet(f, good[k])
    BY <1>5, <1>9, <1>11 DEF CountsIn
  <2>2. \A k \in K \ H : SumFunctionOnSet(f, good[k]) = 0
    BY <1>9, <1>10
  <2> QED
    BY <1>1, <1>7, <1>8, <2>1, <2>2, CellsTotal
<1>14. /\ Sum(LAMBDA p : p.total, X) = SumFunctionOnSet(TotalsIn(X), X)
       /\ Sum(LAMBDA p : p.count, X) = SumFunctionOnSet(CountsIn(X), X)
  BY SumIs DEF Sum, TotalsIn, CountsIn
<1> QED
  BY <1>8, <1>12, <1>13, <1>14 DEF U, V

-----------------------------------------------------------------------------
(* The finish reasons of a bucket.                                          *)

\* The shares of a bucket's reasons make up its requests.
LEMMA SharesMakeUp ==
    ASSUME NEW rows, AreCounted(rows), NEW w, NEW width, NEW at \in Buckets(w, width),
           NEW up, up = UpIn(rows, w, width, at, Empty), Requests(up) # 0,
           NEW Y, AreShares(Y, rows, w, width)
    PROVE  Requests(up) = Sum(LAMBDA q : q.count, {q \in Y : q.at = at})
<1> DEFINE f == RequestsIn(rows)
           K == ReasonsOf(rows)
           Q == {q \in Y : q.at = at}
           part == [k \in K |-> WithReason(up, k)]
           name == [q \in Q |-> q.category]
           v == [q \in Q |-> q.count]
           share == [k \in K |-> SharePoint(at, k, up)]
<1>1. up \in SUBSET rows /\ \A r \in up : r.reason \in K
  BY DEF UpIn, InBucket, OfType, ReasonsOf
<1>2. IsFiniteSet(K)
  BY OutcomeGroupsFacts
<1>3. \A k \in K : part[k] = WithReason(up, k) /\ part[k] \in SUBSET up
                   /\ \A r \in up : r \in part[k] <=> r.reason = k
  BY DEF WithReason
<1>4. \A a, k, m : /\ SharePoint(a, k, m).at = a /\ SharePoint(a, k, m).category = k
                   /\ SharePoint(a, k, m).count = Requests(WithReason(m, k))
  BY DEF SharePoint, RatioPoint
<1>5. \A k \in K : share[k] \in Q
  <2> TAKE k \in K
  <2>1. share[k] \in Y
    BY DEF AreShares
  <2>2. share[k].at = at
    BY <1>4
  <2> QED
    BY <2>1, <2>2
<1>6. ASSUME NEW q \in Q PROVE \E k \in K : q = share[k]
  <2>1. PICK a \in Buckets(w, width), k \in K : q = SharePoint(a, k, UpIn(rows, w, width, a, Empty))
    BY <1>6 DEF AreShares
  <2>2. a = at
    BY <1>4, <1>6, <2>1
  <2> QED
    BY <2>1, <2>2
<1>7. \A k \in K : share[k].category = k /\ share[k].count = Requests(part[k])
  BY <1>3, <1>4
<1>8. \A q \in Q : name[q] = q.category /\ v[q] = q.count
  OBVIOUS
<1>9. Sum(LAMBDA q : q.count, Q) = SumFunctionOnSet(v, Q)
  BY SumIs DEF Sum
<1>10. IsPartition(up, K, part)
  BY <1>1, <1>3 DEF IsPartition
<1> HIDE DEF K, Q, part, name, v, share
<1>11. Counts(f, up) /\ IsFiniteSet(up) /\ Requests(up) = SumFunctionOnSet(f, up)
  BY <1>1, CountedPart DEF AreCounted
<1>12. \A k \in K : Requests(part[k]) = SumFunctionOnSet(f, part[k])
  <2> TAKE k \in K
  <2>1. part[k] \in SUBSET rows
    BY <1>1, <1>3
  <2> QED
    BY <2>1, CountedPart
<1>13. IsFiniteSet(Q)
  BY <1>2, <1>6, Images
<1> HIDE DEF f
<1>14. \A q \in Q : name[q] \in K /\ v[q] = SumFunctionOnSet(f, part[name[q]])
  BY <1>6, <1>7, <1>8, <1>12
<1>15. \A q, x \in Q : name[q] = name[x] => q = x
  BY <1>6, <1>7, <1>8
<1>16. \A k \in K : \E q \in Q : name[q] = k
  BY <1>5, <1>7, <1>8
<1>17. SumFunctionOnSet(v, Q) = SumFunctionOnSet(f, up)
  BY <1>2, <1>10, <1>11, <1>13, <1>14, <1>15, <1>16, SumRows
<1> QED
  BY <1>9, <1>11, <1>17 DEF Q

LEMMA SharesAddUp ==
    ASSUME NEW rows, AreCounted(rows), NEW w, NEW width, NEW dimension, Ungrouped(dimension),
           NEW points, points = OutcomePoints(rows, w, width, dimension).points
    PROVE  \A p \in WithMetric(points, "upstreamSuccessRate") :
               p.total = Sum(LAMBDA q : q.count, {q \in WithMetric(points, "finishReasonShare") : q.at = p.at})
<1> DEFINE X == WithMetric(points, "upstreamSuccessRate")
           Y == WithMetric(points, "finishReasonShare")
<1>1. AreSuccesses(X, rows, w, width, dimension)
  BY SuccessPointsAre
<1>2. AreShares(Y, rows, w, width)
  BY SharePointsAre
<1> HIDE DEF X, Y
<1> SUFFICES ASSUME NEW p \in X PROVE p.total = Sum(LAMBDA q : q.count, {q \in Y : q.at = p.at})
  BY DEF X, Y
<1>3. PICK at \in Buckets(w, width), key \in OutcomeGroups(rows, 1, dimension) :
          /\ Requests(UpIn(rows, w, width, at, key)) # 0
          /\ p = SuccessPoint(at, key, UpIn(rows, w, width, at, key))
  BY <1>1 DEF AreSuccesses
<1>4. key = Empty
  BY <1>3 DEF OutcomeGroups, Ungrouped
<1> DEFINE up == UpIn(rows, w, width, at, Empty)
<1>5. p.total = Requests(up) /\ p.at = at /\ Requests(up) # 0
  BY <1>3, <1>4 DEF SuccessPoint, RatioPoint
<1>6. Requests(up) = Sum(LAMBDA q : q.count, {q \in Y : q.at = at})
  BY <1>2, <1>5, SharesMakeUp
<1> QED
  BY <1>5, <1>6

-----------------------------------------------------------------------------
(* The outcome series of a question.                                        *)

\* What the outcome queries count: requests of completion endpoints.
CountedIn(in, w) ==
    {o \in Selected(Outcomes, w, Own(in.user, in.filter)) : o.path \in CompletionPaths}

LEMMA CountedFacts ==
    ASSUME TableInv, NEW in, NEW w
    PROVE  AreCounted(CountedIn(in, w)) /\ AreInside(CountedIn(in, w), w)
<1>1. CountedIn(in, w) \in SUBSET Outcomes
  BY DEF CountedIn, Selected
<1>2. AreCounted(Outcomes) /\ \A o \in Outcomes : o.at \in Int
  BY OutcomesCounted
<1>3. AreCounted(CountedIn(in, w))
  BY <1>1, <1>2, CountedPart
<1>4. AreInside(CountedIn(in, w), w)
  BY <1>2 DEF CountedIn, Selected, AreInside
<1> QED
  BY <1>3, <1>4

\* The rows a series is made of.
SeriesRows(in, w) == OutcomeRows(CountedIn(in, w), in.dimension, OwnDims)

LEMMA SeriesRowsFacts ==
    ASSUME TableInv, NEW in, NEW w
    PROVE  LET R == SeriesRows(in, w)  C == CountedIn(in, w)
           IN /\ AreCounted(R) /\ AreInside(R, w)
              /\ \A r \in R : \E o \in C : r.key = GroupKey(o, in.dimension, OwnDims)
              /\ Requests(OfType(R, 1)) = Requests(OfType(C, 1))
              /\ Requests(Successes(OfType(R, 1))) = Requests(Successes(OfType(C, 1)))
<1> DEFINE C == CountedIn(in, w)
           R == SeriesRows(in, w)
           rowOf == RowOf(C, in.dimension, OwnDims)
<1>1. AreCounted(C) /\ AreInside(C, w)
  BY CountedFacts
<1>2. R = OutcomeRows(C, in.dimension, OwnDims)
  BY DEF SeriesRows
<1> HIDE DEF C, R
<1>0. rowOf = RowOf(C, in.dimension, OwnDims)
  OBVIOUS
<1> HIDE DEF rowOf
<1>3. /\ AreCounted(R)
      /\ \A o \in C : /\ rowOf[o] \in R /\ rowOf[o].at = o.at /\ rowOf[o].type = o.type
                      /\ rowOf[o].key = GroupKey(o, in.dimension, OwnDims)
                      /\ rowOf[o].reason = o.reason /\ rowOf[o].empty = o.empty
      /\ \A r \in R : /\ \E o \in C : rowOf[o] = r
                      /\ r.requests = Requests({o \in C : rowOf[o] = r})
  BY <1>0, <1>1, <1>2, OutcomeRowsAre
<1>4. AreInside(R, w)
  <2>1. \A r \in R : \E o \in C : r.at = o.at
    BY <1>3
  <2>2. \A o \in C : o.at \in Int /\ w.from <= o.at /\ o.at < w.to
    BY <1>1 DEF AreInside
  <2> QED
    BY <2>1, <2>2 DEF AreInside
<1>5. \A r \in R : \E o \in C : r.key = GroupKey(o, in.dimension, OwnDims)
  BY <1>3
<1>6. Requests(OfType(R, 1)) = Requests(OfType(C, 1))
  <2> DEFINE A == OfType(R, 1)  D == OfType(C, 1)
  <2>1. A \in SUBSET R /\ D \in SUBSET C
    BY DEF OfType
  <2>2. \A o \in C : o \in D <=> rowOf[o] \in A
    BY <1>3 DEF OfType
  <2>3. \A r \in R : r.requests = Requests({o \in C : rowOf[o] = r})
    BY <1>3
  <2> HIDE DEF A, D
  <2>4. Requests(A) = Requests(D)
    BY <1>1, <1>3, <2>1, <2>2, <2>3, ChosenRows
  <2> QED
    BY <2>4 DEF A, D
<1>7. Requests(Successes(OfType(R, 1))) = Requests(Successes(OfType(C, 1)))
  <2> DEFINE A == Successes(OfType(R, 1))  D == Successes(OfType(C, 1))
  <2>1. A \in SUBSET R /\ D \in SUBSET C
    BY DEF OfType, Successes
  <2>2. \A o \in C : Succeeded(o) <=> Succeeded(rowOf[o])
    BY <1>3, Zenon DEF Succeeded
  <2>3. \A o \in C : o \in D <=> rowOf[o] \in A
    BY <1>3, <2>2 DEF OfType, Successes
  <2>4. \A r \in R : r.requests = Requests({o \in C : rowOf[o] = r})
    BY <1>3
  <2> HIDE DEF A, D
  <2>5. Requests(A) = Requests(D)
    BY <1>1, <1>3, <2>1, <2>3, <2>4, ChosenRows
  <2> QED
    BY <2>5 DEF A, D
<1> QED
  BY <1>3, <1>4, <1>5, <1>6, <1>7 DEF C, R

\* Every row is in a group of the series.
LEMMA RowsInGroups ==
    ASSUME TableInv, NEW in, NEW w, NEW rows, rows = SeriesRows(in, w)
    PROVE  \A r \in OfType(rows, 1) : r.key \in OutcomeGroups(rows, 1, in.dimension)
<1>1. CASE in.dimension = "none"
  <2>1. "none" \notin OwnDims
    BY DEF OwnDims, Dims
  <2>2. \A o : GroupKey(o, in.dimension, OwnDims) = Empty
    BY <1>1, <2>1, Zenon DEF GroupKey
  <2>3. \A r \in rows : r.key = Empty
    BY <2>2, SeriesRowsFacts
  <2> QED
    BY <1>1, <2>3 DEF OfType, OutcomeGroups
<1>2. CASE in.dimension # "none"
  BY <1>2 DEF OutcomeGroups
<1> QED
  BY <1>1, <1>2

LEMMA OutcomeSeriesIs ==
    ASSUME NEW in, NEW series \in GetOverviewOutcomeSeries(data, in, Now)
    PROVE  \E s \in OwnSeriesWindow(in, Now) :
               series = OutcomePoints(SeriesRows(in, s.w), s.w, s.width, in.dimension)
<1>1. \A w : ListOverviewOutcomeSeries(Outcomes, w, in.user, in.filter, in.dimension) = SeriesRows(in, w)
  BY DEF ListOverviewOutcomeSeries, SeriesRows, CountedIn, GroupBy, OutcomeRows, OutcomeRow, OutcomesOf, OutcomeKey
<1> QED
  BY <1>1 DEF GetOverviewOutcomeSeries, data, Outcomes

LEMMA SuccessIs ==
    ASSUME NEW in, NEW s \in GetOverviewSummary(data, in, Now)
    PROVE  \E w \in OwnWindow(in, Now) :
               /\ s.success.total = Requests(OfType(CountedIn(in, w), 1))
               /\ s.success.successful = Requests(Successes(OfType(CountedIn(in, w), 1)))
<1>1. PICK w \in OwnWindow(in, Now) :
          s.success = SuccessRate(GetOverviewUpstreamSuccessTotals(Outcomes, w, in.user, in.filter))
  BY DEF GetOverviewSummary, data, Outcomes
<1> DEFINE all == Selected(Outcomes, w, Own(in.user, in.filter))
           ended == {o \in all : o.type = 1 /\ o.path \in CompletionPaths}
<1>2. ended = OfType(CountedIn(in, w), 1)
  BY DEF OfType, CountedIn
<1>3. GetOverviewUpstreamSuccessTotals(Outcomes, w, in.user, in.filter)
          = [successful |-> Requests({o \in ended : Succeeded(o)}), total |-> Requests(ended)]
  BY DEF GetOverviewUpstreamSuccessTotals
<1> HIDE DEF ended, all
<1>4. /\ s.success.total = Requests(ended)
      /\ s.success.successful = Requests({o \in ended : Succeeded(o)})
  BY <1>1, <1>3 DEF SuccessRate
<1> QED
  BY <1>2, <1>4 DEF Successes

\* The success rate of the summary is the weighted mean of the series over its
\* window, and the reasons' shares make up every bucket (buildOutcomeSeries).
THEOREM OutcomesAddUpHolds == Spec => []OutcomesAddUp
<1>1. TableInv => OutcomesAddUp
  <2> SUFFICES ASSUME TableInv, NEW in \in OwnQuestions,
                      NEW series \in GetOverviewOutcomeSeries(data, in, Now),
                      NEW summary \in GetOverviewSummary(data, [in EXCEPT !.range = Same(series.window)], Now)
               PROVE  LET up == WithMetric(series.points, "upstreamSuccessRate")
                          shares == WithMetric(series.points, "finishReasonShare")
                      IN /\ Sum(LAMBDA p : p.total, up) = summary.success.total
                         /\ Sum(LAMBDA p : p.count, up) = summary.success.successful
                         /\ in.dimension = "none" =>
                              \A p \in up : p.total = Sum(LAMBDA q : q.count, {q \in shares : q.at = p.at})
    BY DEF OutcomesAddUp, WithMetric
  <2> DEFINE there == [in EXCEPT !.range = Same(series.window)]
  <2>1. /\ in.range \in Ranges /\ there.user = in.user /\ there.filter = in.filter
        /\ "range" \in DOMAIN in
    BY DEF OwnQuestions, Questions, Ask
  <2>2. PICK s \in OwnSeriesWindow(in, Now) :
            series = OutcomePoints(SeriesRows(in, s.w), s.w, s.width, in.dimension)
    BY OutcomeSeriesIs
  <2> DEFINE w == s.w  R == SeriesRows(in, w)  C == CountedIn(in, w)  width == s.width
             points == OutcomePoints(R, w, width, in.dimension).points
             X == WithMetric(points, "upstreamSuccessRate")
             Y == WithMetric(points, "finishReasonShare")
  <2>3. IsWindow(w) /\ w = [from |-> w.from, to |-> w.to] /\ width \in Nat \ {0}
    <3>1. s \in SeriesWindow(in.range, in.bucket, Now)
      BY DEF OwnSeriesWindow
    <3> QED
      BY <2>1, <3>1, SeriesWindows
  <2>4. series.points = points /\ series.window = w
    BY <2>2 DEF OutcomePoints
  <2>5. PICK x \in OwnWindow(there, Now) :
            /\ summary.success.total = Requests(OfType(CountedIn(there, x), 1))
            /\ summary.success.successful = Requests(Successes(OfType(CountedIn(there, x), 1)))
    BY SuccessIs
  <2>6. x = w
    BY <2>1, <2>3, <2>4, SameWindow
  <2>7. CountedIn(there, x) = C
    BY <2>1, <2>6 DEF CountedIn
  <2>8. /\ AreCounted(R) /\ AreInside(R, w)
        /\ Requests(OfType(R, 1)) = Requests(OfType(C, 1))
        /\ Requests(Successes(OfType(R, 1))) = Requests(Successes(OfType(C, 1)))
    BY SeriesRowsFacts
  <2>9. \A r \in OfType(R, 1) : r.key \in OutcomeGroups(R, 1, in.dimension)
    BY RowsInGroups
  <2> HIDE DEF R, C, width, there
  <2>10. X = WithMetric(OutcomePoints(R, w, width, in.dimension).points, "upstreamSuccessRate")
         /\ points = OutcomePoints(R, w, width, in.dimension).points
    OBVIOUS
  <2> HIDE DEF w, points, X, Y
  <2>11. /\ Sum(LAMBDA p : p.total, X) = Requests(OfType(R, 1))
         /\ Sum(LAMBDA p : p.count, X) = Requests(Successes(OfType(R, 1)))
    BY <2>3, <2>8, <2>9, <2>10, SuccessTotals
  <2>12. ASSUME in.dimension = "none"
         PROVE  \A p \in X : p.total = Sum(LAMBDA q : q.count, {q \in Y : q.at = p.at})
    <3>1. Ungrouped(in.dimension)
      BY <2>12 DEF Ungrouped
    <3> QED
      BY <2>8, <2>10, <3>1, SharesAddUp DEF X, Y
  <2>13. /\ Sum(LAMBDA p : p.total, X) = summary.success.total
         /\ Sum(LAMBDA p : p.count, X) = summary.success.successful
    BY <2>5, <2>7, <2>8, <2>11
  <2> QED
    BY <2>4, <2>12, <2>13 DEF X, Y
<1> QED
  BY <1>1, TableInvHolds, PTL

\* The bars and the ratios of a series are the summary's over its window.
THEOREM SeriesAddUpHolds == Spec => []SeriesAddUp
BY BarsAddUpHolds, OutcomesAddUpHolds, PTL DEF SeriesAddUp

-----------------------------------------------------------------------------
(* The traces table: one row for each span of a user that has a request,    *)
(* from its first request to its last, however the row came about.          *)

SpanTime(r) == [span |-> r.span, user |-> r.dims["user"], at |-> r.at]
RowsIn(R) == {SpanTime(r) : r \in R}
AreTimed(X) == \A x \in X : x.at \in Int

IsOwned(x) == x.span # NullName /\ x.user # NullName
OfOne(x, y) == x.span = y.span /\ x.user = y.user
IsTrace(t) == t = [id |-> t.id, span |-> t.span, user |-> t.user, first |-> t.first, last |-> t.last]

\* A trace starts and ends where its rows do.
SpansRows(t, X) ==
    /\ t.first \in Int /\ t.last \in Int /\ IsOwned(t)
    /\ \E x \in X : OfOne(x, t) /\ x.at = t.first
    /\ \E x \in X : OfOne(x, t) /\ x.at = t.last
    /\ \A x \in X : OfOne(x, t) => t.first <= x.at /\ x.at <= t.last

\* The traces are those of the rows.
Exact(T, X) ==
    /\ \A t \in T : SpansRows(t, X)
    /\ \A x \in X : IsOwned(x) => \E t \in T : OfOne(x, t)
    /\ \A t, q \in T : OfOne(t, q) => t = q

BoundOf(t) == [span |-> t.span, user |-> t.user, first |-> t.first, last |-> t.last]
BoundsIn(T) == {BoundOf(t) : t \in T}

\* Whatever has exact traces has the same bounds.
LEMMA ExactBounds ==
    ASSUME NEW X, AreTimed(X), NEW T, Exact(T, X), NEW C, Exact(C, X)
    PROVE  BoundsIn(T) = BoundsIn(C)
<1>1. ASSUME NEW A, Exact(A, X), NEW B, Exact(B, X), NEW t \in A PROVE BoundOf(t) \in BoundsIn(B)
  <2>1. PICK x \in X : OfOne(x, t) /\ x.at = t.first
    BY <1>1 DEF Exact, SpansRows
  <2>2. PICK y \in X : OfOne(y, t) /\ y.at = t.last
    BY <1>1 DEF Exact, SpansRows
  <2>3. IsOwned(x)
    BY <1>1, <2>1 DEF Exact, SpansRows, IsOwned, OfOne
  <2>4. PICK c \in B : OfOne(x, c)
    BY <1>1, <2>3 DEF Exact
  <2>5. OfOne(x, c) /\ OfOne(y, c)
    BY <2>1, <2>2, <2>4 DEF OfOne
  <2>6. SpansRows(c, X) /\ SpansRows(t, X)
    BY <1>1 DEF Exact
  <2>7. c.first <= t.first /\ t.last <= c.last
    BY <2>1, <2>2, <2>5, <2>6 DEF SpansRows
  <2>8. \A z \in X : OfOne(z, c) => OfOne(z, t)
    BY <2>1, <2>5 DEF OfOne
  <2>9. t.first <= c.first /\ c.last <= t.last
    BY <2>6, <2>8 DEF SpansRows
  <2>10. c.first = t.first /\ c.last = t.last /\ OfOne(t, c)
    BY <2>1, <2>5, <2>6, <2>7, <2>9 DEF SpansRows, OfOne
  <2> QED
    BY <2>10 DEF BoundsIn, BoundOf, OfOne
<1>2. \A t \in T : BoundOf(t) \in BoundsIn(C)
  BY <1>1
<1>3. \A c \in C : BoundOf(c) \in BoundsIn(T)
  BY <1>1
<1> QED
  BY <1>2, <1>3 DEF BoundsIn

LEMMA Lesser == ASSUME NEW a \in Int, NEW b \in Int
                PROVE  Traces!Min({a, b}) = (IF a <= b THEN a ELSE b)
<1> DEFINE m == IF a <= b THEN a ELSE b
<1>1. m \in {a, b} /\ \A y \in {a, b} : m <= y
  OBVIOUS
<1>2. \A x \in {a, b} : (\A y \in {a, b} : x <= y) => x = m
  OBVIOUS
<1> QED
  BY <1>1, <1>2 DEF Traces!Min

LEMMA Greater == ASSUME NEW a \in Int, NEW b \in Int
                 PROVE  Traces!Max({a, b}) = (IF a <= b THEN b ELSE a)
<1> DEFINE m == IF a <= b THEN b ELSE a
<1>1. m \in {a, b} /\ \A y \in {a, b} : m >= y
  OBVIOUS
<1>2. \A x \in {a, b} : (\A y \in {a, b} : x >= y) => x = m
  OBVIOUS
<1> QED
  BY <1>1, <1>2 DEF Traces!Max

LEMMA ExtendedIs ==
    ASSUME NEW t, IsTrace(t), NEW a, NEW b
    PROVE  Traces!Extended(t, a, b) =
               [id |-> t.id, span |-> t.span, user |-> t.user,
                first |-> Traces!Min({t.first, a}), last |-> Traces!Max({t.last, b})]
<1> DEFINE id == t.id  span == t.span  user == t.user  first == t.first  last == t.last
           f == Traces!Min({first, a})  l == Traces!Max({last, b})
           fields == {"id", "span", "user", "first", "last"}
<1>1. t = [id |-> id, span |-> span, user |-> user, first |-> first, last |-> last]
  BY DEF IsTrace
<1> HIDE DEF id, span, user, first, last
<1>2. Traces!Extended(t, a, b) = [t EXCEPT !.first = f, !.last = l]
  BY DEF Traces!Extended, first, last
<1> HIDE DEF f, l
<1>3. DOMAIN t = fields /\ t = [x \in DOMAIN t |-> t[x]]
  BY <1>1
<1>4. [t EXCEPT !.first = f, !.last = l]
          = [x \in DOMAIN t |-> IF x = "last" THEN l ELSE IF x = "first" THEN f ELSE t[x]]
  BY <1>3
<1>5. [id |-> id, span |-> span, user |-> user, first |-> f, last |-> l]
          = [x \in fields |-> IF x = "last" THEN l ELSE IF x = "first" THEN f ELSE t[x]]
  BY <1>1
<1> QED
  BY <1>2, <1>3, <1>4, <1>5 DEF id, span, user, first, last, f, l

\* An upsert keeps the traces exact.
LEMMA UpsertExact ==
    ASSUME NEW T, NEW X, AreTimed(X), Exact(T, X), \A t \in T : IsTrace(t),
           NEW z, z.at \in Int
    PROVE  LET U == Traces!UpsertTrace(T, z.span, z.user, z.at)
           IN Exact(U, X \cup {z}) /\ \A t \in U : IsTrace(t)
<1> DEFINE U == Traces!UpsertTrace(T, z.span, z.user, z.at)
           Y == X \cup {z}
           same == {t \in T : t.span = z.span /\ t.user = z.user}
           new == [id |-> Traces!Cardinality(T) + 1, span |-> z.span, user |-> z.user,
                   first |-> z.at, last |-> z.at]
           Longer(t) == Traces!Extended(t, z.at, z.at)
           longer == {Longer(t) : t \in same}
<1> SUFFICES Exact(U, Y) /\ \A t \in U : IsTrace(t)
  OBVIOUS
<1>1. U = IF z.span = NullName \/ z.user = NullName THEN T
          ELSE IF same = {} THEN T \cup {new} ELSE (T \ same) \cup longer
  BY DEF Traces!UpsertTrace, Traces!PutTrace
<1>2. \A t \in T : ~ OfOne(z, t) => SpansRows(t, Y)
  <2> SUFFICES ASSUME NEW t \in T, ~ OfOne(z, t) PROVE SpansRows(t, Y)
    OBVIOUS
  <2>1. SpansRows(t, X)
    BY DEF Exact
  <2> QED
    BY <2>1 DEF SpansRows
<1>3. \A t \in same : /\ IsTrace(Longer(t)) /\ OfOne(Longer(t), t)
                      /\ Longer(t).first = (IF t.first <= z.at THEN t.first ELSE z.at)
                      /\ Longer(t).last = (IF t.last <= z.at THEN z.at ELSE t.last)
  <2> SUFFICES ASSUME NEW t \in same
               PROVE  /\ IsTrace(Longer(t)) /\ OfOne(Longer(t), t)
                      /\ Longer(t).first = (IF t.first <= z.at THEN t.first ELSE z.at)
                      /\ Longer(t).last = (IF t.last <= z.at THEN z.at ELSE t.last)
    OBVIOUS
  <2>1. t.first \in Int /\ t.last \in Int
    BY DEF Exact, SpansRows
  <2>2. /\ Traces!Min({t.first, z.at}) = (IF t.first <= z.at THEN t.first ELSE z.at)
        /\ Traces!Max({t.last, z.at}) = (IF t.last <= z.at THEN z.at ELSE t.last)
    BY <2>1, Lesser, Greater
  <2>3. Longer(t) = [id |-> t.id, span |-> t.span, user |-> t.user,
                     first |-> Traces!Min({t.first, z.at}), last |-> Traces!Max({t.last, z.at})]
    BY ExtendedIs
  <2> HIDE DEF Longer
  <2> QED
    BY <2>2, <2>3 DEF IsTrace, OfOne
<1> HIDE DEF Longer
<1>4. CASE z.span = NullName \/ z.user = NullName
  <2>1. \A t \in T : ~ OfOne(z, t)
    BY <1>4 DEF Exact, SpansRows, IsOwned, OfOne
  <2>2. ~ IsOwned(z)
    BY <1>4 DEF IsOwned
  <2>3. U = T
    BY <1>1, <1>4
  <2> HIDE DEF U
  <2> QED
    BY <2>1, <2>2, <2>3, <1>2 DEF Exact
<1>5. CASE IsOwned(z) /\ same = {}
  <2>1. \A t \in T : ~ OfOne(z, t)
    BY <1>5 DEF OfOne
  <2>2. U = T \cup {new}
    BY <1>1, <1>5 DEF IsOwned
  <2>3. \A x \in X : ~ OfOne(x, new)
    <3> SUFFICES ASSUME NEW x \in X, OfOne(x, new) PROVE FALSE
      OBVIOUS
    <3>1. OfOne(x, z) /\ IsOwned(x)
      BY <1>5 DEF OfOne, IsOwned
    <3>2. PICK t \in T : OfOne(x, t)
      BY <3>1 DEF Exact
    <3> QED
      BY <2>1, <3>1, <3>2 DEF OfOne
  <2>4. OfOne(z, new) /\ new.first = z.at /\ new.last = z.at /\ IsOwned(new) /\ IsTrace(new)
    BY <1>5 DEF OfOne, IsOwned, IsTrace
  <2> HIDE DEF new, U
  <2>5. SpansRows(new, Y)
    BY <2>3, <2>4 DEF SpansRows
  <2>6. \A t \in T : ~ OfOne(t, new) /\ ~ OfOne(new, t)
    BY <2>1, <2>4 DEF OfOne
  <2> QED
    BY <2>1, <2>2, <2>4, <2>5, <2>6, <1>2 DEF Exact
<1>6. CASE IsOwned(z) /\ same # {}
  <2>2. U = (T \ same) \cup longer
    BY <1>1, <1>6 DEF IsOwned
  <2>3. ASSUME NEW t \in same PROVE SpansRows(Longer(t), Y) /\ OfOne(z, Longer(t))
    <3>1. SpansRows(t, X) /\ OfOne(z, t)
      BY DEF Exact, OfOne
    <3>2. PICK x \in X : OfOne(x, t) /\ x.at = t.first
      BY <3>1 DEF SpansRows
    <3>3. PICK y \in X : OfOne(y, t) /\ y.at = t.last
      BY <3>1 DEF SpansRows
    <3>4. \A a : OfOne(a, Longer(t)) <=> OfOne(a, t)
      BY <1>3 DEF OfOne
    <3>5. IsOwned(Longer(t))
      BY <1>3, <3>1 DEF OfOne, IsOwned, SpansRows
    <3>6. \A a \in Y : OfOne(a, Longer(t)) => Longer(t).first <= a.at /\ a.at <= Longer(t).last
      BY <1>3, <3>1, <3>4 DEF SpansRows, AreTimed
    <3>7. (\E a \in Y : OfOne(a, Longer(t)) /\ a.at = Longer(t).first)
      BY <1>3, <3>1, <3>2, <3>4
    <3>8. (\E a \in Y : OfOne(a, Longer(t)) /\ a.at = Longer(t).last)
      BY <1>3, <3>1, <3>3, <3>4
    <3>9. Longer(t).first \in Int /\ Longer(t).last \in Int
      BY <1>3, <3>1 DEF SpansRows
    <3> QED
      BY <3>1, <3>4, <3>5, <3>6, <3>7, <3>8, <3>9 DEF SpansRows
  <2>4. \A t \in T \ same : ~ OfOne(z, t)
    BY DEF OfOne
  <2>5. PICK s \in same : TRUE
    BY <1>6
  <2>6. \A t \in same : t = s
    BY DEF Exact, OfOne
  <2>7. longer = {Longer(s)}
    BY <2>6
  <2>8. OfOne(Longer(s), s) /\ s \in T
    BY <1>3
  <2>9. U = (T \ same) \cup {Longer(s)}
    BY <2>2, <2>7
  <2>10. SpansRows(Longer(s), Y) /\ OfOne(z, Longer(s)) /\ IsTrace(Longer(s))
    BY <2>3, <1>3
  <2> HIDE DEF U, longer
  <2>11. \A t \in U : SpansRows(t, Y) /\ IsTrace(t)
    BY <2>4, <2>9, <2>10, <1>2
  <2>12. \A x \in Y : IsOwned(x) => \E t \in U : OfOne(x, t)
    <3> SUFFICES ASSUME NEW x \in X, IsOwned(x) PROVE \E t \in U : OfOne(x, t)
      BY <2>9, <2>10
    <3>1. PICK t \in T : OfOne(x, t)
      BY DEF Exact
    <3>2. CASE t \in same
      BY <3>1, <3>2, <2>6, <2>8, <2>9 DEF OfOne
    <3> QED
      BY <3>1, <3>2, <2>9
  <2>13. \A t, q \in U : OfOne(t, q) => t = q
    <3>1. \A t \in T \ same : ~ OfOne(t, Longer(s)) /\ ~ OfOne(Longer(s), t)
      BY <2>4, <2>10 DEF OfOne
    <3> HIDE DEF same
    <3> QED
      BY <3>1, <2>9 DEF Exact
  <2> QED
    BY <2>11, <2>12, <2>13 DEF Exact
<1> QED
  BY <1>4, <1>5, <1>6 DEF IsOwned
\* The rows whose upsert has been done have exact traces.
Caught == RowsIn(request \ behind)
ExactInv ==
    /\ TableInv /\ behind \subseteq request
    /\ Exact(traces, Caught) /\ \A t \in traces : IsTrace(t)

LEMMA RowsTimed ==
    ASSUME TableInv, NEW R \in SUBSET request
    PROVE  AreTimed(RowsIn(R)) /\ IsFiniteSet(RowsIn(R))
<1> DEFINE X == RowsIn(R)  f == [r \in R |-> SpanTime(r)]
<1>1. AreTimed(X)
  BY PoolAssumption DEF TableInv, RowsIn, SpanTime, AreTimed
<1>2. \A x \in X : \E r \in R : f[r] = x
  BY DEF RowsIn
<1>3. IsFiniteSet(R)
  BY FS_Subset DEF TableInv
<1> HIDE DEF X, f
<1> QED
  BY <1>1, <1>2, <1>3, Images DEF X

\* A row without a trace and the upserts keep the traces exact.
LEMMA ExactHolds == Spec => []ExactInv
<1>1. Init => ExactInv
  BY FS_EmptySet DEF Init, ExactInv, TableInv, Exact, RowsIn, Caught
<1>2. ExactInv /\ TableInv' /\ [Next]_vars => ExactInv'
  <2> SUFFICES ASSUME ExactInv, TableInv', [Next]_vars PROVE ExactInv'
    OBVIOUS
  <2>1. CASE UNCHANGED vars
    BY <2>1 DEF vars, ExactInv, Caught
  <2>2. ASSUME NEW r \in Pool, request' \ behind' = (request \ behind) \cup {r},
               traces' = Traces!UpsertTrace(traces, r.span, r.dims["user"], r.at)
        PROVE  Exact(traces', Caught') /\ \A t \in traces' : IsTrace(t)
    <3> DEFINE z == SpanTime(r)  X == Caught
    <3>1. z.span = r.span /\ z.user = r.dims["user"] /\ z.at = r.at /\ z.at \in Int
      BY PoolAssumption DEF SpanTime
    <3>2. traces' = Traces!UpsertTrace(traces, z.span, z.user, z.at)
      BY <3>1, <2>2
    <3>3. Caught' = X \cup {z}
      BY <2>2 DEF Caught, RowsIn
    <3>4. AreTimed(X) /\ Exact(traces, X) /\ \A t \in traces : IsTrace(t)
      BY RowsTimed DEF ExactInv, Caught
    <3> HIDE DEF z, X
    <3>5. LET U == Traces!UpsertTrace(traces, z.span, z.user, z.at)
          IN Exact(U, X \cup {z}) /\ \A t \in U : IsTrace(t)
      BY <3>1, <3>4, UpsertExact
    <3> QED
      BY <3>2, <3>3, <3>5
  <2>3. ASSUME NEW r \in Pool, InsertRequest(r) PROVE ExactInv'
    <3>1. /\ r \notin request /\ request' = request \cup {r} /\ traces' = traces
          /\ behind' = behind \cup {x \in {r} : x.span # NullName /\ x.dims["user"] # NullName}
          /\ behind \subseteq request
      BY <2>3 DEF InsertRequest, ExactInv
    <3>2. behind' \subseteq request'
      BY <3>1
    <3>3. CASE r.span # NullName /\ r.dims["user"] # NullName
      <4>1. request' \ behind' = request \ behind
        BY <3>1, <3>3
      <4> QED
        BY <4>1, <3>1, <3>2 DEF ExactInv, Caught
    <3>4. CASE ~ (r.span # NullName /\ r.dims["user"] # NullName)
      <4>1. request' \ behind' = (request \ behind) \cup {r}
        BY <3>1, <3>4
      <4>2. traces' = Traces!UpsertTrace(traces, r.span, r.dims["user"], r.at)
        BY <3>1, <3>4 DEF Traces!UpsertTrace
      <4>3. Exact(traces', Caught') /\ \A t \in traces' : IsTrace(t)
        BY <4>1, <4>2, <2>2
      <4> QED
        BY <4>3, <3>2 DEF ExactInv
    <3> QED
      BY <3>3, <3>4
  <2>4. ASSUME NEW r \in Pool, UpsertTrace(r) PROVE ExactInv'
    <3>1. /\ r \in behind /\ behind' = behind \ {r} /\ request' = request /\ behind \subseteq request
          /\ traces' = Traces!UpsertTrace(traces, r.span, r.dims["user"], r.at)
      BY <2>4 DEF UpsertTrace, ExactInv
    <3>2. request' \ behind' = (request \ behind) \cup {r} /\ behind' \subseteq request'
      BY <3>1
    <3>3. Exact(traces', Caught') /\ \A t \in traces' : IsTrace(t)
      BY <3>1, <3>2, <2>2
    <3> QED
      BY <3>2, <3>3 DEF ExactInv
  <2> QED
    BY <2>1, <2>3, <2>4 DEF Next
<1> QED
  BY <1>1, <1>2, TableInvHolds, PTL DEF Spec

\* A finite set of integers has a least and a greatest one.
LEMMA Extremes ==
    ASSUME NEW S, IsFiniteSet(S), S \subseteq Int, S # {}
    PROVE  (\E m \in S : \A n \in S : m <= n) /\ (\E m \in S : \A n \in S : m >= n)
<1> DEFINE Has(T) == (\E m \in T : \A n \in T : m <= n) /\ (\E m \in T : \A n \in T : m >= n)
           P == {T \in SUBSET S : T = {} \/ Has(T)}
<1>1. {} \in P
  OBVIOUS
<1>2. ASSUME NEW T \in SUBSET S, NEW x \in S \ T, T \in P PROVE T \cup {x} \in P
  <2>1. CASE T = {}
    <3>1. Has({x})
      OBVIOUS
    <3> QED
      BY <2>1, <3>1
  <2>2. CASE Has(T)
    <3>1. PICK m \in T : \A n \in T : m <= n
      BY <2>2
    <3>2. PICK l \in T : \A n \in T : l >= n
      BY <2>2
    <3>3. \E k \in T \cup {x} : \A n \in T \cup {x} : k <= n
      <4>1. CASE m <= x
        BY <4>1, <3>1
      <4>2. CASE ~ (m <= x)
        <5>1. \A n \in T \cup {x} : x <= n
          BY <4>2, <3>1
        <5> QED
          BY <5>1
      <4> QED
        BY <4>1, <4>2
    <3>4. \E k \in T \cup {x} : \A n \in T \cup {x} : k >= n
      <4>1. CASE l >= x
        BY <4>1, <3>2
      <4>2. CASE ~ (l >= x)
        <5>1. \A n \in T \cup {x} : x >= n
          BY <4>2, <3>2
        <5> QED
          BY <5>1
      <4> QED
        BY <4>1, <4>2
    <3> QED
      BY <3>3, <3>4
  <2> QED
    BY <2>1, <2>2, <1>2
<1>3. S \in P
  <2> HIDE DEF P
  <2> QED
    BY <1>1, <1>2, Subsets
<1> QED
  BY <1>3

OwnedRows(X) == {x \in X : IsOwned(x)}
KeyOf(x) == <<x.span, x.user>>
TimesOf(X, k) == {x.at : x \in {y \in OwnedRows(X) : KeyOf(y) = k}}
SpanOf(X, k) == [span |-> k[1], user |-> k[2], first |-> Traces!Min(TimesOf(X, k)), last |-> Traces!Max(TimesOf(X, k))]
SpansOf(X) == {SpanOf(X, k) : k \in {KeyOf(x) : x \in OwnedRows(X)}}

\* A trace that reaches as far as the span.
Covers(t, c) == t.span = c.span /\ t.user = c.user /\ t.first <= c.first /\ t.last >= c.last

\* The spans of the rows that no trace covers are to be filled in.
LEMMA CandidatesAre ==
    ASSUME NEW T, NEW X
    PROVE  Traces!TraceBackfillCandidates(T, X) = {c \in SpansOf(X) : ~ \E t \in T : Covers(t, c)}
BY DEF Traces!TraceBackfillCandidates, SpansOf, SpanOf, TimesOf, OwnedRows, KeyOf, IsOwned, Covers

LEMMA CandidatesExact ==
    ASSUME NEW X, IsFiniteSet(X), AreTimed(X)
    PROVE  Exact(SpansOf(X), X) /\ IsFiniteSet(SpansOf(X))
<1> DEFINE f == [x \in X |-> SpanOf(X, KeyOf(x))]
<1>1. ASSUME NEW x \in OwnedRows(X)
      PROVE  LET c == SpanOf(X, KeyOf(x)) IN SpansRows(c, X) /\ OfOne(x, c) /\ c \in SpansOf(X)
  <2> DEFINE k == KeyOf(x)  c == SpanOf(X, k)  S == TimesOf(X, k)
             m == Traces!Min(S)  l == Traces!Max(S)
  <2>1. k[1] = x.span /\ k[2] = x.user
    BY DEF KeyOf
  <2>2. \A y : OfOne(y, x) <=> KeyOf(y) = k
    BY DEF OfOne, KeyOf
  <2>3. \A y : OfOne(y, x) => IsOwned(y)
    BY DEF OfOne, OwnedRows, IsOwned
  <2>4. \A n : n \in S <=> \E y \in X : OfOne(y, x) /\ y.at = n
    BY <2>2, <2>3 DEF TimesOf, OwnedRows
  <2>5. S \subseteq Int /\ S # {} /\ IsFiniteSet(S)
    <3>1. S \subseteq Int
      BY <2>4 DEF AreTimed
    <3>2. x \in X /\ OfOne(x, x)
      BY DEF OwnedRows, OfOne
    <3> DEFINE g == [y \in X |-> y.at]
    <3>3. \A n \in S : \E y \in X : g[y] = n
      BY <2>4
    <3>4. x.at \in S
      BY <3>2, <2>4
    <3> HIDE DEF S, g
    <3>5. IsFiniteSet(S)
      BY <3>3, Images
    <3> QED
      BY <3>1, <3>4, <3>5
  <2>6. m \in S /\ l \in S /\ \A n \in S : m <= n /\ n <= l
    <3> HIDE DEF S
    <3>1. (\E a \in S : \A n \in S : a <= n) /\ (\E a \in S : \A n \in S : a >= n)
      BY <2>5, Extremes
    <3>2. m \in S /\ \A n \in S : m <= n
      BY <3>1 DEF Traces!Min
    <3>3. l \in S /\ \A n \in S : l >= n
      BY <3>1 DEF Traces!Max
    <3>4. \A n \in S : n \in Int
      BY <2>5
    <3> HIDE DEF m, l
    <3> QED
      BY <3>2, <3>3, <3>4
  <2>7. c.span = x.span /\ c.user = x.user /\ c.first = m /\ c.last = l
    BY <2>1 DEF SpanOf
  <2>8. c \in SpansOf(X)
    BY DEF SpansOf
  <2> HIDE DEF c, m, l, S, k
  <2>9. IsOwned(c) /\ OfOne(x, c) /\ \A y : OfOne(y, c) <=> OfOne(y, x)
    BY <2>7 DEF OwnedRows, IsOwned, OfOne
  <2>10. SpansRows(c, X)
    BY <2>4, <2>5, <2>6, <2>7, <2>9 DEF SpansRows
  <2> QED
    BY <2>8, <2>9, <2>10 DEF c, k
<1>2. \A c \in SpansOf(X) : \E x \in OwnedRows(X) : c = SpanOf(X, KeyOf(x))
  BY DEF SpansOf
<1>3. \A c \in SpansOf(X) : SpansRows(c, X)
  BY <1>1, <1>2
<1>4. \A x \in X : IsOwned(x) => \E c \in SpansOf(X) : OfOne(x, c)
  BY <1>1 DEF OwnedRows
<1>5. ASSUME NEW c \in SpansOf(X), NEW d \in SpansOf(X), OfOne(c, d) PROVE c = d
  <2>1. PICK x \in OwnedRows(X) : c = SpanOf(X, KeyOf(x))
    BY <1>2
  <2>2. PICK y \in OwnedRows(X) : d = SpanOf(X, KeyOf(y))
    BY <1>2
  <2>3. OfOne(x, c) /\ OfOne(y, d)
    BY <2>1, <2>2, <1>1
  <2>4. KeyOf(x) = KeyOf(y)
    BY <2>3, <1>5 DEF OfOne, KeyOf
  <2> QED
    BY <2>1, <2>2, <2>4
<1>6. \A c \in SpansOf(X) : \E x \in X : f[x] = c
  BY <1>2 DEF OwnedRows
<1> HIDE DEF f
<1>7. IsFiniteSet(SpansOf(X))
  BY <1>6, Images
<1> QED
  BY <1>3, <1>4, <1>5, <1>7 DEF Exact

-----------------------------------------------------------------------------
(* Filling in spans one after the other leaves their bounds, no others.     *)

Put(T, c) == Traces!PutTrace(T, c.span, c.user, c.first, c.last)
IsFilling(T, S, it) == it = [s \in SUBSET S |-> IF s = {} THEN T ELSE Put(it[s \ {Pick(s)}], Pick(s))]
Filling(T, S) == CHOOSE it : IsFilling(T, S, it)

LEMMA BackfillIs ==
    ASSUME NEW T, NEW X
    PROVE  LET S == Traces!TraceBackfillCandidates(T, X)
           IN Traces!BackfillTraces(T, X) = Filling(T, S)[S]
BY DEF Traces!BackfillTraces, Traces!FoldSet, Traces!MapThenFoldSet, Filling, IsFilling, Put, Pick

LEMMA FillingExists ==
    ASSUME NEW T, NEW S, IsFiniteSet(S)
    PROVE  IsFilling(T, S, Filling(T, S))
<1> DEFINE Filled(g, s) == IF s = {} THEN T ELSE Put(g[s \ {Pick(s)}], Pick(s))
           Upto(n, g) == \A s \in SUBSET S : Cardinality(s) <= n => g[s] = Filled(g, s)
           Q == {n \in Nat : \E g : g = [s \in SUBSET S |-> g[s]] /\ Upto(n, g)}
<1>1. \A U \in SUBSET S : IsFiniteSet(U) /\ Cardinality(U) \in Nat
  BY FS_Subset, FS_CardinalityType
<1>2. \A U \in SUBSET S : U # {} => /\ Pick(U) \in U /\ U \ {Pick(U)} \in SUBSET S
                                    /\ Cardinality(U \ {Pick(U)}) = Cardinality(U) - 1
  <2> SUFFICES ASSUME NEW U \in SUBSET S, U # {}
               PROVE  /\ Pick(U) \in U /\ U \ {Pick(U)} \in SUBSET S
                      /\ Cardinality(U \ {Pick(U)}) = Cardinality(U) - 1
    OBVIOUS
  <2>1. Pick(U) \in U
    BY DEF Pick
  <2> QED
    BY <2>1, <1>1, FS_RemoveElement
<1>3. 0 \in Q
  <2> DEFINE g == [s \in SUBSET S |-> T]
  <2>1. g = [s \in SUBSET S |-> g[s]]
    OBVIOUS
  <2>2. \A s \in SUBSET S : Cardinality(s) <= 0 => s = {}
    BY <1>1, FS_EmptySet
  <2>3. Upto(0, g)
    BY <2>2
  <2> QED
    BY <2>1, <2>3
<1>4. ASSUME NEW n \in Nat, n \in Q PROVE n + 1 \in Q
  <2>1. PICK g : g = [s \in SUBSET S |-> g[s]] /\ Upto(n, g)
    BY <1>4
  <2> DEFINE h == [s \in SUBSET S |-> IF Cardinality(s) <= n THEN g[s] ELSE Filled(g, s)]
  <2>2. h = [s \in SUBSET S |-> h[s]]
    OBVIOUS
  <2>3. ASSUME NEW s \in SUBSET S, Cardinality(s) <= n + 1 PROVE h[s] = Filled(h, s)
    <3>1. CASE s = {}
      <4>1. Cardinality(s) <= n
        BY <3>1, FS_EmptySet
      <4> QED
        BY <4>1, <3>1, <2>1
    <3>2. CASE s # {}
      <4>1. Cardinality(s \ {Pick(s)}) <= n /\ s \ {Pick(s)} \in SUBSET S
        BY <3>2, <1>1, <1>2, <2>3
      <4>2. h[s \ {Pick(s)}] = g[s \ {Pick(s)}]
        BY <4>1
      <4>3. h[s] = Filled(g, s)
        BY <2>1
      <4> QED
        BY <3>2, <4>2, <4>3
    <3> QED
      BY <3>1, <3>2
  <2>4. Upto(n + 1, h)
    BY <2>3
  <2> HIDE DEF h, Upto
  <2> QED
    BY <2>2, <2>4
<1>5. Cardinality(S) \in Q
  <2> HIDE DEF Q
  <2> QED
    BY <1>1, <1>3, <1>4, Numbers
<1>6. PICK g : g = [s \in SUBSET S |-> g[s]] /\ Upto(Cardinality(S), g)
  BY <1>5
<1>7. \A s \in SUBSET S : Cardinality(s) <= Cardinality(S)
  BY FS_Subset
<1>8. \A s \in SUBSET S : g[s] = Filled(g, s)
  BY <1>6, <1>7
<1>9. IsFilling(T, S, g)
  BY <1>6, <1>8 DEF IsFilling
<1> QED
  BY <1>9 DEF Filling

AreSpans(T) == \A t \in T : IsTrace(t) /\ t.first \in Int /\ t.last \in Int

\* Putting a span that reaches farther than its trace leaves its bounds.
LEMMA PutWider ==
    ASSUME NEW T, AreSpans(T), NEW c, c.first \in Int, c.last \in Int,
           \A t \in T : OfOne(t, c) => c.first <= t.first /\ t.last <= c.last
    PROVE  /\ BoundsIn(Put(T, c)) = BoundsIn({t \in T : ~ OfOne(t, c)}) \cup {BoundOf(c)}
           /\ AreSpans(Put(T, c))
<1> DEFINE new == [id |-> Traces!Cardinality(T) + 1, span |-> c.span, user |-> c.user,
                   first |-> c.first, last |-> c.last]
           same == {t \in T : t.span = c.span /\ t.user = c.user}
           Longer(t) == Traces!Extended(t, c.first, c.last)
<1>1. Put(T, c) = IF same = {} THEN T \cup {new} ELSE (T \ same) \cup {Longer(t) : t \in same}
  BY DEF Put, Traces!PutTrace
<1>2. BoundOf(new) = BoundOf(c) /\ IsTrace(new) /\ new.first \in Int /\ new.last \in Int
  BY DEF BoundOf, IsTrace
<1>3. ASSUME NEW t \in same
      PROVE  /\ BoundOf(Longer(t)) = BoundOf(c)
             /\ IsTrace(Longer(t)) /\ Longer(t).first \in Int /\ Longer(t).last \in Int
  <2>1. t.first \in Int /\ t.last \in Int /\ IsTrace(t) /\ t.span = c.span /\ t.user = c.user
    BY DEF AreSpans
  <2>2. c.first <= t.first /\ t.last <= c.last
    BY <2>1 DEF OfOne
  <2>3. Traces!Min({t.first, c.first}) = c.first /\ Traces!Max({t.last, c.last}) = c.last
    <3>1. Traces!Min({t.first, c.first}) = (IF t.first <= c.first THEN t.first ELSE c.first)
      BY <2>1, Lesser
    <3>2. Traces!Max({t.last, c.last}) = (IF t.last <= c.last THEN c.last ELSE t.last)
      BY <2>1, Greater
    <3> QED
      BY <2>1, <2>2, <3>1, <3>2
  <2>4. Longer(t) = [id |-> t.id, span |-> t.span, user |-> t.user, first |-> c.first, last |-> c.last]
    <3>1. Longer(t) = [id |-> t.id, span |-> t.span, user |-> t.user,
                       first |-> Traces!Min({t.first, c.first}), last |-> Traces!Max({t.last, c.last})]
      BY <2>1, ExtendedIs
    <3> HIDE DEF Longer
    <3> QED
      BY <3>1, <2>3
  <2> HIDE DEF Longer
  <2> QED
    BY <2>1, <2>4 DEF BoundOf, IsTrace
<1> HIDE DEF Longer, new
<1>4. T \ same = {t \in T : ~ OfOne(t, c)}
  BY DEF OfOne
<1>5. AreSpans(T \ same)
  BY DEF AreSpans
<1>6. CASE same = {}
  <2>1. Put(T, c) = (T \ same) \cup {new}
    BY <1>1, <1>6
  <2> HIDE DEF same
  <2> QED
    BY <2>1, <1>2, <1>4, <1>5 DEF BoundsIn, AreSpans
<1>7. CASE same # {}
  <2>1. Put(T, c) = (T \ same) \cup {Longer(t) : t \in same}
    BY <1>1, <1>7
  <2> HIDE DEF same
  <2> QED
    BY <2>1, <1>3, <1>4, <1>5, <1>7 DEF BoundsIn, AreSpans
<1> QED
  BY <1>6, <1>7

\* The traces of no span of S.
Untouched(T, S) == {t \in T : ~ \E c \in S : OfOne(t, c)}

LEMMA FillingBounds ==
    ASSUME NEW T, AreSpans(T), NEW S, IsFiniteSet(S), \A c, d \in S : OfOne(c, d) => c = d,
           \A c \in S : c.first \in Int /\ c.last \in Int,
           \A c \in S, t \in T : OfOne(t, c) => c.first <= t.first /\ t.last <= c.last
    PROVE  BoundsIn(Filling(T, S)[S]) = BoundsIn(Untouched(T, S)) \cup BoundsIn(S)
<1> DEFINE it == Filling(T, S)
           P == {U \in SUBSET S : /\ BoundsIn(it[U]) = BoundsIn(Untouched(T, U)) \cup BoundsIn(U)
                                  /\ AreSpans(it[U])}
           Q == {n \in Nat : \A U \in SUBSET S : Cardinality(U) = n => U \in P}
<1>1. \A U \in SUBSET S : IsFiniteSet(U) /\ Cardinality(U) \in Nat
  BY FS_Subset, FS_CardinalityType
<1>2. IsFilling(T, S, it)
  BY FillingExists
<1> HIDE DEF it
<1>3. \A U \in SUBSET S : it[U] = IF U = {} THEN T ELSE Put(it[U \ {Pick(U)}], Pick(U))
  BY <1>2 DEF IsFilling
<1>4. 0 \in Q
  <2>1. it[{}] = T
    BY <1>3
  <2>2. BoundsIn({}) = {} /\ Untouched(T, {}) = T
    BY DEF BoundsIn, Untouched
  <2>3. {} \in P
    BY <2>1, <2>2
  <2> QED
    BY <2>3, <1>1, FS_EmptySet
<1>5. ASSUME NEW n \in Nat, n \in Q PROVE n + 1 \in Q
  <2> SUFFICES ASSUME NEW U \in SUBSET S, Cardinality(U) = n + 1 PROVE U \in P
    OBVIOUS
  <2> DEFINE x == Pick(U)  V == U \ {x}  A == it[V]
  <2>1. U # {} /\ x \in U
    <3>1. Cardinality(U) # 0
      OBVIOUS
    <3>2. U # {}
      BY <3>1, FS_EmptySet
    <3> QED
      BY <3>2 DEF Pick
  <2>2. Cardinality(V) = n
    <3>1. IsFiniteSet(U)
      BY <1>1
    <3> HIDE DEF x
    <3>2. Cardinality(U \ {x}) = Cardinality(U) - 1
      BY <2>1, <3>1, FS_RemoveElement
    <3> QED
      BY <3>2
  <2>3. V \in P
    BY <2>2, <1>5
  <2>4. it[U] = Put(A, x)
    BY <1>3, <2>1
  <2>5. \A d \in V : ~ OfOne(d, x) /\ ~ OfOne(x, d)
    BY <2>1
  <2>6. V \cup {x} = U /\ x \in S /\ V \in SUBSET S
    BY <2>1
  <2>7. BoundsIn(A) = BoundsIn(Untouched(T, V)) \cup BoundsIn(V) /\ AreSpans(A)
    BY <2>3
  <2> HIDE DEF x, V, A, P
  <2>8. \A a, b : BoundOf(a) = BoundOf(b) =>
            a.span = b.span /\ a.user = b.user /\ a.first = b.first /\ a.last = b.last
    <3> TAKE a, b
    <3> HAVE BoundOf(a) = BoundOf(b)
    <3>1. /\ BoundOf(a).span = BoundOf(b).span /\ BoundOf(a).user = BoundOf(b).user
          /\ BoundOf(a).first = BoundOf(b).first /\ BoundOf(a).last = BoundOf(b).last
      OBVIOUS
    <3> QED
      BY <3>1 DEF BoundOf
  <2>9. \A t \in A : \E q \in Untouched(T, V) \cup V : BoundOf(t) = BoundOf(q)
    BY <2>7 DEF BoundsIn
  <2>10. \A t \in A : OfOne(t, x) => x.first <= t.first /\ t.last <= x.last
    <3> SUFFICES ASSUME NEW t \in A, OfOne(t, x) PROVE x.first <= t.first /\ t.last <= x.last
      OBVIOUS
    <3>1. PICK q \in Untouched(T, V) \cup V : BoundOf(t) = BoundOf(q)
      BY <2>9
    <3>2. OfOne(q, x) /\ q.first = t.first /\ q.last = t.last
      BY <2>8, <3>1 DEF OfOne
    <3>3. q \in T
      BY <2>5, <3>1, <3>2 DEF Untouched
    <3> QED
      BY <2>6, <3>2, <3>3
  <2>11. /\ BoundsIn(Put(A, x)) = BoundsIn({t \in A : ~ OfOne(t, x)}) \cup {BoundOf(x)}
         /\ AreSpans(Put(A, x))
    BY <2>6, <2>7, <2>10, PutWider
  <2>12. BoundsIn({t \in A : ~ OfOne(t, x)}) = BoundsIn(Untouched(T, U)) \cup BoundsIn(V)
    <3>1. Untouched(T, U) = {t \in Untouched(T, V) : ~ OfOne(t, x)}
      BY <2>6 DEF Untouched
    <3>2. ASSUME NEW t \in A, ~ OfOne(t, x) PROVE BoundOf(t) \in BoundsIn(Untouched(T, U)) \cup BoundsIn(V)
      <4>1. PICK q \in Untouched(T, V) \cup V : BoundOf(t) = BoundOf(q)
        BY <2>9
      <4>2. ~ OfOne(q, x)
        BY <2>8, <3>2, <4>1 DEF OfOne
      <4> QED
        BY <3>1, <4>1, <4>2 DEF BoundsIn
    <3>3. ASSUME NEW q \in Untouched(T, U) \cup V PROVE BoundOf(q) \in BoundsIn({t \in A : ~ OfOne(t, x)})
      <4>1. ~ OfOne(q, x) /\ q \in Untouched(T, V) \cup V
        BY <2>5, <3>1
      <4>2. BoundOf(q) \in BoundsIn(A)
        BY <2>7, <4>1 DEF BoundsIn
      <4>3. PICK t \in A : BoundOf(q) = BoundOf(t)
        BY <4>2 DEF BoundsIn
      <4>4. ~ OfOne(t, x)
        BY <2>8, <4>1, <4>3 DEF OfOne
      <4> QED
        BY <4>3, <4>4 DEF BoundsIn
    <3> QED
      BY <3>2, <3>3 DEF BoundsIn
  <2>13. BoundsIn(U) = BoundsIn(V) \cup {BoundOf(x)}
    BY <2>6 DEF BoundsIn
  <2> QED
    BY <2>4, <2>11, <2>12, <2>13 DEF P
<1>6. S \in P
  <2> HIDE DEF Q
  <2>1. \A n \in Nat : n \in Q
    BY <1>4, <1>5, Numbers
  <2> USE DEF Q
  <2>2. Cardinality(S) \in Q
    BY <1>1, <2>1
  <2> QED
    BY <2>2
<1> QED
  BY <1>6 DEF it

\* The backfill brings traces that are exact for some of the rows to the
\* bounds of all of them.
LEMMA BackfillBounds ==
    ASSUME NEW X, AreTimed(X), IsFiniteSet(X), NEW Y \in SUBSET X,
           NEW T, Exact(T, Y), \A t \in T : IsTrace(t)
    PROVE  BoundsIn(Traces!BackfillTraces(T, X)) = BoundsIn(SpansOf(X))
<1> DEFINE C == SpansOf(X)  S == {c \in C : ~ \E t \in T : Covers(t, c)}
<1>1. Exact(C, X) /\ IsFiniteSet(C)
  BY CandidatesExact
<1>2. Traces!BackfillTraces(T, X) = Filling(T, S)[S]
  BY BackfillIs, CandidatesAre
<1> HIDE DEF C
<1>3. ASSUME NEW t \in T, NEW c \in C, OfOne(t, c)
      PROVE  /\ c.first <= t.first /\ t.last <= c.last
             /\ Covers(t, c) => BoundOf(t) = BoundOf(c)
  <2>1. SpansRows(t, Y) /\ SpansRows(c, X)
    BY <1>1 DEF Exact
  <2>2. PICK x \in Y : OfOne(x, t) /\ x.at = t.first
    BY <2>1 DEF SpansRows
  <2>3. PICK y \in Y : OfOne(y, t) /\ y.at = t.last
    BY <2>1 DEF SpansRows
  <2>4. OfOne(x, c) /\ OfOne(y, c)
    BY <1>3, <2>2, <2>3 DEF OfOne
  <2>5. c.first <= t.first /\ t.last <= c.last
    BY <2>1, <2>2, <2>3, <2>4 DEF SpansRows
  <2>6. t.first \in Int /\ t.last \in Int /\ c.first \in Int /\ c.last \in Int
    BY <2>1 DEF SpansRows
  <2>7. Covers(t, c) => t.first = c.first /\ t.last = c.last
    BY <2>5, <2>6 DEF Covers
  <2> QED
    BY <1>3, <2>5, <2>7 DEF BoundOf, OfOne
<1>4. \A t \in T : \E c \in C : OfOne(t, c)
  <2> TAKE t \in T
  <2>1. PICK x \in Y : OfOne(x, t)
    BY DEF Exact, SpansRows
  <2>2. IsOwned(x) /\ x \in X
    BY <2>1 DEF Exact, SpansRows, IsOwned, OfOne
  <2>3. PICK c \in C : OfOne(x, c)
    BY <1>1, <2>2 DEF Exact
  <2> QED
    BY <2>1, <2>3 DEF OfOne
<1>5. AreSpans(T) /\ \A c \in C : c.first \in Int /\ c.last \in Int
  BY <1>1 DEF AreSpans, Exact, SpansRows
<1>6. \A c, d \in C : OfOne(c, d) => c = d
  BY <1>1 DEF Exact
<1>7. \A t, q \in T : OfOne(t, q) => t = q
  BY DEF Exact
<1>8. IsFiniteSet(S)
  BY <1>1, FS_Subset
<1>9. /\ \A c \in S : c \in C /\ ~ \E t \in T : Covers(t, c)
      /\ \A c \in C \ S : \E t \in T : Covers(t, c)
  OBVIOUS
<1> HIDE DEF S
<1>10. BoundsIn(Filling(T, S)[S]) = BoundsIn(Untouched(T, S)) \cup BoundsIn(S)
  <2>1. \A c \in S : c.first \in Int /\ c.last \in Int
    BY <1>5, <1>9
  <2>2. \A c, d \in S : OfOne(c, d) => c = d
    BY <1>6, <1>9
  <2>3. \A c \in S, t \in T : OfOne(t, c) => c.first <= t.first /\ t.last <= c.last
    BY <1>3, <1>9
  <2> QED
    BY <1>5, <1>8, <2>1, <2>2, <2>3, FillingBounds
<1>11. ASSUME NEW t \in Untouched(T, S) PROVE BoundOf(t) \in BoundsIn(C)
  <2>1. t \in T /\ ~ \E c \in S : OfOne(t, c)
    BY DEF Untouched
  <2>2. PICK c \in C : OfOne(t, c)
    BY <1>4, <2>1
  <2>3. PICK q \in T : Covers(q, c)
    BY <1>9, <2>1, <2>2
  <2>4. q = t
    BY <1>7, <2>1, <2>2, <2>3 DEF Covers, OfOne
  <2> QED
    BY <1>3, <2>1, <2>2, <2>3, <2>4 DEF BoundsIn
<1>12. ASSUME NEW c \in C \ S PROVE BoundOf(c) \in BoundsIn(Untouched(T, S))
  <2>1. PICK t \in T : Covers(t, c)
    BY <1>9
  <2>2. OfOne(t, c)
    BY <2>1 DEF Covers, OfOne
  <2>3. \A d \in S : ~ OfOne(t, d)
    <3> SUFFICES ASSUME NEW d \in S, OfOne(t, d) PROVE FALSE
      OBVIOUS
    <3>1. OfOne(c, d)
      BY <2>2 DEF OfOne
    <3> QED
      BY <3>1, <1>6, <1>9
  <2>4. t \in Untouched(T, S)
    BY <2>3 DEF Untouched
  <2>5. BoundOf(t) = BoundOf(c)
    BY <1>3, <2>1, <2>2
  <2> QED
    BY <2>4, <2>5 DEF BoundsIn
<1>13. BoundsIn(Untouched(T, S)) \cup BoundsIn(S) = BoundsIn(C)
  BY <1>9, <1>11, <1>12 DEF BoundsIn
<1> QED
  BY <1>2, <1>10, <1>13 DEF C

\* A backfill leaves what the rows alone make of the table; so do the
\* upserts, once they are done.
LEMMA BoundsAgreeHere == ExactInv => BoundsAgree
<1> SUFFICES ASSUME ExactInv PROVE BoundsAgree
  OBVIOUS
<1> DEFINE X == RowsIn(request)  C == SpansOf(X)
<1>1. AreTimed(X) /\ IsFiniteSet(X) /\ Exact(traces, Caught) /\ \A t \in traces : IsTrace(t)
  BY RowsTimed DEF ExactInv
<1>2. X = {[span |-> r.span, user |-> r.dims["user"], at |-> r.at] : r \in request}
  BY DEF RowsIn, SpanTime
<1>3. Caught \in SUBSET X /\ {} \in SUBSET X
  BY DEF Caught, RowsIn
<1>4. behind = {} => Caught = X
  <2>1. behind = {} => request \ behind = request
    OBVIOUS
  <2> QED
    BY <2>1 DEF Caught
<1>5. Exact({}, {}) /\ \A t \in {} : IsTrace(t)
  BY DEF Exact
<1> HIDE DEF X
<1>6. BoundsIn(Traces!BackfillTraces({}, X)) = BoundsIn(C)
  BY <1>1, <1>3, <1>5, BackfillBounds
<1>7. BoundsIn(Traces!BackfillTraces(traces, X)) = BoundsIn(C)
  BY <1>1, <1>3, BackfillBounds
<1>8. behind = {} => BoundsIn(traces) = BoundsIn(C)
  BY <1>1, <1>4, CandidatesExact, ExactBounds
<1> HIDE DEF C
<1> QED
  BY <1>2, <1>6, <1>7, <1>8 DEF BoundsAgree, BoundsIn, BoundOf

-----------------------------------------------------------------------------
(* The traces of a page are counted in the rows.                            *)

KeyTraces(R, dimension, dims, k) == {r \in InTrace(R) : GroupKey(r, dimension, dims) = k}
BarTraces(R, dimension, dims, w, width, at, k) ==
    {r \in KeyTraces(R, dimension, dims, k) : TimeBucket(width, r.at, w.from) = at}
SpanSet(R) == {r.span : r \in R}
TracesOn(X) == [x \in X |-> x.traces]

LEMMA SpansFacts ==
    ASSUME NEW R, IsFiniteSet(R)
    PROVE  /\ IsFiniteSet(SpanSet(R)) /\ Spans(R) = Cardinality(SpanSet(R)) /\ Spans(R) \in Nat
           /\ R = {} => Spans(R) = 0
<1> DEFINE f == [r \in R |-> r.span]
<1>1. \A x \in SpanSet(R) : \E r \in R : f[r] = x
  BY DEF SpanSet
<1> HIDE DEF f
<1>2. IsFiniteSet(SpanSet(R))
  BY <1>1, Images
<1>3. Spans(R) = Cardinality(SpanSet(R))
  BY DEF Spans, SpanSet
<1>4. R = {} => SpanSet(R) = {}
  BY DEF SpanSet
<1> QED
  BY <1>2, <1>3, <1>4, FS_CardinalityType, FS_EmptySet

LEMMA KeyTracesFinite ==
    ASSUME NEW R, IsFiniteSet(R), NEW dimension, NEW dims, NEW k
    PROVE  /\ IsFiniteSet(KeyTraces(R, dimension, dims, k))
           /\ \A w, width, at : IsFiniteSet(BarTraces(R, dimension, dims, w, width, at, k))
<1>1. KeyTraces(R, dimension, dims, k) \in SUBSET R
  BY DEF KeyTraces, InTrace
<1>2. \A w, width, at : BarTraces(R, dimension, dims, w, width, at, k) \in SUBSET R
  BY <1>1 DEF BarTraces
<1> QED
  BY <1>1, <1>2, FS_Subset

LEMMA SumTraces ==
    ASSUME NEW X
    PROVE  Sum(LAMBDA t : t.traces, X) = SumFunctionOnSet(TracesOn(X), X)
BY SumIs DEF Sum, TracesOn

\* The row of a group counts its spans.
LEMMA TraceCountIs ==
    ASSUME NEW R, IsFiniteSet(R), NEW dimension, NEW dims, NEW k
    PROVE  Sum(LAMBDA t : t.traces,
               {t \in TraceCounts(R, LAMBDA r : GroupKey(r, dimension, dims)) : t.key = k})
               = Spans(KeyTraces(R, dimension, dims, k))
<1> DEFINE I == InTrace(R)
           Row(c) == [key |-> c, traces |-> Spans(KeyTraces(R, dimension, dims, c))]
           rows == {Row(c) : c \in {GroupKey(r, dimension, dims) : r \in I}}
           X == {t \in rows : t.key = k}
           a == Spans(KeyTraces(R, dimension, dims, k))
<1>1. TraceCounts(R, LAMBDA r : GroupKey(r, dimension, dims)) = rows
  BY DEF TraceCounts, GroupBy, KeyTraces
<1>2. \A c : Row(c).key = c /\ Row(c).traces = Spans(KeyTraces(R, dimension, dims, c))
  OBVIOUS
<1>3. a \in Nat /\ (KeyTraces(R, dimension, dims, k) = {} => a = 0)
  BY KeyTracesFinite, SpansFacts
<1> HIDE DEF Row
<1>4. \A x \in X : x = Row(k)
  BY <1>2
<1>5. X = {} => KeyTraces(R, dimension, dims, k) = {}
  <2> SUFFICES ASSUME NEW r \in KeyTraces(R, dimension, dims, k) PROVE Row(k) \in X
    OBVIOUS
  <2>1. r \in I /\ GroupKey(r, dimension, dims) = k
    BY DEF KeyTraces
  <2> QED
    BY <2>1, <1>2
<1>6. X = {} \/ TracesOn(X)[Row(k)] = a
  <2>1. X # {} => Row(k) \in X
    BY <1>4
  <2> HIDE DEF X, a
  <2>2. \A x \in X : TracesOn(X)[x] = x.traces
    BY DEF TracesOn
  <2> QED
    BY <2>1, <2>2, <1>2 DEF a
<1> HIDE DEF X, a
<1>7. IsOnly(X, TracesOn(X), Row(k), a)
  BY <1>3, <1>4, <1>5, <1>6 DEF IsOnly
<1>8. SumFunctionOnSet(TracesOn(X), X) = a
  BY <1>7, SumOfOne
<1> QED
  BY <1>1, <1>8, SumTraces DEF X, a

\* A display bucket's start is its own.
LEMMA Multiples ==
    ASSUME NEW q \in Nat, NEW d \in Nat \ {0}
    PROVE  (q * d) \div d = q /\ q * d \in Nat
<1> DEFINE n == q * d  p == n \div d  m == n % d
<1>1. n \in Nat
  OBVIOUS
<1>2. n = d * p + m /\ 0 <= m /\ m < d /\ p \in Int /\ m \in Int
  <2> HIDE DEF n
  <2> QED
    BY <1>1
<1>3. n = d * q
  OBVIOUS
<1> HIDE DEF n, p, m
<1>4. ~ (q + 1 <= p)
  <2> SUFFICES ASSUME q + 1 <= p PROVE FALSE
    OBVIOUS
  <2>1. d * (q + 1) <= d * p
    BY <1>2
  <2>2. d * (q + 1) = d * q + d
    OBVIOUS
  <2> QED
    BY <2>1, <2>2, <1>2, <1>3
<1>5. ~ (p + 1 <= q)
  <2> SUFFICES ASSUME p + 1 <= q PROVE FALSE
    OBVIOUS
  <2>1. d * (p + 1) <= d * q
    BY <1>2
  <2>2. d * (p + 1) = d * p + d
    BY <1>2
  <2> QED
    BY <2>1, <2>2, <1>2, <1>3
<1>6. p = q
  BY <1>2, <1>4, <1>5
<1> QED
  BY <1>1, <1>6 DEF n, p

LEMMA BucketStays ==
    ASSUME NEW from \in Int, NEW at \in Int, from <= at, NEW width \in Nat \ {0}
    PROVE  LET b == TimeBucket(width, at, from) IN BucketAt(from, b, width) = b
<1> DEFINE a == at - from  q == a \div width  b == TimeBucket(width, at, from)
<1>1. a \in Nat
  OBVIOUS
<1>2. b = from + q * width
  BY DEF TimeBucket
<1> HIDE DEF a
<1>3. q \in Nat
  BY <1>1, Quotients
<1> HIDE DEF q, b
<1> DEFINE n == q * width
<1>4. n \in Nat /\ n \div width = q
  BY <1>3, Multiples
<1>5. b = from + n
  BY <1>2
<1> HIDE DEF n
<1>6. CASE b <= from
  <2>1. b = from
    BY <1>4, <1>5, <1>6
  <2> QED
    BY <1>6, <2>1 DEF BucketAt, b
<1>7. CASE ~ (b <= from)
  <2>1. BucketAt(from, b, width) = from + ((b - from) \div width) * width
    BY <1>7 DEF BucketAt
  <2>2. b - from = n
    BY <1>4, <1>5
  <2>3. BucketAt(from, b, width) = from + q * width
    BY <2>1, <2>2, <1>4
  <2> QED
    BY <2>3, <1>2 DEF b
<1> QED
  BY <1>6, <1>7

\* The rows of a series' bar are the traces of its display bucket.
LEMMA BarCountIs ==
    ASSUME NEW R, IsFiniteSet(R), NEW w, IsWindow(w), AreInside(R, w), NEW width \in Nat \ {0},
           NEW dimension, NEW dims, NEW at, NEW k
    PROVE  Sum(LAMBDA t : t.traces, InBucket(TracesOf(R, dimension, dims, width, w.from), w, width, at, k))
               = Spans(BarTraces(R, dimension, dims, w, width, at, k))
<1> DEFINE I == InTrace(R)
           Key(r) == <<TimeBucket(width, r.at, w.from), GroupKey(r, dimension, dims)>>
           Row(c) == [at |-> c[1], key |-> c[2], traces |-> Spans({r \in I : Key(r) = c})]
           rows == {Row(c) : c \in {Key(r) : r \in I}}
           X == InBucket(rows, w, width, at, k)
           here == BarTraces(R, dimension, dims, w, width, at, k)
           c0 == <<at, k>>
           a == Spans(here)
<1>1. TracesOf(R, dimension, dims, width, w.from) = rows
  BY DEF TracesOf, SeriesTraces, GroupBy
<1>2. \A c : Row(c).key = c[2] /\ Row(c).at = c[1] /\ Row(c).traces = Spans({r \in I : Key(r) = c})
  OBVIOUS
<1>3. a \in Nat /\ (here = {} => a = 0)
  BY KeyTracesFinite, SpansFacts
<1>4. here = {r \in I : Key(r) = c0}
  BY DEF BarTraces, KeyTraces
<1>5. \A r \in I : BucketAt(w.from, Key(r)[1], width) = Key(r)[1]
  <2> SUFFICES ASSUME NEW r \in I
               PROVE  BucketAt(w.from, TimeBucket(width, r.at, w.from), width) = TimeBucket(width, r.at, w.from)
    OBVIOUS
  <2>1. r.at \in Int /\ w.from <= r.at /\ w.from \in Int
    BY DEF AreInside, InTrace, IsWindow
  <2> QED
    BY <2>1, BucketStays
<1>6. \A r \in I : Key(r) = <<Key(r)[1], Key(r)[2]>>
  OBVIOUS
<1> HIDE DEF Row, Key, here, I
<1>7. \A x \in X : x = Row(c0)
  <2> SUFFICES ASSUME NEW x \in X PROVE x = Row(c0)
    OBVIOUS
  <2>1. x \in rows /\ BucketAt(w.from, x.at, width) = at /\ x.key = k
    BY DEF InBucket
  <2>2. PICK r \in I : x = Row(Key(r))
    BY <2>1
  <2>3. Key(r) = <<at, k>>
    BY <2>1, <2>2, <1>2, <1>5, <1>6
  <2> QED
    BY <2>2, <2>3
<1>8. X = {} => here = {}
  <2> SUFFICES ASSUME NEW r \in here PROVE Row(c0) \in X
    OBVIOUS
  <2>1. r \in I /\ Key(r) = c0
    BY <1>4
  <2>2. Row(c0) \in rows
    BY <2>1
  <2>3. Row(c0).key = k /\ Row(c0).at = at
    BY <1>2
  <2>4. BucketAt(w.from, at, width) = at
    BY <2>1, <1>5
  <2> HIDE DEF rows, c0
  <2> QED
    BY <2>2, <2>3, <2>4 DEF InBucket
<1>9. X = {} \/ TracesOn(X)[Row(c0)] = a
  <2>1. X # {} => Row(c0) \in X
    BY <1>7
  <2> HIDE DEF X
  <2>2. \A x \in X : TracesOn(X)[x] = x.traces
    BY DEF TracesOn
  <2> QED
    BY <2>1, <2>2, <1>2, <1>4
<1> HIDE DEF X, a, c0
<1>10. IsOnly(X, TracesOn(X), Row(c0), a)
  BY <1>3, <1>7, <1>8, <1>9 DEF IsOnly
<1>11. SumFunctionOnSet(TracesOn(X), X) = a
  BY <1>10, SumOfOne
<1> QED
  BY <1>1, <1>11, SumTraces DEF X, a, here

\* A whole counts no more than parts that cover it.
LEMMA Covered ==
    ASSUME NEW S, IsFiniteSet(S), NEW X, IsFiniteSet(X), NEW part, NEW val,
           \A p \in X : IsFiniteSet(part[p]) /\ val[p] = Cardinality(part[p]),
           \A s \in S : \E p \in X : s \in part[p]
    PROVE  Cardinality(S) <= SumFunctionOnSet(val, X)
<1> DEFINE Within(T) == {s \in S : \E p \in T : s \in part[p]}
           P == {T \in SUBSET X : Cardinality(Within(T)) <= SumFunctionOnSet(val, T)}
<1>1. \A T \in SUBSET X : IsFiniteSet(T) /\ Counts(val, T) /\ SumFunctionOnSet(val, T) \in Int
  <2> SUFFICES ASSUME NEW T \in SUBSET X
               PROVE  IsFiniteSet(T) /\ Counts(val, T) /\ SumFunctionOnSet(val, T) \in Int
    OBVIOUS
  <2>1. IsFiniteSet(T)
    BY FS_Subset
  <2>2. \A p \in X : val[p] \in Nat
    BY FS_CardinalityType
  <2>3. Counts(val, T)
    BY <2>2 DEF Counts
  <2> QED
    BY <2>1, <2>3, SumTake
<1>2. {} \in P
  <2>1. Within({}) = {}
    OBVIOUS
  <2> HIDE DEF Within
  <2> QED
    BY <2>1, SumEmpty, FS_EmptySet
<1>3. ASSUME NEW T \in SUBSET X, NEW p \in X \ T, T \in P PROVE T \cup {p} \in P
  <2> DEFINE A == Within(T)  B == part[p]  C == Within(T \cup {p})
  <2>1. C \in SUBSET (A \cup B) /\ A \in SUBSET S
    OBVIOUS
  <2>2. IsFiniteSet(A) /\ IsFiniteSet(B) /\ val[p] = Cardinality(B)
    BY <2>1, FS_Subset
  <2> HIDE DEF A, B, C
  <2>3. /\ IsFiniteSet(A \cup B)
        /\ Cardinality(A \cup B) = Cardinality(A) + Cardinality(B) - Cardinality(A \cap B)
    BY <2>2, FS_Union
  <2>4. IsFiniteSet(A \cap B)
    BY <2>2, FS_Intersection
  <2>5. /\ Cardinality(A) \in Nat /\ Cardinality(B) \in Nat /\ Cardinality(A \cap B) \in Nat
        /\ Cardinality(A \cup B) \in Nat
    BY <2>2, <2>3, <2>4, FS_CardinalityType
  <2>6. IsFiniteSet(C) /\ Cardinality(C) <= Cardinality(A \cup B)
    BY <2>1, <2>3, FS_Subset
  <2>7. Cardinality(C) \in Nat
    BY <2>6, FS_CardinalityType
  <2>8. Cardinality(A) <= SumFunctionOnSet(val, T)
    BY <1>3 DEF A
  <2>9. /\ SumFunctionOnSet(val, T) \in Int
        /\ SumFunctionOnSet(val, T \cup {p}) = val[p] + SumFunctionOnSet(val, T)
    BY <1>1, <2>2, <2>5, SumAdd
  <2>10. Cardinality(C) <= SumFunctionOnSet(val, T \cup {p})
    BY <2>2, <2>3, <2>5, <2>6, <2>7, <2>8, <2>9
  <2> QED
    BY <2>10 DEF C
<1>4. X \in P
  <2> HIDE DEF P
  <2> QED
    BY <1>2, <1>3, Subsets
<1>5. Within(X) = S
  OBVIOUS
<1> QED
  BY <1>4, <1>5

TracesPoint(at, key, n) == Point("traces", at, key, Empty, n)
TracesCounted(T, w, width, at, key) == Sum(LAMBDA r : r.traces, InBucket(T, w, width, at, key))

\* The points of traces, a bar for each display bucket and group.
AreTracePoints(X, T, w, width, groups) ==
    \A p : p \in X <=> \E at \in Buckets(w, width) : \E key \in groups :
                          p = TracesPoint(at, key, TracesCounted(T, w, width, at, key))

LEMMA TracePointsAre ==
    ASSUME NEW rows, NEW T, NEW C, NEW w, NEW width
    PROVE  AreTracePoints(WithMetric(SeriesPoints(rows, T, C, w, width).points, "traces"), T, w, width,
                          GroupsOf(rows, T, C))
<1> DEFINE groups == GroupsOf(rows, T, C)
           points == SeriesPoints(rows, T, C, w, width).points
           D == Buckets(w, width)
           M(at, key) == InBucket(rows, w, width, at, key)
           H(at, key) == InBucket(C, w, width, at, key)
           At(at, key) == PointsAt(M(at, key), InBucket(T, w, width, at, key), H(at, key),
                                   Currencies(rows, key), at, key)
           n(at, key) == TracesPoint(at, key, TracesCounted(T, w, width, at, key))
<1>1. points = UNION {At(at, key) : at \in D, key \in groups}
  BY DEF SeriesPoints, GroupsOf
<1>2. ASSUME NEW at, NEW key
      PROVE  \A p : p \in At(at, key) /\ p.metric = "traces" <=> p = n(at, key)
  <2> TAKE p
  <2>1. \A metric, currency, value : Point(metric, at, key, currency, value).metric = metric
    BY DEF Point
  <2> DEFINE A == At(at, key)
             m == M(at, key)
             h1 == H(at, key)
             t == Point("tokens", at, key, Empty, Sum(LAMBDA r : r.tokens, m))
             q == Point("requests", at, key, Empty, Sum(LAMBDA r : r.requests, m))
             h == Point("cacheHitRate", at, key, Empty,
                        <<Sum(LAMBDA r : r.read, h1), Sum(LAMBDA r : r.input, h1)>>)
             cost(c) == Point("cost", at, key, c, Sum(LAMBDA r : r.cost, {r \in m : r.currency = c}))
             there == n(at, key)
             currencies == Currencies(rows, key)
  <2>2. /\ p \in A => p \in {t, q, there, h} \/ \E c \in currencies : p = cost(c)
        /\ there \in A
    <3>1. A = {t, q, there} \cup {h : i \in {Sum(LAMBDA r : r.input, h1)} \ {0}} \cup {cost(c) : c \in currencies}
      BY DEF PointsAt, TracesPoint, TracesCounted
    <3> HIDE DEF A, t, q, there, h, cost, currencies
    <3> QED
      BY <3>1
  <2>3. /\ t.metric = "tokens" /\ q.metric = "requests" /\ there.metric = "traces"
        /\ h.metric = "cacheHitRate" /\ \A c : cost(c).metric = "cost"
    BY <2>1 DEF TracesPoint
  <2> HIDE DEF A, t, q, there, h, cost, currencies
  <2>4. p \in A /\ p.metric = "traces" <=> p = there
    BY <2>2, <2>3
  <2> QED
    BY <2>4 DEF A, there
<1> HIDE DEF At, n, points, groups, D
<1>3. ASSUME NEW p
      PROVE  p \in WithMetric(points, "traces") <=> \E at \in D : \E key \in groups : p = n(at, key)
  <2>1. ASSUME p \in WithMetric(points, "traces") PROVE \E at \in D : \E key \in groups : p = n(at, key)
    <3>1. p \in points /\ p.metric = "traces"
      BY <2>1 DEF WithMetric
    <3>2. PICK at \in D, key \in groups : p \in At(at, key)
      BY <1>1, <3>1
    <3> QED
      BY <1>2, <3>1, <3>2
  <2>2. ASSUME NEW at \in D, NEW key \in groups, p = n(at, key) PROVE p \in WithMetric(points, "traces")
    <3>1. p \in At(at, key) /\ p.metric = "traces"
      BY <1>2, <2>2
    <3>2. p \in points
      BY <1>1, <3>1
    <3> QED
      BY <3>1, <3>2 DEF WithMetric
  <2> QED
    BY <2>1, <2>2
<1> QED
  BY <1>3 DEF AreTracePoints, points, groups, D, n

\* The series counts the traces of a group in each of its buckets.
AreTraceBars(X, R, dimension, dims, w, width, groups) ==
    \A p : p \in X <=>
        \E at \in Buckets(w, width) : \E key \in groups :
            p = TracesPoint(at, key, Spans(BarTraces(R, dimension, dims, w, width, at, key)))

LEMMA TraceBars ==
    ASSUME NEW R, IsFiniteSet(R), NEW w, IsWindow(w), AreInside(R, w), NEW width \in Nat \ {0},
           NEW dimension, NEW dims, NEW rows, NEW C, NEW T, T = TracesOf(R, dimension, dims, width, w.from)
    PROVE  AreTraceBars(WithMetric(SeriesPoints(rows, T, C, w, width).points, "traces"),
                        R, dimension, dims, w, width, GroupsOf(rows, T, C))
<1>1. \A at, key : TracesCounted(T, w, width, at, key) = Spans(BarTraces(R, dimension, dims, w, width, at, key))
  BY BarCountIs DEF TracesCounted
<1>2. AreTracePoints(WithMetric(SeriesPoints(rows, T, C, w, width).points, "traces"), T, w, width,
                     GroupsOf(rows, T, C))
  BY TracePointsAre
<1> QED
  BY <1>1, <1>2 DEF AreTraceBars, AreTracePoints

\* Every trace of a group has a row in the series.
LEMMA TraceGroups ==
    ASSUME NEW R, NEW dimension, NEW dims, NEW width, NEW origin, NEW rows, NEW C,
           NEW T, T = TracesOf(R, dimension, dims, width, origin)
    PROVE  \A r \in InTrace(R) : GroupKey(r, dimension, dims) \in GroupsOf(rows, T, C)
<1> SUFFICES ASSUME NEW r \in InTrace(R) PROVE GroupKey(r, dimension, dims) \in GroupsOf(rows, T, C)
  OBVIOUS
<1> DEFINE I == InTrace(R)
           Key(q) == <<TimeBucket(width, q.at, origin), GroupKey(q, dimension, dims)>>
           Row(c) == [at |-> c[1], key |-> c[2], traces |-> Spans({q \in I : Key(q) = c})]
           k == GroupKey(r, dimension, dims)
           seen == {x.key : x \in rows} \cup {x.key : x \in T} \cup {x.key : x \in C}
<1>1. T = {Row(c) : c \in {Key(q) : q \in I}}
  BY DEF TracesOf, SeriesTraces, GroupBy
<1>2. Row(Key(r)).key = k
  OBVIOUS
<1> HIDE DEF Row, Key
<1>3. Row(Key(r)) \in T
  BY <1>1
<1>4. k \in {x.key : x \in T}
  BY <1>2, <1>3
<1>5. k \in seen
  BY <1>4
<1> HIDE DEF seen
<1>6. GroupsOf(rows, T, C) = IF seen = {} THEN {Empty} ELSE seen
  BY DEF GroupsOf, seen
<1> QED
  BY <1>5, <1>6

\* A bar counts no more traces than its group has, and the bars together no
\* fewer.
AreBounded(points, k, n) ==
    LET bars == {p \in points : p.metric = "traces" /\ p.key = k}
    IN (\A p \in bars : p.value <= n) /\ n <= Sum(LAMBDA p : p.value, bars)

LEMMA BarsBound ==
    ASSUME NEW R, IsFiniteSet(R), NEW w, IsWindow(w), AreInside(R, w), NEW width \in Nat \ {0},
           NEW dimension, NEW dims, NEW groups,
           \A r \in InTrace(R) : GroupKey(r, dimension, dims) \in groups,
           NEW points, AreTraceBars(WithMetric(points, "traces"), R, dimension, dims, w, width, groups), NEW k
    PROVE  AreBounded(points, k, Spans(KeyTraces(R, dimension, dims, k)))
<1> DEFINE bars == {p \in points : p.metric = "traces" /\ p.key = k}
           all == KeyTraces(R, dimension, dims, k)
           Bar(at) == BarTraces(R, dimension, dims, w, width, at, k)
           n == Spans(all)
           S == SpanSet(all)
           D == Buckets(w, width)
           part == [p \in bars |-> SpanSet(Bar(p.at))]
           val == [p \in bars |-> p.value]
<1>1. IsFiniteSet(all) /\ \A at : IsFiniteSet(Bar(at))
  BY KeyTracesFinite
<1>2. IsFiniteSet(S) /\ n = Cardinality(S) /\ n \in Nat
  BY <1>1, SpansFacts
<1>3. \A at : IsFiniteSet(SpanSet(Bar(at))) /\ Spans(Bar(at)) = Cardinality(SpanSet(Bar(at)))
  BY <1>1, SpansFacts
<1>4. \A at : SpanSet(Bar(at)) \in SUBSET S
  BY DEF SpanSet, BarTraces
<1>5. \A at : Spans(Bar(at)) <= n
  BY <1>2, <1>3, <1>4, FS_Subset
<1>6. \A at, key, m : /\ TracesPoint(at, key, m).metric = "traces" /\ TracesPoint(at, key, m).key = key
                      /\ TracesPoint(at, key, m).at = at /\ TracesPoint(at, key, m).value = m
  BY DEF TracesPoint, Point
<1>7. \A p : p \in bars <=> p \in WithMetric(points, "traces") /\ p.key = k
  BY DEF WithMetric
<1>8. \A p : p \in WithMetric(points, "traces") <=>
          \E at \in D : \E key \in groups :
              p = TracesPoint(at, key, Spans(BarTraces(R, dimension, dims, w, width, at, key)))
  BY DEF AreTraceBars
<1>9. \A p \in bars : p.at \in D /\ p = TracesPoint(p.at, k, Spans(Bar(p.at))) /\ p.value = Spans(Bar(p.at))
  <2> SUFFICES ASSUME NEW p \in bars
               PROVE  p.at \in D /\ p = TracesPoint(p.at, k, Spans(Bar(p.at))) /\ p.value = Spans(Bar(p.at))
    OBVIOUS
  <2>1. p \in WithMetric(points, "traces") /\ p.key = k
    BY <1>7
  <2>2. PICK at \in D, key \in groups :
            p = TracesPoint(at, key, Spans(BarTraces(R, dimension, dims, w, width, at, key)))
    BY <1>8, <2>1
  <2> HIDE DEF bars
  <2> QED
    BY <1>6, <2>1, <2>2
<1>10. \A at \in D : k \in groups => TracesPoint(at, k, Spans(Bar(at))) \in bars
  <2> SUFFICES ASSUME NEW at \in D, k \in groups PROVE TracesPoint(at, k, Spans(Bar(at))) \in bars
    OBVIOUS
  <2>1. TracesPoint(at, k, Spans(Bar(at))) \in WithMetric(points, "traces")
    BY <1>8
  <2> HIDE DEF bars
  <2> QED
    BY <1>6, <1>7, <2>1
<1> HIDE DEF bars, all, S, D, n
<1>11. IsFiniteSet(bars)
  <2> DEFINE f == [at \in D |-> TracesPoint(at, k, Spans(Bar(at)))]
  <2>1. IsFiniteSet(D)
    BY BucketsFinite DEF D
  <2>2. \A p \in bars : \E at \in D : f[at] = p
    BY <1>9
  <2> HIDE DEF f
  <2> QED
    BY <2>1, <2>2, Images
<1>12. \A p \in bars : IsFiniteSet(part[p]) /\ val[p] = Cardinality(part[p])
  BY <1>3, <1>9
<1>13. \A s \in S : \E p \in bars : s \in part[p]
  <2> SUFFICES ASSUME NEW s \in S PROVE \E p \in bars : s \in part[p]
    OBVIOUS
  <2>1. PICK r \in all : s = r.span
    BY DEF S, SpanSet
  <2> DEFINE at == BucketAt(w.from, r.at, width)  p == TracesPoint(at, k, Spans(Bar(at)))
  <2>2. r \in InTrace(R) /\ r \in R /\ GroupKey(r, dimension, dims) = k
    BY DEF all, KeyTraces, InTrace
  <2>3. r.at \in Int /\ w.from <= r.at /\ r.at < w.to /\ w.from \in Int
    BY <2>2 DEF AreInside, IsWindow
  <2>4. at \in D
    BY <2>3, BucketThere DEF D
  <2>5. at = TimeBucket(width, r.at, w.from)
    <3>1. CASE r.at <= w.from
      <4>1. r.at - w.from = 0 /\ r.at = w.from
        BY <2>3, <3>1
      <4>2. 0 \div width = 0
        BY Multiples
      <4>3. 0 * width = 0
        OBVIOUS
      <4> QED
        BY <4>1, <4>2, <4>3, <2>3, <3>1 DEF TimeBucket, BucketAt
    <3>2. CASE ~ (r.at <= w.from)
      BY <3>2 DEF TimeBucket, BucketAt
    <3> QED
      BY <3>1, <3>2
  <2>6. r \in Bar(at)
    BY <2>5 DEF BarTraces, all
  <2> HIDE DEF at
  <2>7. p \in bars /\ p.at = at
    BY <1>6, <1>10, <2>2, <2>4
  <2>8. s \in SpanSet(Bar(at))
    BY <2>1, <2>6 DEF SpanSet
  <2> HIDE DEF p
  <2> QED
    BY <2>7, <2>8
<1>14. Sum(LAMBDA p : p.value, bars) = SumFunctionOnSet(val, bars)
  BY SumIs DEF Sum
<1> HIDE DEF part, val, Bar
<1>15. n <= SumFunctionOnSet(val, bars)
  BY <1>2, <1>11, <1>12, <1>13, Covered
<1>16. \A p \in bars : p.value <= n
  BY <1>5, <1>9
<1> QED
  BY <1>14, <1>15, <1>16 DEF AreBounded, bars, n, all

\* The rows a user's page counts.
OwnRows(in, w) == Selected(request, w, Own(in.user, in.filter))

LEMMA OwnRowsFacts ==
    ASSUME TableInv, NEW in, NEW w
    PROVE  IsFiniteSet(OwnRows(in, w)) /\ AreInside(OwnRows(in, w), w)
<1>1. OwnRows(in, w) \in SUBSET request
  BY DEF OwnRows, Selected
<1>2. \A r \in OwnRows(in, w) : r.at \in Int /\ w.from <= r.at /\ r.at < w.to
  BY PoolAssumption DEF OwnRows, Selected, TableInv
<1> QED
  BY <1>1, <1>2, FS_Subset DEF TableInv, AreInside

\* The bars of a user's series.
LEMMA SeriesTracesAre ==
    ASSUME TableInv, NEW in, in.range \in Ranges, NEW series \in GetOverviewSeries(data, in, Now)
    PROVE  \E s \in OwnSeriesWindow(in, Now) : \E groups :
               /\ IsWindow(s.w) /\ s.w = [from |-> s.w.from, to |-> s.w.to] /\ s.width \in Nat \ {0}
               /\ series.window = s.w
               /\ \A r \in InTrace(OwnRows(in, s.w)) : GroupKey(r, in.dimension, OwnDims) \in groups
               /\ AreTraceBars(WithMetric(series.points, "traces"), OwnRows(in, s.w), in.dimension, OwnDims,
                               s.w, s.width, groups)
<1>1. PICK s \in OwnSeriesWindow(in, Now) :
          series = SeriesOf(Own(in.user, in.filter), in.dimension, OwnDims, s.w, s.width)
  BY DEF GetOverviewSeries, data, View, SeriesOf, ListOverviewSeriesMetrics, ListOverviewSeriesTraces,
         ListOverviewCacheHitRateSeries, MetricsOf, TracesOf, HitsOf
<1>2. s \in SeriesWindow(in.range, in.bucket, Now)
  BY DEF OwnSeriesWindow
<1>3. IsWindow(s.w) /\ s.w = [from |-> s.w.from, to |-> s.w.to] /\ s.width \in Nat \ {0}
  BY <1>2, SeriesWindows
<1> DEFINE B == Selected(View, s.w, Own(in.user, in.filter))
           R == OwnRows(in, s.w)
           rows == MetricsOf(B, in.dimension, OwnDims)
           T == TracesOf(R, in.dimension, OwnDims, s.width, s.w.from)
           C == HitsOf(B, in.dimension, OwnDims)
           groups == GroupsOf(rows, T, C)
<1>4. series = SeriesPoints(rows, T, C, s.w, s.width)
  BY <1>1 DEF SeriesOf, OwnRows
<1>5. series.window = s.w
  BY <1>4 DEF SeriesPoints
<1>6. IsFiniteSet(R) /\ AreInside(R, s.w)
  BY OwnRowsFacts
<1> HIDE DEF B, R, rows, C
<1>7. AreTraceBars(WithMetric(SeriesPoints(rows, T, C, s.w, s.width).points, "traces"), R, in.dimension,
                   OwnDims, s.w, s.width, groups)
  BY <1>3, <1>6, TraceBars
<1>8. \A r \in InTrace(R) : GroupKey(r, in.dimension, OwnDims) \in groups
  BY TraceGroups
<1> HIDE DEF groups, T
<1> QED
  BY <1>3, <1>4, <1>5, <1>7, <1>8 DEF R

\* The rows of a user's distribution.
LEMMA DistributionTracesAre ==
    ASSUME TableInv, NEW in, NEW page \in GetOverviewDistribution(data, in, Now)
    PROVE  \E w \in OwnWindow(in, Now) : \A row \in page.rows :
               row.traces = Spans(KeyTraces(OwnRows(in, w), in.dimension, OwnDims, row.key))
<1>1. PICK w \in OwnWindow(in, Now) :
          page = [window |-> w,
                  rows |-> DistributionRows(
                    ListOverviewDistribution(View, w, in.user, in.filter, in.dimension),
                    ListOverviewDistributionCosts(View, w, in.user, in.filter, in.dimension),
                    ListOverviewTraceCountsByDimension(request, w, in.user, in.filter, in.dimension))]
  BY DEF GetOverviewDistribution, data, View
<1> DEFINE A == ListOverviewDistribution(View, w, in.user, in.filter, in.dimension)
           C == ListOverviewDistributionCosts(View, w, in.user, in.filter, in.dimension)
           T == ListOverviewTraceCountsByDimension(request, w, in.user, in.filter, in.dimension)
           R == OwnRows(in, w)
<1>2. T = TraceCounts(R, LAMBDA r : GroupKey(r, in.dimension, OwnDims))
  BY DEF ListOverviewTraceCountsByDimension, OwnRows
<1>3. IsFiniteSet(R)
  BY OwnRowsFacts
<1> HIDE DEF R
<1>4. \A k : Sum(LAMBDA t : t.traces,
                 {t \in TraceCounts(R, LAMBDA r : GroupKey(r, in.dimension, OwnDims)) : t.key = k})
                 = Spans(KeyTraces(R, in.dimension, OwnDims, k))
  BY <1>3, TraceCountIs
<1>5. \A k : Sum(LAMBDA t : t.traces, {t \in T : t.key = k}) = Spans(KeyTraces(R, in.dimension, OwnDims, k))
  BY <1>2, <1>4
<1> HIDE DEF A, C, T
<1>6. page.rows = DistributionRows(A, C, T)
  BY <1>1 DEF A, C, T
<1> DEFINE TracesFor(k) == Sum(LAMBDA t : t.traces, {t \in T : t.key = k})
           Row(r) == [key |-> r.key, tokens |-> r.tokens, requests |-> r.requests,
                      traces |-> TracesFor(r.key), costs |-> CostsOf(C, r.key)]
<1>7. page.rows = {Row(r) : r \in A}
  BY <1>6 DEF DistributionRows
<1>8. \A k : TracesFor(k) = Spans(KeyTraces(R, in.dimension, OwnDims, k))
  BY <1>5
<1>9. \A r : Row(r).key = r.key /\ Row(r).traces = TracesFor(r.key)
  OBVIOUS
<1> HIDE DEF TracesFor, Row
<1>10. \A row \in page.rows : row.traces = Spans(KeyTraces(R, in.dimension, OwnDims, row.key))
  BY <1>7, <1>8, <1>9
<1> QED
  BY <1>10 DEF R

\* The traces a user's summary counts.
SummaryTraces(in, w) ==
    {t \in TracesIn(traces, w) : t.user = in.user /\ (HasFilters(in.filter) => Holds(t, request, in.filter))}

LEMMA SummaryTracesAre ==
    ASSUME NEW in, NEW s \in GetOverviewSummary(data, in, Now)
    PROVE  \E w \in OwnWindow(in, Now) : s.traces = Cardinality(SummaryTraces(in, w))
<1>1. PICK w \in OwnWindow(in, Now) :
          s.traces = IF HasFilters(in.filter)
                     THEN CountTracesFiltered(traces, request, w, in.user, in.filter)
                     ELSE CountTraces(traces, w, in.user)
  BY DEF GetOverviewSummary, data
<1> DEFINE A == {t \in TracesIn(traces, w) : t.user = in.user /\ Holds(t, request, in.filter)}
           B == {t \in TracesIn(traces, w) : t.user = in.user}
<1>2. s.traces = IF HasFilters(in.filter) THEN Cardinality(A) ELSE Cardinality(B)
  BY <1>1 DEF CountTracesFiltered, CountTraces
<1>3. SummaryTraces(in, w) = IF HasFilters(in.filter) THEN A ELSE B
  BY DEF SummaryTraces
<1> HIDE DEF A, B
<1> QED
  BY <1>2, <1>3

\* The spans of a user whose traces may not be what the rows make them.
Missing(user) == {r.span : r \in {q \in behind : q.dims["user"] = user}}

\* In a window that reaches the present every other span of its rows is a trace.
LEMMA SpansCounted ==
    ASSUME ExactInv, TracesInv, NEW in, "user" \notin DOMAIN in.filter, NEW w, w.from \in Int, w.to \in Int, w.to > Now, NEW k
    PROVE  Spans(KeyTraces(OwnRows(in, w), in.dimension, OwnDims, k)) 
               <= Cardinality(SummaryTraces(in, w)) + Cardinality(Missing(in.user))
<1> DEFINE R == OwnRows(in, w)
           D == KeyTraces(R, in.dimension, OwnDims, k)
           M == Missing(in.user)
           S == SpanSet(D)
           W == S \ M
           U == SummaryTraces(in, w)
           V == {t \in U : t.span \in W}
           f == [t \in V |-> t.span]
           X == Caught
<1>1. IsFiniteSet(R)
  BY OwnRowsFacts DEF ExactInv
<1>2. Spans(D) = Cardinality(S)
  BY <1>1, KeyTracesFinite, SpansFacts
<1>3. IsFiniteSet(U)
  <2>1. U \in SUBSET traces
    BY DEF SummaryTraces, TracesIn
  <2> QED
    BY <2>1, FS_Subset DEF TracesInv
<1>4. ASSUME NEW r \in D, r.span \notin M PROVE \E t \in U : t.span = r.span
  <2>1. r \in R /\ r.type = 1 /\ r.span # NullName
    BY DEF KeyTraces, InTrace
  <2>2. r \in request /\ w.from <= r.at /\ \A d \in DOMAIN Own(in.user, in.filter) : r.dims[d] = Own(in.user, in.filter)[d]
    BY <2>1 DEF OwnRows, Selected
  <2>3. r.dims["user"] = in.user
    BY <2>2 DEF Own
  <2>4. \A d \in DOMAIN in.filter : d # "user" => r.dims[d] = in.filter[d]
    BY <2>2 DEF Own
  <2>5. r \in Pool
    BY <2>2 DEF ExactInv, TableInv
  <2>6. in.user \in Users /\ in.user # NullName
    BY <2>1, <2>3, <2>5, PoolAssumption, UsersAssumption
  <2> DEFINE x == SpanTime(r)
  <2>0. r \in request \ behind
    BY <1>4, <2>2, <2>3 DEF Missing
  <2>7. x \in X /\ x.span = r.span /\ x.user = in.user /\ x.at = r.at
    BY <2>0, <2>3 DEF Caught, RowsIn, SpanTime
  <2> HIDE DEF x
  <2>8. IsOwned(x)
    BY <2>1, <2>6, <2>7 DEF IsOwned
  <2>9. PICK t \in traces : OfOne(x, t)
    BY <2>7, <2>8 DEF ExactInv, Exact
  <2>10. SpansRows(t, X)
    BY DEF ExactInv, Exact
  <2>11. t.first <= r.at /\ r.at <= t.last /\ t.first \in Int /\ t.last \in Int
    BY <2>7, <2>9, <2>10 DEF SpansRows
  <2>12. PICK y \in X : y.at = t.last
    BY <2>10 DEF SpansRows
  <2>13. PICK q \in request : y = SpanTime(q)
    BY <2>12 DEF Caught, RowsIn
  <2>14. q.at = t.last /\ q.at <= Now /\ r.at \in Int
    BY <2>5, <2>12, <2>13, PoolAssumption DEF SpanTime, ExactInv, TableInv
  <2>15. t \in TracesIn(traces, w)
    BY <2>2, <2>11, <2>14, NowAssumption DEF TracesIn
  <2>16. t.span = r.span /\ t.user = in.user
    BY <2>7, <2>9 DEF OfOne
  <2>17. Holds(t, request, in.filter)
    <3>1. r.type = 1 /\ r.span = t.span /\ r.dims["user"] = t.user /\ t.first <= r.at /\ r.at <= t.last
      BY <2>1, <2>3, <2>11, <2>16
    <3> QED
      BY <3>1, <2>2, <2>4 DEF Holds
  <2> QED
    BY <2>15, <2>16, <2>17 DEF SummaryTraces
<1> HIDE DEF D, U, R, M
<1>5. f \in Surjection(V, W)
  <2>1. \A s \in W : \E t \in V : f[t] = s
    <3> SUFFICES ASSUME NEW s \in W PROVE \E t \in V : f[t] = s
      OBVIOUS
    <3>1. PICK r \in D : s = r.span
      BY DEF SpanSet
    <3>2. PICK t \in U : t.span = s
      BY <1>4, <3>1
    <3> QED
      BY <3>2
  <2>2. f \in [V -> W]
    OBVIOUS
  <2> HIDE DEF V, W, f
  <2> QED
    BY <2>1, <2>2 DEF Surjection
<1>6. V \in SUBSET U
  OBVIOUS
<1> HIDE DEF V, W, f
<1>7. IsFiniteSet(V) /\ Cardinality(V) <= Cardinality(U)
  BY <1>3, <1>6, FS_Subset
<1>8. IsFiniteSet(W) /\ Cardinality(W) <= Cardinality(V)
  BY <1>5, <1>7, FS_Surjection
<1>9. IsFiniteSet(M)
  <2> DEFINE Q == {q \in behind : q.dims["user"] = in.user}  g == [q \in Q |-> q.span]
  <2>1. Q \in SUBSET request
    BY DEF ExactInv
  <2>2. \A m \in M : \E q \in Q : g[q] = m
    BY DEF M, Missing
  <2> HIDE DEF Q, g
  <2>3. IsFiniteSet(Q)
    BY <2>1, FS_Subset DEF ExactInv, TableInv
  <2> QED
    BY <2>2, <2>3, Images
<1>10. /\ IsFiniteSet(W \cup M) /\ Cardinality(W \cup M) = Cardinality(W) + Cardinality(M) - Cardinality(W \cap M)
       /\ IsFiniteSet(W \cap M)
  BY <1>8, <1>9, FS_Union, FS_Intersection
<1>11. S \in SUBSET (W \cup M)
  BY DEF W
<1> HIDE DEF S
<1>12. IsFiniteSet(S) /\ Cardinality(S) <= Cardinality(W \cup M)
  BY <1>10, <1>11, FS_Subset
<1>13. /\ Cardinality(U) \in Nat /\ Cardinality(V) \in Nat /\ Cardinality(S) \in Nat /\ Cardinality(W) \in Nat
       /\ Cardinality(M) \in Nat /\ Cardinality(W \cap M) \in Nat
  BY <1>3, <1>7, <1>8, <1>9, <1>10, <1>12, FS_CardinalityType
<1>14. Cardinality(S) <= Cardinality(U) + Cardinality(M)
  BY <1>7, <1>8, <1>10, <1>12, <1>13
<1> QED
  BY <1>2, <1>14 DEF D, U, R, M, S

LEMMA CountsAgreeHere == ExactInv /\ TracesInv => CountsAgree
<1> SUFFICES ASSUME ExactInv, TracesInv, NEW in \in OwnQuestions,
                    NEW series \in GetOverviewSeries(data, in, Now),
                    NEW page \in GetOverviewDistribution(data, [in EXCEPT !.range = Same(series.window)], Now),
                    NEW summary \in GetOverviewSummary(data, [in EXCEPT !.range = Same(series.window)], Now),
                    NEW row \in page.rows
             PROVE  LET bars == {p \in series.points : p.metric = "traces" /\ p.key = row.key}
                    IN /\ \A p \in bars : p.value <= row.traces
                       /\ row.traces <= Sum(LAMBDA p : p.value, bars)
                       /\ series.window.to > Now =>
                              row.traces <= summary.traces + Cardinality(Missing(in.user))
  BY DEF CountsAgree, Missing
<1> DEFINE there == [in EXCEPT !.range = Same(series.window)]
           k == row.key
<1>1. /\ in.range \in Ranges /\ there.user = in.user /\ there.filter = in.filter
      /\ there.dimension = in.dimension /\ "range" \in DOMAIN in /\ "user" \notin DOMAIN in.filter
  BY DEF OwnQuestions, Questions, Ask, OwnDims
<1>2. TableInv
  BY DEF ExactInv
<1> DEFINE AreTraces(s, groups) ==
               /\ IsWindow(s.w) /\ s.w = [from |-> s.w.from, to |-> s.w.to] /\ s.width \in Nat \ {0}
               /\ series.window = s.w
               /\ \A r \in InTrace(OwnRows(in, s.w)) : GroupKey(r, in.dimension, OwnDims) \in groups
               /\ AreTraceBars(WithMetric(series.points, "traces"), OwnRows(in, s.w), in.dimension, OwnDims,
                               s.w, s.width, groups)
<1>0. PICK s \in OwnSeriesWindow(in, Now) : \E groups : AreTraces(s, groups)
  BY <1>1, <1>2, SeriesTracesAre
<1>3. PICK groups : AreTraces(s, groups)
  BY <1>0
<1>4. PICK x \in OwnWindow(there, Now) : \A q \in page.rows :
          q.traces = Spans(KeyTraces(OwnRows(there, x), there.dimension, OwnDims, q.key))
  BY <1>2, DistributionTracesAre
<1>5. PICK y \in OwnWindow(there, Now) : summary.traces = Cardinality(SummaryTraces(there, y))
  BY SummaryTracesAre
<1>6. x = s.w /\ y = s.w
  BY <1>1, <1>3, <1>4, <1>5, SameWindow
<1> DEFINE R == OwnRows(in, s.w)
           n == Spans(KeyTraces(R, in.dimension, OwnDims, k))
<1>7. row.traces = n
  BY <1>1, <1>4, <1>6 DEF OwnRows
<1>8. summary.traces = Cardinality(SummaryTraces(in, s.w))
  BY <1>1, <1>5, <1>6 DEF SummaryTraces
<1>9. IsFiniteSet(R) /\ AreInside(R, s.w)
  BY <1>2, OwnRowsFacts
<1> HIDE DEF R
<1>10. /\ \A r \in InTrace(R) : GroupKey(r, in.dimension, OwnDims) \in groups
       /\ AreTraceBars(WithMetric(series.points, "traces"), R, in.dimension, OwnDims, s.w, s.width, groups)
  BY <1>3 DEF R
<1>11. AreBounded(series.points, k, n)
  BY <1>3, <1>9, <1>10, BarsBound
<1>12. series.window.to > Now => n <= Cardinality(SummaryTraces(in, s.w)) + Cardinality(Missing(in.user))
  BY <1>1, <1>3, SpansCounted DEF R, IsWindow
<1> HIDE DEF n
<1> QED
  BY <1>7, <1>8, <1>11, <1>12 DEF AreBounded

\* The traces table is what the rows make it, however it came about and
\* whichever upserts are late or failed, once they or a backfill are done
\* (upsertTrace, backfillTraces), and no page counts a trace that another
\* page over the window leaves out, but for those (trace.sql.go,
\* overview.sql.go).
THEOREM TracesAgreeHolds == Spec => []TracesAgree
<1>1. ExactInv /\ TracesInv => TracesAgree
  BY BoundsAgreeHere, CountsAgreeHere DEF TracesAgree
<1> QED
  BY <1>1, ExactHolds, TracesInvHolds, PTL

----------------------------------------------------------------------------
(* Percentiles.  val gives each row of a finite set R its value; the value *)
(* in place i is the i-th in ascending order, with repetitions.            *)

AreValued(R, val) == IsFiniteSet(R) /\ \A r \in R : val[r] \in Int
ValuesOf(R, val) == {val[r] : r \in R}
Below(R, val, v) == {r \in R : val[r] < v}
UpTo(R, val, v) == {r \in R : val[r] <= v}
IsPlaced(R, val, v, i) == Cardinality(Below(R, val, v)) < i /\ i <= Cardinality(UpTo(R, val, v))

LEMMA InPlaceIs ==
    ASSUME NEW R, NEW val, NEW i, NEW v \in ValuesOf(R, val), IsPlaced(R, val, v, i)
    PROVE  InPlace(R, val, i) \in ValuesOf(R, val) /\ IsPlaced(R, val, InPlace(R, val, i), i)
BY DEF InPlace, ValuesOf, IsPlaced, Below, UpTo

LEMMA ValuesFacts ==
    ASSUME NEW R, NEW val, AreValued(R, val)
    PROVE  /\ IsFiniteSet(ValuesOf(R, val)) /\ ValuesOf(R, val) \subseteq Int
           /\ \A v : /\ IsFiniteSet(Below(R, val, v)) /\ IsFiniteSet(UpTo(R, val, v))
                     /\ Cardinality(Below(R, val, v)) \in Nat /\ Cardinality(UpTo(R, val, v)) \in Nat
<1>1. IsFiniteSet(ValuesOf(R, val))
  <2>1. \A y \in ValuesOf(R, val) : \E x \in R : val[x] = y
    BY DEF ValuesOf
  <2> QED
    BY <2>1, Images DEF AreValued
<1>2. \A v : Below(R, val, v) \in SUBSET R /\ UpTo(R, val, v) \in SUBSET R
  BY DEF Below, UpTo
<1>3. \A v : IsFiniteSet(Below(R, val, v)) /\ IsFiniteSet(UpTo(R, val, v))
  BY <1>2, FS_Subset DEF AreValued
<1> QED
  BY <1>1, <1>3, FS_CardinalityType DEF AreValued, ValuesOf

\* There is a value for every place.
LEMMA PlacedThere ==
    ASSUME NEW R, NEW val, AreValued(R, val), NEW i \in 1..Cardinality(R)
    PROVE  InPlace(R, val, i) \in ValuesOf(R, val) /\ IsPlaced(R, val, InPlace(R, val, i), i)
<1> DEFINE V == ValuesOf(R, val)
           S == {v \in V : i <= Cardinality(UpTo(R, val, v))}
<1>1. Cardinality(R) \in Nat /\ R # {}
  BY FS_CardinalityType, FS_EmptySet DEF AreValued
<1>2. IsFiniteSet(V) /\ V \subseteq Int /\ V # {}
  BY <1>1, ValuesFacts DEF ValuesOf
<1>3. PICK top \in V : \A v \in V : top >= v
  BY <1>2, Extremes
<1>4. UpTo(R, val, top) = R
  BY <1>2, <1>3 DEF UpTo, ValuesOf
<1>5. top \in S
  BY <1>1, <1>4
<1>6. IsFiniteSet(S) /\ S \subseteq Int /\ S # {}
  BY <1>2, <1>5, FS_Subset
<1>7. PICK m \in S : \A v \in S : m <= v
  BY <1>6, Extremes
<1>8. m \in V /\ i <= Cardinality(UpTo(R, val, m))
  BY <1>7
<1>9. Cardinality(Below(R, val, m)) < i
  <2>1. CASE Below(R, val, m) = {}
    BY <2>1, FS_EmptySet
  <2>2. CASE Below(R, val, m) # {}
    <3> DEFINE B == ValuesOf(Below(R, val, m), val)
    <3>1. B \subseteq V /\ B # {}
      BY <2>2 DEF ValuesOf, Below
    <3>2. IsFiniteSet(B) /\ B \subseteq Int
      BY <1>2, <3>1, FS_Subset
    <3>3. PICK u \in B : \A v \in B : u >= v
      BY <3>1, <3>2, Extremes
    <3>4. u \in V /\ u < m
      BY <3>1, <3>3 DEF ValuesOf, Below
    <3>5. UpTo(R, val, u) = Below(R, val, m)
      <4>1. ASSUME NEW r \in R, val[r] <= u PROVE val[r] < m
        BY <1>2, <1>8, <3>4, <4>1 DEF ValuesOf, AreValued
      <4>2. ASSUME NEW r \in R, val[r] < m PROVE val[r] <= u
        BY <1>2, <3>3, <3>4, <4>2 DEF ValuesOf, Below, AreValued
      <4> QED
        BY <4>1, <4>2 DEF UpTo, Below
    <3>6. u \notin S
      BY <1>2, <1>7, <1>8, <3>4
    <3> QED
      BY <3>4, <3>5, <3>6, ValuesFacts
  <2> QED
    BY <2>1, <2>2
<1>10. IsPlaced(R, val, m, i)
  BY <1>8, <1>9 DEF IsPlaced
<1> QED
  BY <1>8, <1>10, InPlaceIs

\* The first is the least, and places are in order.
LEMMA PlacesAscend ==
    ASSUME NEW R, NEW val, AreValued(R, val), NEW i \in 1..Cardinality(R), NEW j \in 1..Cardinality(R), i <= j
    PROVE  InPlace(R, val, i) \in Int /\ InPlace(R, val, j) \in Int /\ InPlace(R, val, i) <= InPlace(R, val, j)
<1> DEFINE a == InPlace(R, val, i)
           b == InPlace(R, val, j)
<1>1. a \in Int /\ b \in Int /\ IsPlaced(R, val, a, i) /\ IsPlaced(R, val, b, j)
  BY PlacedThere, ValuesFacts
<1> HIDE DEF a, b
<1>2. ASSUME b < a PROVE FALSE
  <2>1. UpTo(R, val, b) \in SUBSET Below(R, val, a)
    BY <1>1, <1>2 DEF UpTo, Below, AreValued
  <2>2. Cardinality(UpTo(R, val, b)) <= Cardinality(Below(R, val, a))
    BY <2>1, ValuesFacts, FS_Subset
  <2> QED
    BY <1>1, <2>2, ValuesFacts DEF IsPlaced
<1> QED
  BY <1>1, <1>2 DEF a, b

LEMMA FirstPlace ==
    ASSUME NEW R, NEW val, AreValued(R, val), R # {}
    PROVE  /\ 1 \in 1..Cardinality(R)
           /\ \E r \in R : InPlace(R, val, 1) = val[r]
           /\ \A r \in R : InPlace(R, val, 1) <= val[r]
<1>1. 1 \in 1..Cardinality(R)
  BY FS_CardinalityType, FS_EmptySet DEF AreValued
<1> DEFINE a == InPlace(R, val, 1)
<1>2. a \in ValuesOf(R, val) /\ Cardinality(Below(R, val, a)) < 1
  BY <1>1, PlacedThere DEF IsPlaced
<1>3. Below(R, val, a) = {}
  BY <1>2, ValuesFacts, FS_EmptySet
<1> HIDE DEF a
<1>4. a \in Int
  BY <1>2, ValuesFacts
<1> QED
  BY <1>1, <1>2, <1>3, <1>4 DEF Below, ValuesOf, AreValued, a

\* A point between two numbers moves up with its share of the upper one.
LEMMA Shares ==
    ASSUME NEW x \in Int, NEW y \in Int, x <= y, NEW r \in 0..100, NEW q \in 0..100, r <= q
    PROVE  /\ (100 - r) * x + r * y \in Int /\ (100 - q) * x + q * y \in Int
           /\ (100 - r) * x + r * y <= (100 - q) * x + q * y
<1> DEFINE d == y - x
<1>1. d \in Nat /\ y = x + d
  OBVIOUS
<1> HIDE DEF d
<1>2. r * d <= q * d /\ r * d \in Int /\ q * d \in Int
  BY <1>1
<1>3. (100 - r) * x + r * y = 100 * x + r * d
  BY <1>1
<1>4. (100 - q) * x + q * y = 100 * x + q * d
  BY <1>1
<1> QED
  BY <1>2, <1>3, <1>4

\* percentile_cont by its rank, 100 times the distance from the first value.
AtRank(s, rank) ==
    LET lower == rank \div 100 + 1
        rest == rank % 100
    IN IF rest = 0 THEN 100 * s[lower] ELSE (100 - rest) * s[lower] + rest * s[lower + 1]
IsAscending(s, n) ==
    /\ n \in Nat \ {0} /\ \A i \in 1..n : s[i] \in Int
    /\ \A i, j \in 1..n : i <= j => s[i] <= s[j]

LEMMA RanksAscend ==
    ASSUME NEW s, NEW n, IsAscending(s, n), NEW k \in Nat, NEW l \in Nat, k <= l, l <= 100 * (n - 1)
    PROVE  AtRank(s, k) \in Int /\ AtRank(s, l) \in Int /\ AtRank(s, k) <= AtRank(s, l)
<1> DEFINE a == k \div 100 + 1
           r == k % 100
           b == l \div 100 + 1
           q == l % 100
<1>1. /\ a \in Nat /\ b \in Nat /\ r \in 0..99 /\ q \in 0..99
      /\ k = 100 * (a - 1) + r /\ l = 100 * (b - 1) + q
  OBVIOUS
<1>2. /\ AtRank(s, k) = IF r = 0 THEN 100 * s[a] ELSE (100 - r) * s[a] + r * s[a + 1]
      /\ AtRank(s, l) = IF q = 0 THEN 100 * s[b] ELSE (100 - q) * s[b] + q * s[b + 1]
  BY DEF AtRank
<1> HIDE DEF a, b, r, q
<1>3. n \in Nat \ {0}
  BY DEF IsAscending
<1>4. /\ a \in 1..n /\ b \in 1..n /\ a <= b
      /\ r # 0 => a + 1 \in 1..n
      /\ q # 0 => b + 1 \in 1..n
      /\ a = b => r <= q
  <2>1. a >= 1 /\ b >= 1
    BY <1>1
  <2>2. b <= n /\ (q # 0 => b + 1 <= n)
    BY <1>1, <1>3
  <2>3. a <= b /\ (a = b => r <= q)
    BY <1>1
  <2>4. r # 0 => a + 1 <= n
    BY <1>1, <1>3
  <2> QED
    BY <1>1, <1>3, <2>1, <2>2, <2>3, <2>4
<1>5. /\ s[a] \in Int /\ s[b] \in Int /\ s[a] <= s[b]
      /\ r # 0 => s[a + 1] \in Int /\ s[a] <= s[a + 1]
      /\ q # 0 => s[b + 1] \in Int /\ s[b] <= s[b + 1]
      /\ r # 0 /\ a < b => s[a + 1] <= s[b]
  BY <1>1, <1>4 DEF IsAscending
\* The lower end of a rank's interval, and the upper one.
<1>6. /\ AtRank(s, l) \in Int /\ 100 * s[b] <= AtRank(s, l)
  <2>1. CASE q = 0
    BY <1>2, <1>5, <2>1
  <2>2. CASE q # 0
    <3> DEFINE x == s[b]
               y == s[b + 1]
    <3>1. x \in Int /\ y \in Int /\ x <= y
      BY <1>5, <2>2
    <3> HIDE DEF x, y
    <3>2. (100 - 0) * x + 0 * y <= (100 - q) * x + q * y /\ (100 - q) * x + q * y \in Int
      BY <1>1, <3>1, Shares
    <3>3. (100 - 0) * x + 0 * y = 100 * x
      BY <3>1
    <3> QED
      BY <1>2, <2>2, <3>2, <3>3 DEF x, y
  <2> QED
    BY <2>1, <2>2
<1>7. /\ AtRank(s, k) \in Int /\ a < b => AtRank(s, k) <= 100 * s[b]
  <2>1. CASE r = 0
    BY <1>2, <1>5, <2>1
  <2>2. CASE r # 0
    <3> DEFINE x == s[a]
               y == s[a + 1]
    <3>1. x \in Int /\ y \in Int /\ x <= y
      BY <1>5, <2>2
    <3> HIDE DEF x, y
    <3>2. (100 - r) * x + r * y <= (100 - 100) * x + 100 * y /\ (100 - r) * x + r * y \in Int
      BY <1>1, <3>1, Shares
    <3>3. (100 - 100) * x + 100 * y = 100 * y
      BY <3>1
    <3>4. a < b => y <= s[b]
      BY <1>5, <2>2 DEF y
    <3> QED
      BY <1>2, <1>5, <2>2, <3>1, <3>2, <3>3, <3>4 DEF x, y
  <2> QED
    BY <2>1, <2>2
<1>8. AtRank(s, k) \in Int
  <2>1. CASE r = 0
    BY <1>2, <1>5, <2>1
  <2>2. CASE r # 0
    <3> DEFINE x == s[a]
               y == s[a + 1]
    <3>1. x \in Int /\ y \in Int /\ x <= y
      BY <1>5, <2>2
    <3> HIDE DEF x, y
    <3>2. (100 - r) * x + r * y \in Int
      BY <1>1, <3>1, Shares
    <3> QED
      BY <1>2, <2>2, <3>2 DEF x, y
  <2> QED
    BY <2>1, <2>2
<1>9. CASE a < b
  BY <1>5, <1>6, <1>7, <1>8, <1>9
<1>10. CASE a = b
  <2>1. CASE r = 0
    BY <1>2, <1>6, <1>8, <1>10, <2>1
  <2>2. CASE r # 0
    <3> DEFINE x == s[a]
               y == s[a + 1]
    <3>0. q # 0 /\ r <= q
      BY <1>1, <1>4, <1>10, <2>2
    <3>1. x \in Int /\ y \in Int /\ x <= y
      BY <1>5, <2>2
    <3> HIDE DEF x, y
    <3>2. (100 - r) * x + r * y <= (100 - q) * x + q * y
      BY <1>1, <3>0, <3>1, Shares
    <3> QED
      BY <1>2, <1>6, <1>8, <1>10, <2>2, <3>0, <3>2 DEF x, y
  <2> QED
    BY <2>1, <2>2
<1> QED
  BY <1>1, <1>4, <1>9, <1>10

----------------------------------------------------------------------------
(* A box.                                                                  *)

SortedOf(R, val) == [i \in 1..Cardinality(R) |-> InPlace(R, val, i)]
LEMMA SortedFacts ==
    ASSUME NEW R, NEW val, AreValued(R, val), R # {}, NEW s, s = SortedOf(R, val)
    PROVE  /\ IsAscending(s, Cardinality(R)) /\ Len(s) = Cardinality(R)
           /\ \E r \in R : s[1] = val[r]
           /\ \A r \in R : s[1] <= val[r]
<1> DEFINE n == Cardinality(R)
<1>1. n \in Nat \ {0}
  BY FS_CardinalityType, FS_EmptySet DEF AreValued
<1>2. \A i \in 1..n : s[i] = InPlace(R, val, i)
  BY DEF SortedOf
<1>3. \A i \in 1..n : s[i] \in Int
  BY <1>2, PlacedThere, ValuesFacts
<1>4. \A i, j \in 1..n : i <= j => s[i] <= s[j]
  BY <1>2, PlacesAscend
<1>5. Len(s) = n
  <2> HIDE DEF n
  <2>1. s = [i \in 1..n |-> InPlace(R, val, i)]
    BY DEF SortedOf, n
  <2>2. s \in Seq(Int)
    BY <1>1, <1>2, <1>3, <2>1
  <2> QED
    BY <1>1, <2>1, <2>2
<1>6. (\E r \in R : s[1] = val[r]) /\ (\A r \in R : s[1] <= val[r])
  BY <1>2, FirstPlace
<1> QED
  BY <1>1, <1>3, <1>4, <1>5, <1>6 DEF IsAscending

Ordered(box) == /\ box.min <= box.p25 /\ box.p25 <= box.median /\ box.median <= box.p95
                /\ box.p95 <= box.top
LEMMA MaxOfTwo == ASSUME NEW a \in Int, NEW b \in Int
                  PROVE  a <= Max({a, b})
BY DEF Max

LEMMA BoxFacts ==
    ASSUME NEW R, NEW val, AreValued(R, val), R # {}, NEW box, box = Box(R, val)
    PROVE  /\ Ordered(box) /\ box.count = Cardinality(R)
           /\ \E r \in R : box.min = 100 * val[r]
           /\ \A r \in R : box.min <= 100 * val[r]
<1> DEFINE s == SortedOf(R, val)
           n == Cardinality(R)
           At(percent) == AtRank(s, percent * (n - 1))
<1>1. /\ IsAscending(s, n) /\ Len(s) = n
      /\ \E r \in R : s[1] = val[r]
      /\ \A r \in R : s[1] <= val[r]
  BY SortedFacts
<1>2. \A percent : Percentile(s, percent) = At(percent)
  <2> HIDE DEF s, n
  <2> TAKE percent
  <2>1. Percentile(s, percent) = AtRank(s, percent * (Len(s) - 1))
    BY DEF Percentile, AtRank
  <2> QED
    BY <1>1, <2>1
<1>3. box = [min |-> 100 * s[1], p25 |-> Percentile(s, 25), median |-> Percentile(s, 50),
             p95 |-> Percentile(s, 95), top |-> Max({Percentile(s, 99), 3 * Percentile(s, 50)}),
             count |-> n]
  BY DEF Box, SortedOf
<1> HIDE DEF s
<1>4. n \in Nat \ {0} /\ s[1] \in Int
  BY <1>1 DEF IsAscending
<1> HIDE DEF n
<1>5. /\ 100 * s[1] = AtRank(s, 0)
      /\ At(25) \in Int /\ At(50) \in Int /\ At(95) \in Int /\ At(99) \in Int
      /\ AtRank(s, 0) <= At(25) /\ At(25) <= At(50) /\ At(50) <= At(95) /\ At(95) <= At(99)
  <2>1. 100 * s[1] = AtRank(s, 0)
    BY DEF AtRank
  <2>2. 25 * (n - 1) \in Nat /\ 50 * (n - 1) \in Nat /\ 95 * (n - 1) \in Nat /\ 99 * (n - 1) \in Nat
    BY <1>4
  <2>3. /\ 0 <= 25 * (n - 1) /\ 25 * (n - 1) <= 50 * (n - 1) /\ 50 * (n - 1) <= 95 * (n - 1)
        /\ 95 * (n - 1) <= 99 * (n - 1) /\ 99 * (n - 1) <= 100 * (n - 1)
        /\ 25 * (n - 1) <= 100 * (n - 1) /\ 50 * (n - 1) <= 100 * (n - 1) /\ 95 * (n - 1) <= 100 * (n - 1)
    BY <1>4
  <2>4. At(25) \in Int /\ AtRank(s, 0) <= At(25)
    BY <1>1, <2>2, <2>3, RanksAscend
  <2>5. At(50) \in Int /\ At(25) <= At(50)
    BY <1>1, <2>2, <2>3, RanksAscend
  <2>6. At(95) \in Int /\ At(50) <= At(95)
    BY <1>1, <2>2, <2>3, RanksAscend
  <2>7. At(99) \in Int /\ At(95) <= At(99)
    BY <1>1, <2>2, <2>3, RanksAscend
  <2> QED
    BY <2>1, <2>4, <2>5, <2>6, <2>7
<1> HIDE DEF At
<1>6. At(99) <= Max({At(99), 3 * At(50)})
  BY <1>5, MaxOfTwo
<1>7. At(95) <= Max({At(99), 3 * At(50)})
  <2> DEFINE m == Max({At(99), 3 * At(50)})
  <2>1. m \in Int
    BY <1>5 DEF Max
  <2> HIDE DEF m
  <2> QED
    BY <1>5, <1>6, <2>1 DEF m
<1>8. Ordered(box)
  BY <1>2, <1>3, <1>5, <1>7 DEF Ordered
<1>9. box.min = 100 * s[1] /\ box.count = n
  BY <1>3
<1>10. \A r \in R : 100 * s[1] <= 100 * val[r]
  <2> TAKE r \in R
  <2>1. s[1] <= val[r] /\ val[r] \in Int
    BY <1>1 DEF AreValued
  <2> QED
    BY <1>4, <2>1
<1> QED
  BY <1>1, <1>8, <1>9, <1>10 DEF n

----------------------------------------------------------------------------
(* The boxes of the pages.                                                 *)

AreSamples(R) ==
    /\ IsFiniteSet(R)
    /\ \A r \in R : /\ r.ttft \in Int /\ r.time \in Int
                    /\ r.tokens["input"] \in Nat \cup {NullNumber}
                    /\ r.tokens["output"] \in Nat \cup {NullNumber}
DecodedRows(R) == {r \in R : r.type = 1 /\ Decoded(r)}
PrefilledRows(R) == {r \in R : r.type = 1 /\ Prefilled(r)}
DecodeSpeeds(R) == [r \in R |-> DecodeSpeed(r)]
PrefillSpeeds(R) == [r \in R |-> PrefillSpeed(r)]
Latencies(R) == [r \in R |-> r.ttft]

LEMMA Divided == ASSUME NEW a \in Int, NEW d \in Nat \ {0} PROVE a \div d \in Int
OBVIOUS

\* Only rows whose speed is a number are samples.
LEMMA SpeedsAreNumbers ==
    ASSUME NEW R, AreSamples(R)
    PROVE  /\ \A C \in SUBSET DecodedRows(R) : AreValued(C, DecodeSpeeds(C))
           /\ \A C \in SUBSET PrefilledRows(R) : /\ AreValued(C, PrefillSpeeds(C))
                                               /\ AreValued(C, Latencies(C))
<1>1. ASSUME NEW C \in SUBSET DecodedRows(R) PROVE AreValued(C, DecodeSpeeds(C))
  <2>1. IsFiniteSet(C) /\ C \subseteq R
    BY FS_Subset DEF AreSamples, DecodedRows
  <2>2. ASSUME NEW r \in C PROVE DecodeSpeed(r) \in Int
    <3> DEFINE n == r.tokens["output"] * 1000  d == r.time - r.ttft
    <3>1. n \in Int /\ d \in Nat \ {0}
      BY <2>1 DEF AreSamples, DecodedRows, Decoded, NullNumber
    <3>2. DecodeSpeed(r) = n \div d
      BY DEF DecodeSpeed
    <3> HIDE DEF n, d
    <3> QED
      BY <3>1, <3>2, Divided
  <2> QED
    BY <2>1, <2>2 DEF AreValued, DecodeSpeeds
<1>2. ASSUME NEW C \in SUBSET PrefilledRows(R)
      PROVE  AreValued(C, PrefillSpeeds(C)) /\ AreValued(C, Latencies(C))
  <2>1. IsFiniteSet(C) /\ C \subseteq R
    BY FS_Subset DEF AreSamples, PrefilledRows
  <2>2. ASSUME NEW r \in C PROVE PrefillSpeed(r) \in Int
    <3> DEFINE n == r.tokens["input"] * 1000  d == r.ttft
    <3>1. n \in Int /\ d \in Nat \ {0}
      BY <2>1 DEF AreSamples, PrefilledRows, Prefilled, NullNumber
    <3>2. PrefillSpeed(r) = n \div d
      BY DEF PrefillSpeed
    <3> HIDE DEF n, d
    <3> QED
      BY <3>1, <3>2, Divided
  <2> QED
    BY <2>1, <2>2 DEF AreValued, PrefillSpeeds, Latencies, AreSamples
<1> QED
  BY <1>1, <1>2

\* One box for each key.
Item(R, key, k) == [key |-> k, box |-> Box(Keyed(R, key, k), DecodeSpeeds(Keyed(R, key, k)))]
ItemsBy(R, key) == {Item(R, key, k) : k \in KeysOf(R, key)}
DecodePoint(R, key, k) ==
    [at |-> k[1], key |-> k[2], metric |-> "decodeSpeed",
     box |-> Box(Keyed(R, key, k), DecodeSpeeds(Keyed(R, key, k)))]
DecodePoints(R, key) == {DecodePoint(R, key, k) : k \in KeysOf(R, key)}
PrefillPoint(R, key, k) ==
    [at |-> k[1], key |-> k[2], metric |-> "prefillSpeed",
     box |-> Box(Keyed(R, key, k), PrefillSpeeds(Keyed(R, key, k)))]
PrefillPoints(R, key) == {PrefillPoint(R, key, k) : k \in KeysOf(R, key)}
LatencyPoint(R, key, k) ==
    [at |-> k[1], key |-> k[2], metric |-> "ttft",
     box |-> Box(Keyed(R, key, k), Latencies(Keyed(R, key, k)))]
LatencyPoints(R, key) == {LatencyPoint(R, key, k) : k \in KeysOf(R, key)}

CellKey(R, dimension, dims, width, origin) ==
    [r \in R |-> <<TimeBucket(width, r.at, origin), GroupKey(r, dimension, dims)>>]

ItemsOf(R, dimension, dims) == SpeedBoxplot(R, LAMBDA r : GroupKey(r, dimension, dims))

LEMMA BoxplotIs ==
    ASSUME NEW R, NEW dimension, NEW dims
    PROVE  ItemsOf(R, dimension, dims)
               = ItemsBy(DecodedRows(R), DimensionOf(DecodedRows(R), dimension, dims))
<1> DEFINE D == DecodedRows(R)  key == DimensionOf(D, dimension, dims)
           In(k) == {r \in D : GroupKey(r, dimension, dims) = k}
           Row(k) == [key |-> k, box |-> DecodeBox(In(k))]
<1>1. ItemsOf(R, dimension, dims)
          = {Row(k) : k \in {GroupKey(r, dimension, dims) : r \in D}}
  BY DEF ItemsOf, SpeedBoxplot, GroupBy, DecodedRows
<1>2. \A k : In(k) = Keyed(D, key, k)
  BY DEF Keyed, DimensionOf
<1>3. {GroupKey(r, dimension, dims) : r \in D} = KeysOf(D, key)
  BY DEF KeysOf, DimensionOf
<1> HIDE DEF In, D, key
<1>4. \A k : Row(k) = Item(D, key, k)
  BY <1>2 DEF Item, DecodeBox, DecodeSpeeds
<1> HIDE DEF Row
<1> QED
  BY <1>1, <1>3, <1>4 DEF ItemsBy, D, key

SpeedRowsOf(R, dimension, dims, width, origin) ==
    SpeedSeries(R, LAMBDA r : GroupKey(r, dimension, dims), width, origin)

LEMMA SpeedSeriesIs ==
    ASSUME NEW R, NEW dimension, NEW dims, NEW width, NEW origin
    PROVE  LET P == PrefilledRows(R)
               D == DecodedRows(R)
               p == CellKey(P, dimension, dims, width, origin)
               d == CellKey(D, dimension, dims, width, origin)
           IN SpeedRowsOf(R, dimension, dims, width, origin)
                  = PrefillPoints(P, p) \cup LatencyPoints(P, p) \cup DecodePoints(D, d)
<1> DEFINE P == PrefilledRows(R)  D == DecodedRows(R)
           p == CellKey(P, dimension, dims, width, origin)
           d == CellKey(D, dimension, dims, width, origin)
           Key(r) == <<TimeBucket(width, r.at, origin), GroupKey(r, dimension, dims)>>
           P0 == {r \in {q \in R : Prefilled(q)} : r.type = 1}
           D0 == {r \in {q \in R : Decoded(q)} : r.type = 1}
           In(S, k) == {r \in S : Key(r) = k}
           A(k) == [at |-> k[1], key |-> k[2], metric |-> "prefillSpeed",
                    box |-> Box(In(P0, k), [r \in In(P0, k) |-> PrefillSpeed(r)])]
           B(k) == [at |-> k[1], key |-> k[2], metric |-> "ttft",
                    box |-> Box(In(P0, k), [r \in In(P0, k) |-> r.ttft])]
           C(k) == [at |-> k[1], key |-> k[2], metric |-> "decodeSpeed",
                    box |-> Box(In(D0, k), [r \in In(D0, k) |-> DecodeSpeed(r)])]
           KP == {Key(r) : r \in P0}
           KD == {Key(r) : r \in D0}
<1>1. SpeedRowsOf(R, dimension, dims, width, origin)
          = {A(k) : k \in KP} \cup {B(k) : k \in KP} \cup {C(k) : k \in KD}
  BY DEF SpeedRowsOf, SpeedSeries, GroupBy
<1>2. P0 = P /\ D0 = D
  BY DEF PrefilledRows, DecodedRows
<1> HIDE DEF P0, D0, P, D
<1>3. \A k : In(P0, k) = Keyed(P, p, k) /\ In(D0, k) = Keyed(D, d, k)
  BY <1>2 DEF Keyed, CellKey
<1>4. KP = KeysOf(P, p) /\ KD = KeysOf(D, d)
  BY <1>2 DEF KeysOf, CellKey
<1> HIDE DEF In, KP, KD, p, d
<1>5. \A k : A(k) = PrefillPoint(P, p, k)
  BY <1>3 DEF PrefillPoint, PrefillSpeeds
<1>6. \A k : B(k) = LatencyPoint(P, p, k)
  BY <1>3 DEF LatencyPoint, Latencies
<1>7. \A k : C(k) = DecodePoint(D, d, k)
  BY <1>3 DEF DecodePoint, DecodeSpeeds
<1> HIDE DEF A, B, C
<1>8. {A(k) : k \in KP} = PrefillPoints(P, p)
  BY <1>4, <1>5 DEF PrefillPoints
<1>9. {B(k) : k \in KP} = LatencyPoints(P, p)
  BY <1>4, <1>6 DEF LatencyPoints
<1>10. {C(k) : k \in KD} = DecodePoints(D, d)
  BY <1>4, <1>7 DEF DecodePoints
<1> QED
  BY <1>1, <1>8, <1>9, <1>10 DEF P, D, p, d

\* Every point's box is of some rows of its bucket.
LEMMA KeyedThere ==
    ASSUME NEW R, NEW key, NEW k \in KeysOf(R, key)
    PROVE  /\ Keyed(R, key, k) \in SUBSET R /\ Keyed(R, key, k) # {}
           /\ \E r \in R : k = key[r]
BY DEF KeysOf, Keyed

IsSpeedPoint(p, R, width, origin) ==
    /\ p = [at |-> p.at, key |-> p.key, metric |-> p.metric, box |-> p.box]
    /\ Ordered(p.box)
    /\ \E r \in R : p.at = TimeBucket(width, r.at, origin)

LEMMA SpeedPointFacts ==
    ASSUME NEW R, AreSamples(R), NEW dimension, NEW dims, NEW width, NEW origin
    PROVE  \A p \in SpeedRowsOf(R, dimension, dims, width, origin) : IsSpeedPoint(p, R, width, origin)
<1> DEFINE P == PrefilledRows(R)  D == DecodedRows(R)
           p == CellKey(P, dimension, dims, width, origin)
           d == CellKey(D, dimension, dims, width, origin)
<1>1. SpeedRowsOf(R, dimension, dims, width, origin)
          = PrefillPoints(P, p) \cup LatencyPoints(P, p) \cup DecodePoints(D, d)
  BY SpeedSeriesIs
<1>2. P \in SUBSET R /\ D \in SUBSET R
  BY DEF PrefilledRows, DecodedRows
<1>3. /\ \A r \in P : p[r][1] = TimeBucket(width, r.at, origin)
      /\ \A r \in D : d[r][1] = TimeBucket(width, r.at, origin)
  BY DEF CellKey
<1>4. /\ \A C \in SUBSET D : AreValued(C, DecodeSpeeds(C))
      /\ \A C \in SUBSET P : AreValued(C, PrefillSpeeds(C)) /\ AreValued(C, Latencies(C))
  BY SpeedsAreNumbers
<1> HIDE DEF P, D, p, d
<1>5. ASSUME NEW k \in KeysOf(P, p), NEW x, x = PrefillPoint(P, p, k) PROVE IsSpeedPoint(x, R, width, origin)
  <2> DEFINE C == Keyed(P, p, k)
  <2>1. C \in SUBSET P /\ C # {} /\ \E r \in P : k = p[r]
    BY KeyedThere
  <2>2. Ordered(Box(C, PrefillSpeeds(C)))
    BY <1>4, <2>1, BoxFacts
  <2> HIDE DEF C
  <2>3. x = [at |-> k[1], key |-> k[2], metric |-> "prefillSpeed", box |-> Box(C, PrefillSpeeds(C))]
    BY <1>5 DEF PrefillPoint, C
  <2> QED
    BY <1>2, <1>3, <2>1, <2>2, <2>3 DEF IsSpeedPoint
<1>6. ASSUME NEW k \in KeysOf(P, p), NEW x, x = LatencyPoint(P, p, k) PROVE IsSpeedPoint(x, R, width, origin)
  <2> DEFINE C == Keyed(P, p, k)
  <2>1. C \in SUBSET P /\ C # {} /\ \E r \in P : k = p[r]
    BY KeyedThere
  <2>2. Ordered(Box(C, Latencies(C)))
    BY <1>4, <2>1, BoxFacts
  <2> HIDE DEF C
  <2>3. x = [at |-> k[1], key |-> k[2], metric |-> "ttft", box |-> Box(C, Latencies(C))]
    BY <1>6 DEF LatencyPoint, C
  <2> QED
    BY <1>2, <1>3, <2>1, <2>2, <2>3 DEF IsSpeedPoint
<1>7. ASSUME NEW k \in KeysOf(D, d), NEW x, x = DecodePoint(D, d, k) PROVE IsSpeedPoint(x, R, width, origin)
  <2> DEFINE C == Keyed(D, d, k)
  <2>1. C \in SUBSET D /\ C # {} /\ \E r \in D : k = d[r]
    BY KeyedThere
  <2>2. Ordered(Box(C, DecodeSpeeds(C)))
    BY <1>4, <2>1, BoxFacts
  <2> HIDE DEF C
  <2>3. x = [at |-> k[1], key |-> k[2], metric |-> "decodeSpeed", box |-> Box(C, DecodeSpeeds(C))]
    BY <1>7 DEF DecodePoint, C
  <2> QED
    BY <1>2, <1>3, <2>1, <2>2, <2>3 DEF IsSpeedPoint
<1> QED
  BY <1>1, <1>5, <1>6, <1>7 DEF PrefillPoints, LatencyPoints, DecodePoints

DecodeMetric(points) == {x \in points : x.metric = "decodeSpeed"}
LEMMA DecodePointsAre ==
    ASSUME NEW R, NEW dimension, NEW dims, NEW width, NEW origin
    PROVE  DecodeMetric(SpeedRowsOf(R, dimension, dims, width, origin))
               = DecodePoints(DecodedRows(R), CellKey(DecodedRows(R), dimension, dims, width, origin))
<1> DEFINE P == PrefilledRows(R)  D == DecodedRows(R)
           p == CellKey(P, dimension, dims, width, origin)
           d == CellKey(D, dimension, dims, width, origin)
<1>1. SpeedRowsOf(R, dimension, dims, width, origin)
          = PrefillPoints(P, p) \cup LatencyPoints(P, p) \cup DecodePoints(D, d)
  BY SpeedSeriesIs
<1> HIDE DEF P, D, p, d
<1>2. /\ \A x \in PrefillPoints(P, p) : x.metric = "prefillSpeed"
      /\ \A x \in LatencyPoints(P, p) : x.metric = "ttft"
      /\ \A x \in DecodePoints(D, d) : x.metric = "decodeSpeed"
  BY DEF PrefillPoints, PrefillPoint, LatencyPoints, LatencyPoint, DecodePoints, DecodePoint
<1>3. "prefillSpeed" # "decodeSpeed" /\ "ttft" # "decodeSpeed"
  OBVIOUS
<1>4. DecodeMetric(SpeedRowsOf(R, dimension, dims, width, origin)) = DecodePoints(D, d)
  BY <1>1, <1>2, <1>3 DEF DecodeMetric
<1> QED
  BY <1>4 DEF D, d

\* A source bucket is a display bucket of the window: the handler's folding
\* moves no point.
LEMMA SameBucket ==
    ASSUME NEW from \in Int, NEW at \in Int, from <= at, NEW width \in Nat \ {0}
    PROVE  TimeBucket(width, at, from) = BucketAt(from, at, width)
<1>1. CASE at = from
  <2>1. 0 \div width = 0 /\ 0 * width = 0
    OBVIOUS
  <2> QED
    BY <1>1, <2>1 DEF TimeBucket, BucketAt
<1>2. CASE at > from
  BY <1>2 DEF TimeBucket, BucketAt
<1> QED
  BY <1>1, <1>2

LEMMA PointsStay ==
    ASSUME NEW R, AreSamples(R), NEW w, IsWindow(w), AreInside(R, w), NEW width \in Nat \ {0},
           NEW dimension, NEW dims, NEW P, P = SpeedRowsOf(R, dimension, dims, width, w.from)
    PROVE  /\ SpeedPoints(P, w, width).points = P
           /\ \A p \in P : Ordered(p.box) /\ p.at \in Buckets(w, width)
<1>1. \A p \in P : IsSpeedPoint(p, R, width, w.from)
  BY SpeedPointFacts
<1>2. ASSUME NEW p \in P
      PROVE  /\ p.at \in Buckets(w, width)
             /\ [p EXCEPT !.at = BucketAt(w.from, p.at, width)] = p
  <2>1. PICK r \in R : p.at = TimeBucket(width, r.at, w.from)
    BY <1>1 DEF IsSpeedPoint
  <2>2. r.at \in Int /\ w.from <= r.at /\ r.at < w.to /\ w.from \in Int
    BY DEF AreInside, IsWindow
  <2>3. p.at = BucketAt(w.from, r.at, width)
    BY <2>1, <2>2, SameBucket
  <2>4. p.at \in Buckets(w, width)
    BY <2>2, <2>3, BucketThere
  <2>5. BucketAt(w.from, p.at, width) = p.at
    BY <2>1, <2>2, BucketStays
  <2>6. p = [at |-> p.at, key |-> p.key, metric |-> p.metric, box |-> p.box]
    BY <1>1 DEF IsSpeedPoint
  <2>7. [p EXCEPT !.at = p.at] = p
    BY <2>6
  <2> QED
    BY <2>4, <2>5, <2>7
<1>3. SpeedPoints(P, w, width).points = {[p EXCEPT !.at = BucketAt(w.from, p.at, width)] : p \in P}
  BY DEF SpeedPoints
<1>4. SpeedPoints(P, w, width).points = P
  BY <1>2, <1>3
<1> QED
  BY <1>1, <1>2, <1>4 DEF IsSpeedPoint

\* Rows, one for each key: their counts are that of all that was counted.
AreCounts(X, S, key, name, v) ==
    /\ IsFiniteSet(X)
    /\ \A x \in X : name[x] \in KeysOf(S, key) /\ v[x] = Cardinality(Keyed(S, key, name[x]))
    /\ \A x, y \in X : name[x] = name[y] => x = y
    /\ \A k \in KeysOf(S, key) : \E x \in X : name[x] = k

LEMMA CountsTotal ==
    ASSUME NEW S, IsFiniteSet(S), NEW key, NEW X, NEW name, NEW v, AreCounts(X, S, key, name, v)
    PROVE  SumFunctionOnSet(v, X) = Cardinality(S)
<1> DEFINE one == [x \in S |-> 1]  K == KeysOf(S, key)  part == [k \in K |-> Keyed(S, key, k)]
<1>1. IsFiniteSet(K) /\ IsPartition(S, K, part) /\ \A k : Keyed(S, key, k) \in SUBSET S
  BY KeyedFacts
<1>2. Counts(one, S) /\ \A x \in S : one[x] = 1
  BY DEF Counts
<1>3. \A k \in K : part[k] = Keyed(S, key, k)
  OBVIOUS
<1>4. SumFunctionOnSet(one, S) = Cardinality(S)
  BY <1>2, SumCounts
<1>5. ASSUME NEW C \in SUBSET S PROVE SumFunctionOnSet(one, C) = Cardinality(C)
  <2>1. IsFiniteSet(C) /\ \A x \in C : one[x] = 1
    BY <1>2, FS_Subset
  <2> HIDE DEF one
  <2> QED
    BY <2>1, SumCounts
<1> HIDE DEF one, K, part
<1>6. /\ IsFiniteSet(X) /\ (\A x \in X : name[x] \in K) /\ (\A x, y \in X : name[x] = name[y] => x = y)
      /\ \A x \in X : v[x] = SumFunctionOnSet(one, part[name[x]])
      /\ \A k \in K : (\E x \in X : name[x] = k) \/ SumFunctionOnSet(one, part[k]) = 0
  BY <1>1, <1>3, <1>5 DEF AreCounts, K
<1>7. SumFunctionOnSet(v, X) = SumFunctionOnSet(one, S)
  BY <1>1, <1>2, <1>6, SumRows
<1> QED
  BY <1>4, <1>7

\* The boxes of a set of decoded rows, by whatever key.
BoxCounts(X) == [x \in X |-> x.box.count]
AreBoxes(R) == \A C \in SUBSET R : AreValued(C, DecodeSpeeds(C))
IsDecodeBox(box, C) ==
    /\ Ordered(box) /\ box.count = Cardinality(C)
    /\ \E r \in C : box.min = 100 * DecodeSpeed(r)
    /\ \A r \in C : box.min <= 100 * DecodeSpeed(r)

LEMMA BoxThere ==
    ASSUME NEW R, AreBoxes(R), NEW C \in SUBSET R, C # {}, NEW box, box = Box(C, DecodeSpeeds(C))
    PROVE  IsDecodeBox(box, C)
<1>1. AreValued(C, DecodeSpeeds(C)) /\ \A r \in C : DecodeSpeeds(C)[r] = DecodeSpeed(r)
  BY DEF AreBoxes, DecodeSpeeds
<1> QED
  BY <1>1, BoxFacts DEF IsDecodeBox

LEMMA ItemFacts ==
    ASSUME NEW R, IsFiniteSet(R), AreBoxes(R), NEW key, NEW X, X = ItemsBy(R, key)
    PROVE  /\ \A x \in X : x.key \in KeysOf(R, key) /\ IsDecodeBox(x.box, Keyed(R, key, x.key))
           /\ SumFunctionOnSet(BoxCounts(X), X) = Cardinality(R)
<1> DEFINE K == KeysOf(R, key)  f == [k \in K |-> Item(R, key, k)]  name == [x \in X |-> x.key]
<1>1. IsFiniteSet(K)
  BY KeyedFacts
<1>2. X = {f[k] : k \in K}
  BY DEF ItemsBy
<1>3. \A k \in K : f[k].key = k /\ f[k].box = Box(Keyed(R, key, k), DecodeSpeeds(Keyed(R, key, k)))
  BY DEF Item
<1>4. \A k \in K : Keyed(R, key, k) \in SUBSET R /\ Keyed(R, key, k) # {}
  BY KeyedThere
<1> HIDE DEF K, f
<1>5. IsFiniteSet(X)
  BY <1>1, <1>2, Images
<1>6. \A x \in X : x.key \in K /\ f[x.key] = x
  BY <1>2, <1>3
<1>7. ASSUME NEW x \in X PROVE IsDecodeBox(x.box, Keyed(R, key, x.key))
  BY <1>3, <1>4, <1>6, BoxThere
<1>8. AreCounts(X, R, key, name, BoxCounts(X))
  <2>1. \A x \in X : name[x] = x.key /\ BoxCounts(X)[x] = Cardinality(Keyed(R, key, x.key))
    BY <1>7 DEF BoxCounts, IsDecodeBox
  <2>2. \A k \in K : f[k] \in X /\ name[f[k]] = k
    BY <1>2, <1>3
  <2> HIDE DEF name
  <2> QED
    BY <1>5, <1>6, <2>1, <2>2 DEF AreCounts, K
<1> QED
  BY <1>6, <1>7, <1>8, CountsTotal DEF K

LEMMA DecodePointFacts ==
    ASSUME NEW R, IsFiniteSet(R), AreBoxes(R), NEW key, \A r \in R : key[r] = <<key[r][1], key[r][2]>>,
           NEW X, X = DecodePoints(R, key)
    PROVE  /\ IsFiniteSet(X)
           /\ \A x \in X : /\ <<x.at, x.key>> \in KeysOf(R, key)
                          /\ IsDecodeBox(x.box, Keyed(R, key, <<x.at, x.key>>))
           /\ \A x, y \in X : <<x.at, x.key>> = <<y.at, y.key>> => x = y
           /\ \A r \in R : \E x \in X : key[r] = <<x.at, x.key>>
<1> DEFINE K == KeysOf(R, key)  f == [k \in K |-> DecodePoint(R, key, k)]
<1>1. IsFiniteSet(K)
  BY KeyedFacts
<1>2. X = {f[k] : k \in K}
  BY DEF DecodePoints
<1>3. \A k \in K : /\ f[k].at = k[1] /\ f[k].key = k[2]
                 /\ f[k].box = Box(Keyed(R, key, k), DecodeSpeeds(Keyed(R, key, k)))
  BY DEF DecodePoint
<1>4. \A k \in K : /\ Keyed(R, key, k) \in SUBSET R /\ Keyed(R, key, k) # {}
                 /\ k = <<k[1], k[2]>>
  <2> TAKE k \in K
  <2>1. Keyed(R, key, k) \in SUBSET R /\ Keyed(R, key, k) # {} /\ \E r \in R : k = key[r]
    BY KeyedThere
  <2> HIDE DEF K
  <2>2. PICK r \in R : k = key[r]
    BY <2>1
  <2>3. key[r] = <<key[r][1], key[r][2]>>
    OBVIOUS
  <2> QED
    BY <2>1, <2>2, <2>3
<1>5. \A r \in R : key[r] \in K
  BY DEF KeysOf
<1> HIDE DEF K, f
<1>6. IsFiniteSet(X)
  BY <1>1, <1>2, Images
<1>7. \A k \in K : <<f[k].at, f[k].key>> = k
  BY <1>3, <1>4
<1>8. \A x \in X : <<x.at, x.key>> \in K /\ f[<<x.at, x.key>>] = x
  BY <1>2, <1>7
<1>9. ASSUME NEW x \in X PROVE IsDecodeBox(x.box, Keyed(R, key, <<x.at, x.key>>))
  <2> DEFINE k == <<x.at, x.key>>
  <2>1. k \in K /\ f[k] = x
    BY <1>8
  <2> HIDE DEF k
  <2>2. x.box = Box(Keyed(R, key, k), DecodeSpeeds(Keyed(R, key, k)))
    BY <1>3, <2>1
  <2>3. IsDecodeBox(x.box, Keyed(R, key, k))
    BY <1>4, <2>1, <2>2, BoxThere
  <2> QED
    BY <2>3 DEF k
<1>10. \A x, y \in X : <<x.at, x.key>> = <<y.at, y.key>> => x = y
  BY <1>8
<1>11. \A r \in R : f[key[r]] \in X /\ key[r] = <<f[key[r]].at, f[key[r]].key>>
  BY <1>2, <1>5, <1>7
<1>12. \A r \in R : \E x \in X : key[r] = <<x.at, x.key>>
  BY <1>11
<1> QED
  BY <1>6, <1>8, <1>9, <1>10, <1>12 DEF K

\* The points of a group, and all of them.
OfKey(X, g) == {x \in X : x.key = g}
SplitsGroups(R, key, group) == \A r \in R : key[r] = <<key[r][1], group[r]>>

LEMMA GroupCounts ==
    ASSUME NEW R, IsFiniteSet(R), AreBoxes(R), NEW group, NEW key, SplitsGroups(R, key, group),
           NEW X, X = DecodePoints(R, key), NEW g, NEW Y, Y = OfKey(X, g)
    PROVE  SumFunctionOnSet(BoxCounts(Y), Y) = Cardinality(Keyed(R, group, g))
<1> DEFINE S == Keyed(R, group, g)  name == [x \in Y |-> <<x.at, x.key>>]
<1>1. \A r \in R : key[r] = <<key[r][1], key[r][2]>> /\ key[r][2] = group[r]
  BY DEF SplitsGroups
<1>2. /\ IsFiniteSet(X)
      /\ \A x \in X : /\ <<x.at, x.key>> \in KeysOf(R, key)
                     /\ IsDecodeBox(x.box, Keyed(R, key, <<x.at, x.key>>))
      /\ \A x, y \in X : <<x.at, x.key>> = <<y.at, y.key>> => x = y
      /\ \A r \in R : \E x \in X : key[r] = <<x.at, x.key>>
  BY <1>1, DecodePointFacts
<1>3. IsFiniteSet(Y) /\ Y \subseteq X /\ \A x \in Y : x.key = g
  BY <1>2, FS_Subset DEF OfKey
<1>4. S \in SUBSET R /\ IsFiniteSet(S)
  BY FS_Subset DEF Keyed
<1>5. ASSUME NEW x \in Y
      PROVE  name[x] \in KeysOf(S, key) /\ BoxCounts(Y)[x] = Cardinality(Keyed(S, key, name[x]))
  <2>0. <<x.at, x.key>> \in KeysOf(R, key)
    BY <1>2, <1>3
  <2>1. PICK r \in R : key[r] = <<x.at, x.key>>
    BY <2>0 DEF KeysOf
  <2>2. r \in S /\ name[x] = key[r]
    BY <1>1, <1>3, <2>1 DEF Keyed
  <2>3. Keyed(S, key, name[x]) = Keyed(R, key, <<x.at, x.key>>)
    BY <1>1, <1>3, <2>1 DEF Keyed
  <2>4. BoxCounts(Y)[x] = Cardinality(Keyed(R, key, <<x.at, x.key>>))
    <3>1. IsDecodeBox(x.box, Keyed(R, key, <<x.at, x.key>>))
      BY <1>2, <1>3
    <3>2. BoxCounts(Y)[x] = x.box.count
      BY DEF BoxCounts
    <3> QED
      BY <3>1, <3>2 DEF IsDecodeBox
  <2> QED
    BY <2>2, <2>3, <2>4 DEF KeysOf
<1>6. \A x, y \in Y : name[x] = name[y] => x = y
  BY <1>2, <1>3
<1>7. ASSUME NEW k \in KeysOf(S, key) PROVE \E x \in Y : name[x] = k
  <2>1. PICK r \in S : key[r] = k
    BY DEF KeysOf
  <2>2. PICK x \in X : key[r] = <<x.at, x.key>>
    BY <1>2, <1>4
  <2>3. x.key = g
    BY <1>1, <1>4, <2>2 DEF Keyed
  <2> QED
    BY <2>1, <2>2, <2>3 DEF OfKey
<1> HIDE DEF S, name
<1>8. AreCounts(Y, S, key, name, BoxCounts(Y))
  BY <1>3, <1>5, <1>6, <1>7 DEF AreCounts
<1> QED
  BY <1>4, <1>8, CountsTotal DEF S

LEMMA AllCounts ==
    ASSUME NEW R, IsFiniteSet(R), AreBoxes(R), NEW group, NEW key, SplitsGroups(R, key, group),
           NEW X, X = DecodePoints(R, key)
    PROVE  SumFunctionOnSet(BoxCounts(X), X) = Cardinality(R)
<1> DEFINE name == [x \in X |-> <<x.at, x.key>>]
<1>1. \A r \in R : key[r] = <<key[r][1], key[r][2]>>
  BY DEF SplitsGroups
<1>2. /\ IsFiniteSet(X)
      /\ \A x \in X : /\ <<x.at, x.key>> \in KeysOf(R, key)
                     /\ IsDecodeBox(x.box, Keyed(R, key, <<x.at, x.key>>))
      /\ \A x, y \in X : <<x.at, x.key>> = <<y.at, y.key>> => x = y
      /\ \A r \in R : \E x \in X : key[r] = <<x.at, x.key>>
  BY <1>1, DecodePointFacts
<1>3. \A x \in X : name[x] \in KeysOf(R, key) /\ BoxCounts(X)[x] = Cardinality(Keyed(R, key, name[x]))
  BY <1>2 DEF BoxCounts, IsDecodeBox
<1>4. \A k \in KeysOf(R, key) : \E x \in X : name[x] = k
  BY <1>2 DEF KeysOf
<1>5. \A x, y \in X : name[x] = name[y] => x = y
  BY <1>2
<1> HIDE DEF name
<1>6. AreCounts(X, R, key, name, BoxCounts(X))
  BY <1>2, <1>3, <1>4, <1>5 DEF AreCounts
<1> QED
  BY <1>6, CountsTotal

LEMMA LeastOf ==
    ASSUME NEW S, S \subseteq Int, NEW m \in S, \A x \in S : m <= x
    PROVE  Min(S) = m
<1> DEFINE least == Min(S)
<1>1. least \in S /\ \A x \in S : least <= x
  BY DEF Min
<1> HIDE DEF least
<1>2. least <= m /\ m <= least /\ m \in Int /\ least \in Int
  BY <1>1
<1>3. least = m
  BY <1>2
<1> QED
  BY <1>3 DEF least

LEMMA GroupLeast ==
    ASSUME NEW R, IsFiniteSet(R), AreBoxes(R), NEW group, NEW key, SplitsGroups(R, key, group),
           NEW X, X = DecodePoints(R, key), NEW g, NEW Y, Y = OfKey(X, g),
           NEW box, IsDecodeBox(box, Keyed(R, group, g))
    PROVE  box.min = Min({x.box.min : x \in Y})
<1> DEFINE S == Keyed(R, group, g)  M == {x.box.min : x \in Y}
<1>1. \A r \in R : key[r] = <<key[r][1], key[r][2]>> /\ key[r][2] = group[r] /\ DecodeSpeed(r) \in Int
  BY DEF SplitsGroups, AreBoxes, AreValued, DecodeSpeeds
<1>2. /\ \A x \in X : IsDecodeBox(x.box, Keyed(R, key, <<x.at, x.key>>))
      /\ \A r \in R : \E x \in X : key[r] = <<x.at, x.key>>
  BY <1>1, DecodePointFacts
<1>3. \A r : r \in S <=> r \in R /\ group[r] = g
  BY DEF Keyed
<1>4. \A k : \A r : r \in Keyed(R, key, k) <=> r \in R /\ key[r] = k
  BY DEF Keyed
<1>5. PICK r \in S : box.min = 100 * DecodeSpeed(r)
  BY DEF IsDecodeBox
<1>6. \A q \in S : box.min <= 100 * DecodeSpeed(q)
  BY DEF IsDecodeBox
<1> HIDE DEF S
<1>7. box.min \in Int
  BY <1>1, <1>3, <1>5
\* Every point's least is of the group, so no less than the group's.
<1>8. ASSUME NEW x \in Y PROVE x.box.min \in Int /\ box.min <= x.box.min
  <2>1. x \in X /\ x.key = g
    BY DEF OfKey
  <2>2. PICK q \in Keyed(R, key, <<x.at, x.key>>) : x.box.min = 100 * DecodeSpeed(q)
    BY <1>2, <2>1 DEF IsDecodeBox
  <2>3. q \in S
    BY <1>1, <1>3, <1>4, <2>1, <2>2
  <2> QED
    BY <1>1, <1>3, <1>6, <2>2, <2>3
\* The slowest row of the group is in some point.
<1>9. PICK x \in X : key[r] = <<x.at, x.key>>
  BY <1>2, <1>3, <1>5
<1>10. x \in Y
  BY <1>1, <1>3, <1>5, <1>9 DEF OfKey
<1>11. x.box.min <= box.min
  <2>1. IsDecodeBox(x.box, Keyed(R, key, <<x.at, x.key>>))
    BY <1>2
  <2>2. r \in Keyed(R, key, <<x.at, x.key>>)
    BY <1>3, <1>4, <1>5, <1>9
  <2>3. x.box.min <= 100 * DecodeSpeed(r)
    BY <2>1, <2>2 DEF IsDecodeBox
  <2> QED
    BY <1>5, <2>3
<1>12. box.min = x.box.min
  BY <1>7, <1>8, <1>10, <1>11
<1>13. box.min \in M /\ M \subseteq Int /\ \A m \in M : box.min <= m
  BY <1>8, <1>10, <1>12
<1> HIDE DEF M
<1>14. Min(M) = box.min
  BY <1>13, LeastOf
<1> QED
  BY <1>14 DEF M

LEMMA OwnSamples ==
    ASSUME TableInv, NEW in, NEW w
    PROVE  AreSamples(OwnRows(in, w))
<1>1. OwnRows(in, w) \in SUBSET request
  BY DEF OwnRows, Selected
<1>2. "input" \in Kinds /\ "output" \in Kinds
  BY DEF Kinds
<1> QED
  BY <1>1, <1>2, OwnRowsFacts, PoolAssumption DEF TableInv, AreSamples

CountPoints(points) == Sum(LAMBDA p : p.box.count, DecodeMetric(points))
LEMMA CountIs ==
    ASSUME NEW points
    PROVE  CountPoints(points) = SumFunctionOnSet(BoxCounts(DecodeMetric(points)), DecodeMetric(points))
BY SumIs DEF CountPoints, Sum, BoxCounts

\* What a series and the box plot over its window say of a group.
SpeedsMatch(points, items) ==
    /\ \A item \in items :
        LET Mine == {p \in points : p.key = item.key /\ p.metric = "decodeSpeed"}
        IN /\ Ordered(item.box)
           /\ item.box.count = CountPoints(Mine)
           /\ item.box.min = Min({p.box.min : p \in Mine})
    /\ CountPoints(points) = Sum(LAMBDA item : item.box.count, items)

LEMMA SpeedsMatchHere ==
    ASSUME NEW R, AreSamples(R), NEW dimension, NEW dims, NEW width, NEW origin,
           NEW points, points = SpeedRowsOf(R, dimension, dims, width, origin),
           NEW items, items = ItemsOf(R, dimension, dims)
    PROVE  SpeedsMatch(points, items)
<1> DEFINE D == DecodedRows(R)
           key == CellKey(D, dimension, dims, width, origin)
           group == DimensionOf(D, dimension, dims)
           X == DecodeMetric(points)
<1>1. D \in SUBSET R /\ IsFiniteSet(D)
  BY FS_Subset DEF AreSamples, DecodedRows
<1>2. AreBoxes(D)
  BY SpeedsAreNumbers DEF AreBoxes
<1>3. SplitsGroups(D, key, group)
  BY DEF SplitsGroups, CellKey, DimensionOf
<1>4. X = DecodePoints(D, key)
  BY DecodePointsAre
<1>5. items = ItemsBy(D, group)
  BY BoxplotIs
<1> HIDE DEF D, key, group
<1>6. /\ \A x \in items : x.key \in KeysOf(D, group) /\ IsDecodeBox(x.box, Keyed(D, group, x.key))
      /\ SumFunctionOnSet(BoxCounts(items), items) = Cardinality(D)
  BY <1>1, <1>2, <1>5, ItemFacts
<1>7. SumFunctionOnSet(BoxCounts(X), X) = Cardinality(D)
  BY <1>1, <1>2, <1>3, <1>4, AllCounts
<1>8. CountPoints(points) = SumFunctionOnSet(BoxCounts(X), X)
  BY CountIs
<1>9. Sum(LAMBDA item : item.box.count, items) = SumFunctionOnSet(BoxCounts(items), items)
  BY SumIs DEF Sum, BoxCounts
<1>10. ASSUME NEW item \in items, NEW Mine, Mine = {p \in points : p.key = item.key /\ p.metric = "decodeSpeed"}
       PROVE  /\ Ordered(item.box)
              /\ item.box.count = CountPoints(Mine)
              /\ item.box.min = Min({p.box.min : p \in Mine})
  <2> DEFINE g == item.key
  <2>1. Mine = OfKey(X, g) /\ DecodeMetric(Mine) = Mine
    BY <1>10 DEF OfKey, DecodeMetric
  <2> HIDE DEF X
  <2>2. SumFunctionOnSet(BoxCounts(Mine), Mine) = Cardinality(Keyed(D, group, g))
    BY <1>1, <1>2, <1>3, <1>4, <2>1, GroupCounts
  <2>3. IsDecodeBox(item.box, Keyed(D, group, g))
    BY <1>6
  <2>4. item.box.min = Min({p.box.min : p \in Mine})
    BY <1>1, <1>2, <1>3, <1>4, <2>1, <2>3, GroupLeast
  <2>5. CountPoints(Mine) = SumFunctionOnSet(BoxCounts(Mine), Mine)
    BY <2>1, CountIs
  <2> QED
    BY <2>2, <2>3, <2>4, <2>5 DEF IsDecodeBox
<1> HIDE DEF X
<1> QED
  BY <1>6, <1>7, <1>8, <1>9, <1>10 DEF SpeedsMatch

LEMMA PlotIs ==
    ASSUME NEW in, NEW plot \in GetOverviewSpeedBoxplots(data, in, Now)
    PROVE  \E w \in OwnWindow(in, Now) : plot.items = ItemsOf(OwnRows(in, w), in.dimension, OwnDims)
<1>1. \A w : GetOverviewSpeedBoxplot(request, w, in.user, in.filter, in.dimension)
                = ItemsOf(OwnRows(in, w), in.dimension, OwnDims)
  BY DEF GetOverviewSpeedBoxplot, ItemsOf, OwnRows
<1>2. PICK w \in OwnWindow(in, Now) :
          plot.items = GetOverviewSpeedBoxplot(request, w, in.user, in.filter, in.dimension)
  BY DEF GetOverviewSpeedBoxplots, data
<1> QED
  BY <1>1, <1>2

LEMMA SpeedsAgreeHere == TableInv => SpeedsAgree
<1> SUFFICES ASSUME TableInv, NEW in \in OwnQuestions,
                    NEW series \in GetOverviewSpeedSeries(data, in, Now),
                    NEW plot \in GetOverviewSpeedBoxplots(data, [in EXCEPT !.range = Same(series.window)], Now)
             PROVE  /\ \A p \in series.points : Ordered(p.box) /\ p.at \in Buckets(series.window, series.width)
                    /\ SpeedsMatch(series.points, plot.items)
  BY DEF SpeedsAgree, SpeedsMatch, Ordered, CountPoints, DecodeMetric
<1> DEFINE there == [in EXCEPT !.range = Same(series.window)]
<1>1. /\ in.range \in Ranges /\ there.user = in.user /\ there.filter = in.filter
      /\ there.dimension = in.dimension /\ "range" \in DOMAIN in
  BY DEF OwnQuestions, Questions, Ask
<1>2. PICK s \in OwnSeriesWindow(in, Now) :
          series = SpeedPoints(SpeedRowsOf(OwnRows(in, s.w), in.dimension, OwnDims, s.width, s.w.from),
                               s.w, s.width)
  BY DEF GetOverviewSpeedSeries, data, ListOverviewSpeedDistributionSeries, SpeedRowsOf, OwnRows
<1>3. IsWindow(s.w) /\ s.w = [from |-> s.w.from, to |-> s.w.to] /\ s.width \in Nat \ {0}
  BY <1>1, SeriesWindows DEF OwnSeriesWindow
<1> DEFINE R == OwnRows(in, s.w)
           points == SpeedRowsOf(R, in.dimension, OwnDims, s.width, s.w.from)
<1>4. AreSamples(R) /\ AreInside(R, s.w)
  BY OwnSamples, OwnRowsFacts
<1>5. series = SpeedPoints(points, s.w, s.width)
  BY <1>2
<1> HIDE DEF R
<1>6. /\ SpeedPoints(points, s.w, s.width).points = points
      /\ \A p \in points : Ordered(p.box) /\ p.at \in Buckets(s.w, s.width)
  BY <1>3, <1>4, PointsStay
<1> HIDE DEF points
<1>7. series.points = points /\ series.window = s.w /\ series.width = s.width
  BY <1>5, <1>6 DEF SpeedPoints
<1>8. PICK x \in OwnWindow(there, Now) : plot.items = ItemsOf(OwnRows(there, x), there.dimension, OwnDims)
  BY PlotIs
<1>9. x = s.w
  BY <1>1, <1>3, <1>7, <1>8, SameWindow
<1>10. OwnRows(there, x) = R /\ there.dimension = in.dimension
  BY <1>1, <1>9 DEF OwnRows, R
<1> HIDE DEF there
<1>11. plot.items = ItemsOf(R, in.dimension, OwnDims)
  BY <1>8, <1>10
<1>12. SpeedsMatch(points, plot.items)
  BY <1>4, <1>11, SpeedsMatchHere DEF points
<1> QED
  BY <1>6, <1>7, <1>12

\* The box plot and the decode-speed boxes of a series are made of the same
\* samples: each group's counts and minimum agree over one window, every box
\* is ordered and in a bucket of it (handle_overview_speed_series.go,
\* overview.sql.go).
THEOREM SpeedsAgreeHolds == Spec => []SpeedsAgree
BY TableInvHolds, SpeedsAgreeHere, PTL
=============================================================================
