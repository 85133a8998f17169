------------------------------- MODULE Orders -------------------------------
(***************************************************************************)
(* Sorting: sort.Slice, slices.SortFunc and ORDER BY where the order tells *)
(* all elements apart.  An element's place is the number of those before   *)
(* it, so no element is compared with more than its set.                   *)
(***************************************************************************)
EXTENDS Integers, FiniteSets

\* A finite set in the order given as the set of its pairs.
InOrder(S, R) ==
    [i \in 1..Cardinality(S) |->
        CHOOSE x \in S : Cardinality({y \in S : <<y, x>> \in R}) = i - 1]

\* Numbers, the smallest first.
Ascending(S) == InOrder(S, {ij \in S \X S : ij[1] < ij[2]})

\* The elements a list has at some of its places, in the list's order.
AtPlaces(list, places) ==
    LET order == Ascending(places) IN [k \in DOMAIN order |-> list[order[k]]]
=============================================================================
