------------------------------ MODULE Pricing ------------------------------
(***************************************************************************)
(* What a request costs (pkg/server/pricing.go).  A pricing is a record of *)
(* currency and tiers, a sequence of [min, price] by growing min; price    *)
(* gives each kind of token its price for a million tokens, in millionths  *)
(* of the currency.  A cost is in millionths, too, the precision of the    *)
(* column; tokens is a function of Kinds to numbers or None.               *)
(***************************************************************************)
EXTENDS Integers, Sequences, FiniteSetsExt

CONSTANTS None, Million   \* Million tokens: the unit prices are given for

Kinds == {"input", "output", "cacheRead", "cacheWrite", "cacheWrite1h"}

\* What an administrator may save.
Valid(pricing) ==
    /\ pricing.tiers # <<>> /\ pricing.tiers[1].min = 0
    /\ \A i, j \in DOMAIN pricing.tiers : i < j => pricing.tiers[i].min < pricing.tiers[j].min
    /\ \A i \in DOMAIN pricing.tiers : \A k \in Kinds : pricing.tiers[i].price[k] >= 0

\* The tiers a request of so many input tokens reaches; the list is ordered
\* and the scan stops at the first it does not.
TiersReached(pricing, input) ==
    {i \in DOMAIN pricing.tiers : \A j \in 1..i : pricing.tiers[j].min <= input}

\* Rounds half up; prices are not negative.
RoundedQuotient(n, d) == (n \div d) + (IF 2 * (n % d) >= d THEN 1 ELSE 0)

\* NULL without a pricing, without input tokens or below the first tier.
ComputeCost(pricing, tokens) ==
    IF pricing = None \/ tokens["input"] = None THEN None
    ELSE LET reached == TiersReached(pricing, tokens["input"])
             Term(k) == IF tokens[k] = None THEN 0
                        ELSE tokens[k] * pricing.tiers[Max(reached)].price[k]
         IN IF reached = {} THEN None ELSE RoundedQuotient(MapThenSumSet(Term, Kinds), Million)
=============================================================================
