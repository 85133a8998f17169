----------------------------- MODULE MCOverview -----------------------------
(* Model values for the run of OverviewCases: the clock stands 37 minutes   *)
(* into an hour; rows of two users lie around the bucket borders, with and  *)
(* without span, cost, tokens and end.                                      *)
EXTENDS OverviewCases

TheNow == 100 * Day + 14 * Hour + 37

Base ==
    [at |-> TheNow - 30, type |-> 1, span |-> "s1",
     dims |-> [d \in Dims |-> CASE d = "user" -> "u1" [] d = "model" -> "m1"
                                [] d = "provider" -> "p1" [] OTHER -> NullName],
     tokens |-> [kind \in Kinds |-> CASE kind = "input" -> 100 [] kind = "output" -> 60
                                      [] kind = "cacheRead" -> 7 [] OTHER -> NullNumber],
     cost |-> 5, currency |-> "USD", path |-> "/v1/messages", reason |-> 3, status |-> 200,
     ttft |-> 500, time |-> 1100]

Silent == [kind \in Kinds |-> NullNumber]

ThePool ==
    {Base,
     [Base EXCEPT !.type = 0, !.at = @ - 1, !.dims["provider"] = NullName],
     [Base EXCEPT !.at = @ + 9, !.dims["provider"] = "p2", !.tokens["output"] = 90, !.cost = 7],
     [Base EXCEPT !.at = @ - 65, !.reason = 6, !.currency = "EUR", !.dims["model"] = "m2", !.span = NullName],
     [Base EXCEPT !.at = @ - 5, !.tokens = Silent, !.cost = 2, !.dims["model"] = NullName,
                  !.reason = NullNumber],
     [Base EXCEPT !.at = @ + 27, !.dims["user"] = "u2", !.dims["project"] = "j1",
                  !.tokens["output"] = 0, !.reason = 6, !.cost = NullNumber, !.currency = NullName],
     [Base EXCEPT !.at = @ - 10 * Day, !.dims["user"] = "u3", !.span = "s2"]}

TheUsers == {"u1", "u2", "u3"}
\* The third user's id is the first one's and 2^32.
TheInt32 == [u \in TheUsers |-> IF u = "u2" THEN 2 ELSE 1]
NoFilter == [d \in {} |-> ""]
ByProvider == [d \in {"provider"} |-> "p1"]
ByUser == [d \in {"user"} |-> "u2"]
TheAsked == {[dimension |-> d, filter |-> NoFilter] : d \in {"none", "model", "project"}}
            \cup {[dimension |-> "provider", filter |-> ByProvider],
                  [dimension |-> "model", filter |-> ByUser]}
TheRanges == {[key |-> "1d"], [key |-> "1m"],
              [key |-> "custom", from |-> TheNow - 33, to |-> TheNow - 5]}
TheWidths == {"auto", "10m"}
ThePaths == {"/v1/messages"}
=============================================================================
