-------------------------- MODULE OverviewQueries --------------------------
(***************************************************************************)
(* The two continuous aggregates over the request table                    *)
(* (db/migrations/040 and 045) and the queries of the dashboard's overview *)
(* on them and on the table: pkg/db/overview.sql.go for a user's own       *)
(* requests, pkg/db/admin_overview.sql.go for everyone's.                  *)
(*                                                                         *)
(* A request row is a record of at (minutes), type (0 meta, 1 upstream),   *)
(* span, dims (a function of Dims to names), tokens (a function of Kinds), *)
(* cost, currency, path, reason, status, ttft and time (milliseconds).     *)
(* NULL is NullName for a name and NullNumber for a number.  A filter is a *)
(* partial function of Dims: the dimensions a query was given a value for. *)
(* A window w is [w.from, w.to).  A grouped query yields a set of records, *)
(* one for each key that occurs; ORDER BY is left out.                     *)
(***************************************************************************)
EXTENDS Integers, SequencesExt

CONSTANT CompletionPaths   \* the view completion_endpoint_path

NullName == "NULL"
NullNumber == -1
Dims == {"user", "apiKey", "model", "upstreamModel", "provider", "project"}
OwnDims == Dims \ {"user"}
AdminDims == Dims \ {"apiKey", "project"}
Kinds == {"input", "cacheRead", "output", "cacheWrite", "cacheWrite1h"}

OrZero(n) == IF n = NullNumber THEN 0 ELSE n
Empty == ""
OrEmpty(name) == IF name = NullName THEN Empty ELSE name

Sum(f(_), S) == SumFunction([x \in S |-> f(x)])

\* GROUP BY: one row Row(key, its members) for each key of S.
GroupBy(S, Key(_), Row(_, _)) ==
    {Row(k, {x \in S : Key(x) = k}) : k \in {Key(x) : x \in S}}

----------------------------------------------------------------------------
(* The aggregates.                                                         *)

TenMinutes(at) == at - (at % 10)

\* request_overview_bucketed.
RequestOverviewBucketed(request) ==
    GroupBy({r \in request : r.type = 1},
            LAMBDA r : <<TenMinutes(r.at), r.dims, OrEmpty(r.currency)>>,
            LAMBDA k, R : [at |-> k[1], dims |-> k[2], currency |-> k[3],
                           requests |-> Cardinality(R),
                           cost |-> Sum(LAMBDA r : OrZero(r.cost), R),
                           tokens |-> [kind \in Kinds |->
                                          Sum(LAMBDA r : OrZero(r.tokens[kind]), R)]])

\* request_outcome_bucketed: every row, by how it ended; 0 is a row that has
\* not.
RequestOutcomeBucketed(request) ==
    GroupBy(request,
            LAMBDA r : [at |-> TenMinutes(r.at), dims |-> r.dims, type |-> r.type,
                        path |-> r.path, reason |-> OrZero(r.reason),
                        empty |-> OrZero(r.tokens["output"]) = 0],
            LAMBDA k, R : [at |-> k.at, dims |-> k.dims, type |-> k.type, path |-> k.path,
                           reason |-> k.reason, empty |-> k.empty,
                           requests |-> Cardinality(R)])

----------------------------------------------------------------------------
(* What the queries share.                                                 *)

\* WHERE at >= start AND at < end AND every filter that is not NULL.
Selected(S, w, filter) ==
    {x \in S : /\ w.from <= x.at /\ x.at < w.to
               /\ \A d \in DOMAIN filter : x.dims[d] = filter[d]}

Own(user, filter) == [d \in {"user"} \cup DOMAIN filter |->
                        IF d = "user" THEN user ELSE filter[d]]

\* The CASE over the dimension a query groups by.
GroupKey(x, dimension, dims) ==
    IF dimension \in dims THEN OrEmpty(x.dims[dimension]) ELSE Empty

\* The whole key of a breakdown; COALESCE's 0 of an id is "" too.
BreakdownKey(x, dims) == [d \in dims |-> OrEmpty(x.dims[d])]

TokensOf(b) == Sum(LAMBDA kind : b.tokens[kind], Kinds)
InputOf(b) == Sum(LAMBDA kind : b.tokens[kind], Kinds \ {"output"})
Tokens(B) == Sum(TokensOf, B)
Requests(B) == Sum(LAMBDA b : b.requests, B)
Amount(B) == Sum(LAMBDA b : b.cost, B)

Priced(B) == {b \in B : b.currency # Empty}
Costs(B) == GroupBy(Priced(B), LAMBDA b : b.currency,
                    LAMBDA c, C : [currency |-> c, amount |-> Amount(C)])

Totals(B) == [tokens |-> Tokens(B), requests |-> Requests(B), costs |-> Costs(B)]

TokenBreakdown(B) == [kind \in Kinds |-> Sum(LAMBDA b : b.tokens[kind], B)]

BreakdownTokens(B, dims) ==
    {row \in GroupBy(B, LAMBDA b : BreakdownKey(b, dims),
                     LAMBDA k, C : [key |-> k, tokens |-> Tokens(C)]) : row.tokens > 0}

BreakdownCosts(B, dims) ==
    GroupBy(Priced(B), LAMBDA b : <<BreakdownKey(b, dims), b.currency>>,
            LAMBDA k, C : [key |-> k[1], currency |-> k[2], amount |-> Amount(C)])

Distribution(B, Key(_)) ==
    GroupBy(B, Key, LAMBDA k, C : [key |-> k, tokens |-> Tokens(C), requests |-> Requests(C)])

DistributionCosts(B, Key(_)) ==
    GroupBy(Priced(B), LAMBDA b : <<Key(b), b.currency>>,
            LAMBDA k, C : [key |-> k[1], currency |-> k[2], amount |-> Amount(C)])

SeriesMetrics(B, Key(_)) ==
    GroupBy(B, LAMBDA b : <<b.at, Key(b), b.currency>>,
            LAMBDA k, C : [at |-> k[1], key |-> k[2], currency |-> k[3], tokens |-> Tokens(C),
                           requests |-> Requests(C), cost |-> Amount(C)])

CacheHitRateSeries(B, Key(_)) ==
    {row \in GroupBy(B, LAMBDA b : <<b.at, Key(b)>>,
                     LAMBDA k, C : [at |-> k[1], key |-> k[2],
                                    read |-> Sum(LAMBDA b : b.tokens["cacheRead"], C),
                                    input |-> Sum(InputOf, C)]) : row.input > 0}

\* time_bucket(width, at, origin).
TimeBucket(width, at, origin) == origin + ((at - origin) \div width) * width

InTrace(R) == {r \in R : r.type = 1 /\ r.span \notin {NullName, Empty}}
Spans(R) == Cardinality({r.span : r \in R})

TraceCounts(R, Key(_)) ==
    GroupBy(InTrace(R), Key, LAMBDA k, C : [key |-> k, traces |-> Spans(C)])

SeriesTraces(R, Key(_), width, origin) ==
    GroupBy(InTrace(R), LAMBDA r : <<TimeBucket(width, r.at, origin), Key(r)>>,
            LAMBDA k, C : [at |-> k[1], key |-> k[2], traces |-> Spans(C)])

\* traces whose last request is in the window; with filters only those that
\* hold an upstream request which passes them, wherever in the trace it is.
TracesIn(traces, w) == {t \in traces : w.from <= t.last /\ t.last < w.to}
Holds(t, request, filter) ==
    \E r \in request :
        /\ r.type = 1 /\ r.span = t.span /\ r.dims["user"] = t.user
        /\ t.first <= r.at /\ r.at <= t.last
        /\ \A d \in DOMAIN filter : r.dims[d] = filter[d]

Prefilled(r) == r.tokens["input"] >= 50 /\ r.ttft >= 500
Decoded(r) ==
    /\ r.status = 200 /\ r.reason \in {2, 3, 5}
    /\ r.tokens["output"] >= 50
    /\ r.ttft # NullNumber /\ r.time # NullNumber
    /\ r.time - r.ttft >= 500

\* Tokens per second, floor instead of float8.
PrefillSpeed(r) == (r.tokens["input"] * 1000) \div r.ttft
DecodeSpeed(r) == (r.tokens["output"] * 1000) \div (r.time - r.ttft)

\* 100 times percentile_cont(percent / 100) of a sorted sequence.
Percentile(s, percent) ==
    LET rank == percent * (Len(s) - 1)
        lower == rank \div 100 + 1
        rest == rank % 100
    IN IF rest = 0 THEN 100 * s[lower] ELSE (100 - rest) * s[lower] + rest * s[lower + 1]

\* The value in place i of the rows R in ascending order, with repetitions.
InPlace(R, value, i) ==
    CHOOSE v \in {value[r] : r \in R} :
        /\ Cardinality({r \in R : value[r] < v}) < i
        /\ i <= Cardinality({r \in R : value[r] <= v})

\* The five numbers of a box over the rows R, 100 times each, and their count.
Box(R, value) ==
    LET sorted == [i \in 1..Cardinality(R) |-> InPlace(R, value, i)]
        median == Percentile(sorted, 50)
    IN [min |-> 100 * sorted[1], p25 |-> Percentile(sorted, 25), median |-> median,
        p95 |-> Percentile(sorted, 95), top |-> Max({Percentile(sorted, 99), 3 * median}),
        count |-> Cardinality(R)]
DecodeBox(R) == Box(R, [r \in R |-> DecodeSpeed(r)])

SpeedBoxplot(R, Key(_)) ==
    GroupBy({r \in R : r.type = 1 /\ Decoded(r)}, Key,
            LAMBDA k, C : [key |-> k, box |-> DecodeBox(C)])

SpeedSeries(R, Key(_), width, origin) ==
    LET Boxes(S, metric, Value(_)) ==
            GroupBy({r \in S : r.type = 1},
                    LAMBDA r : <<TimeBucket(width, r.at, origin), Key(r)>>,
                    LAMBDA k, C : [at |-> k[1], key |-> k[2], metric |-> metric,
                                   box |-> Box(C, [r \in C |-> Value(r)])])
        prefilled == {r \in R : Prefilled(r)}
    IN Boxes(prefilled, "prefillSpeed", PrefillSpeed)
       \cup Boxes(prefilled, "ttft", LAMBDA r : r.ttft)
       \cup Boxes({r \in R : Decoded(r)}, "decodeSpeed", DecodeSpeed)

----------------------------------------------------------------------------
(* The queries of a user.  view is RequestOverviewBucketed, outcomes       *)
(* RequestOutcomeBucketed of the table.                                    *)

CountTraces(traces, w, user) ==
    Cardinality({t \in TracesIn(traces, w) : t.user = user})

CountTracesFiltered(traces, request, w, user, filter) ==
    Cardinality({t \in TracesIn(traces, w) : t.user = user /\ Holds(t, request, filter)})

GetOverviewTotals(view, w, user, filter) == Totals(Selected(view, w, Own(user, filter)))

GetOverviewTokenBreakdown(view, w, user, filter) ==
    TokenBreakdown(Selected(view, w, Own(user, filter)))

ListOverviewBreakdownTokens(view, w, user, filter) ==
    BreakdownTokens(Selected(view, w, Own(user, filter)), OwnDims)

ListOverviewBreakdownCosts(view, w, user, filter) ==
    BreakdownCosts(Selected(view, w, Own(user, filter)), OwnDims)

ListOverviewDistribution(view, w, user, filter, dimension) ==
    Distribution(Selected(view, w, Own(user, filter)),
                 LAMBDA b : GroupKey(b, dimension, OwnDims))

ListOverviewDistributionCosts(view, w, user, filter, dimension) ==
    DistributionCosts(Selected(view, w, Own(user, filter)),
                      LAMBDA b : GroupKey(b, dimension, OwnDims))

ListOverviewTraceCountsByDimension(request, w, user, filter, dimension) ==
    TraceCounts(Selected(request, w, Own(user, filter)),
                LAMBDA r : GroupKey(r, dimension, OwnDims))

ListOverviewSeriesMetrics(view, w, user, filter, dimension) ==
    SeriesMetrics(Selected(view, w, Own(user, filter)),
                  LAMBDA b : GroupKey(b, dimension, OwnDims))

ListOverviewSeriesTraces(request, w, user, filter, dimension, width) ==
    SeriesTraces(Selected(request, w, Own(user, filter)),
                 LAMBDA r : GroupKey(r, dimension, OwnDims), width, w.from)

ListOverviewCacheHitRateSeries(view, w, user, filter, dimension) ==
    CacheHitRateSeries(Selected(view, w, Own(user, filter)),
                       LAMBDA b : GroupKey(b, dimension, OwnDims))

\* Mutant: the meta row of a request is a sample too.
GetOverviewSpeedBoxplot_AnyType(request, w, user, filter, dimension) ==
    GroupBy({r \in Selected(request, w, Own(user, filter)) : Decoded(r)},
            LAMBDA r : GroupKey(r, dimension, OwnDims),
            LAMBDA k, C : [key |-> k, box |-> DecodeBox(C)])

GetOverviewSpeedBoxplot(request, w, user, filter, dimension) ==
    SpeedBoxplot(Selected(request, w, Own(user, filter)),
                 LAMBDA r : GroupKey(r, dimension, OwnDims))

ListOverviewSpeedDistributionSeries(request, w, user, filter, dimension, width) ==
    SpeedSeries(Selected(request, w, Own(user, filter)),
                LAMBDA r : GroupKey(r, dimension, OwnDims), width, w.from)

Succeeded(o) == o.reason = 3 /\ ~o.empty

GetOverviewUpstreamSuccessTotals(outcomes, w, user, filter) ==
    LET ended == {o \in Selected(outcomes, w, Own(user, filter)) :
                    o.type = 1 /\ o.path \in CompletionPaths}
    IN [successful |-> Requests({o \in ended : Succeeded(o)}), total |-> Requests(ended)]

ListOverviewOutcomeSeries(outcomes, w, user, filter, dimension) ==
    GroupBy({o \in Selected(outcomes, w, Own(user, filter)) : o.path \in CompletionPaths},
            LAMBDA o : [at |-> o.at, key |-> GroupKey(o, dimension, OwnDims), type |-> o.type,
                        reason |-> o.reason, empty |-> o.empty],
            LAMBDA k, C : [at |-> k.at, key |-> k.key, type |-> k.type, reason |-> k.reason,
                           empty |-> k.empty, requests |-> Requests(C)])

----------------------------------------------------------------------------
(* The queries of an administrator: the filter may name a user, the key    *)
(* and project of a request are left out.                                  *)

\* Mutant: two users' traces of one span count once.
CountAdminTraces_BySpan(traces, w, filter) ==
    Cardinality({t.span : t \in {x \in TracesIn(traces, w) :
                    "user" \in DOMAIN filter => x.user = filter["user"]}})

CountAdminTraces(traces, w, filter) ==
    Cardinality({t \in TracesIn(traces, w) :
                    "user" \in DOMAIN filter => t.user = filter["user"]})

CountAdminTracesFiltered(traces, request, w, filter) ==
    Cardinality({t \in TracesIn(traces, w) : Holds(t, request, filter)})

GetAdminOverviewTotals(view, w, filter) == Totals(Selected(view, w, filter))

GetAdminOverviewTokenBreakdown(view, w, filter) == TokenBreakdown(Selected(view, w, filter))

ListAdminOverviewBreakdownTokens(view, w, filter) ==
    BreakdownTokens(Selected(view, w, filter), AdminDims)

ListAdminOverviewBreakdownCosts(view, w, filter) ==
    BreakdownCosts(Selected(view, w, filter), AdminDims)

ListAdminOverviewDistribution(view, w, filter, dimension) ==
    Distribution(Selected(view, w, filter), LAMBDA b : GroupKey(b, dimension, AdminDims))

ListAdminOverviewDistributionCosts(view, w, filter, dimension) ==
    DistributionCosts(Selected(view, w, filter), LAMBDA b : GroupKey(b, dimension, AdminDims))

ListAdminOverviewTraceCountsByDimension(request, w, filter, dimension) ==
    TraceCounts(Selected(request, w, filter), LAMBDA r : GroupKey(r, dimension, AdminDims))

ListAdminOverviewSeriesMetrics(view, w, filter, dimension) ==
    SeriesMetrics(Selected(view, w, filter), LAMBDA b : GroupKey(b, dimension, AdminDims))

ListAdminOverviewSeriesTraces(request, w, filter, dimension, width) ==
    SeriesTraces(Selected(request, w, filter), LAMBDA r : GroupKey(r, dimension, AdminDims),
                 width, w.from)

ListAdminOverviewCacheHitRateSeries(view, w, filter, dimension) ==
    CacheHitRateSeries(Selected(view, w, filter),
                       LAMBDA b : GroupKey(b, dimension, AdminDims))

GetAdminOverviewSpeedBoxplot(request, w, filter, dimension) ==
    SpeedBoxplot(Selected(request, w, filter), LAMBDA r : GroupKey(r, dimension, AdminDims))

ListAdminOverviewSpeedDistributionSeries(request, w, filter, dimension, width) ==
    SpeedSeries(Selected(request, w, filter), LAMBDA r : GroupKey(r, dimension, AdminDims),
                width, w.from)
=============================================================================
