-------------------------- MODULE OverviewHandlers --------------------------
(***************************************************************************)
(* The handlers of the overview pages: pkg/server/handle_overview.go,      *)
(* handle_overview_outcome.go, handle_overview_speed_series.go and         *)
(* overview_breakdown.go for a user, handle_admin_overview.go and          *)
(* admin_overview_breakdown.go for an administrator.                       *)
(*                                                                         *)
(* Times are minutes.  A request in is a record of user (NullName when     *)
(* nobody is logged in), range, bucket, dimension and filter; data is the  *)
(* request table and the traces table.  A handler yields the set of its    *)
(* answers: empty when it refuses the request, else one record.  The       *)
(* aggregates are taken to be current; CostRecalc is about when they are.  *)
(* Ratios are pairs of numerator and denominator.                          *)
(***************************************************************************)
EXTENDS OverviewQueries

CONSTANT Int32   \* what 32 bits leave of a user's id, a BIGSERIAL

Hour == 60
Day == 24 * Hour

Lookback == [key \in {"1d", "7d", "1m"} |->
               CASE key = "1d" -> Day [] key = "7d" -> 7 * Day [] OTHER -> 30 * Day]

\* The automatic width: an hour up to 36 hours, four up to 8 days, else eight.
AutoBucket(span) ==
    IF span <= 36 * Hour THEN Hour ELSE IF span <= 8 * Day THEN 4 * Hour ELSE 8 * Hour

\* The widths a bucket key stands for: none when it is refused.
SeriesBucket(bucket, span) ==
    CASE bucket \in {"", "auto"} -> {AutoBucket(span)}
      [] bucket = "10m" -> {width \in {10} : span <= 7 * Day}
      [] bucket = "1h" -> {Hour}
      [] bucket = "6h" -> {6 * Hour}
      [] bucket = "12h" -> {12 * Hour}
      [] bucket = "24h" -> {Day}
      [] OTHER -> {}

\* Both ends are required, the start before the end.
CustomWindow(range) ==
    {w \in {[from |-> range.from, to |-> range.to]} :
        w.from # NullNumber /\ w.to # NullNumber /\ w.from < w.to}

PresetWindow(range, now, align) ==
    LET end == now - (now % align) + align
    IN {[from |-> end - Lookback[key], to |-> end] : key \in {range.key} \cap DOMAIN Lookback}

OverviewWindow(range, now, align) ==
    IF range.key = "custom" THEN CustomWindow(range)
    ELSE PresetWindow(range, now, Max({align, Hour}))

SeriesWindow(range, bucket, now) ==
    IF range.key = "custom"
    THEN UNION {{[w |-> w, width |-> width] : width \in SeriesBucket(bucket, w.to - w.from)} :
                  w \in CustomWindow(range)}
    ELSE UNION {{[w |-> w, width |-> width] : w \in PresetWindow(range, now, Min({width, Hour}))} :
                  width \in UNION {SeriesBucket(bucket, Lookback[key]) :
                                     key \in {range.key} \cap DOMAIN Lookback}}

Buckets(w, width) ==
    {w.from + i * width : i \in 0..((w.to - w.from - 1) \div width)}

\* Mutant: buckets aligned to the clock instead of the window's start.
BucketAt_Clock(start, at, width) == (at \div width) * width

\* overviewBucketAt: the display bucket of a source bucket.
BucketAt(start, at, width) ==
    IF at <= start THEN start ELSE start + ((at - start) \div width) * width

LoggedIn(in) == in.user # NullName
HasFilters(filter) == DOMAIN filter # {}

\* A key's costs, one for each currency.
CostsOf(costRows, key) ==
    {[currency |-> c.currency, amount |-> c.amount] : c \in {d \in costRows : d.key = key}}

\* Mutant: a cost without a token row is dropped.
MergeBreakdown_TokensOnly(tokenRows, costRows) ==
    {[key |-> t.key, tokens |-> t.tokens,
      costs |-> CostsOf(costRows, t.key)] : t \in tokenRows}

\* mergeBreakdown: a row for each key of either query.
MergeBreakdown(tokenRows, costRows) ==
    {[key |-> k,
      tokens |-> Sum(LAMBDA t : t.tokens, {t \in tokenRows : t.key = k}),
      costs |-> CostsOf(costRows, k)] :
     k \in {t.key : t \in tokenRows} \cup {c.key : c \in costRows}}

\* The narrowed key, int32(t.UserID).
Narrowed(key) == [key EXCEPT !["user"] = Int32[@]]

\* mergeAdminBreakdown: of the token rows with a key the last remains, and the
\* query states no order: it may be any.  Their costs are appended, each row's
\* own (of keeps equal ones apart).
MergeAdminBreakdown(tokenRows, costRows) ==
    LET Tokened(k) == {t \in tokenRows : Narrowed(t.key) = k}
        Costed(k) == {c \in costRows : Narrowed(c.key) = k}
    IN {[key |-> k,
         tokens |-> IF Tokened(k) = {} THEN 0 ELSE (CHOOSE t \in Tokened(k) : TRUE).tokens,
         costs |-> {[of |-> c.key, currency |-> c.currency, amount |-> c.amount] : c \in Costed(k)}] :
        k \in {Narrowed(row.key) : row \in tokenRows \cup costRows}}

SuccessRate(totals) ==
    [successful |-> totals.successful, total |-> totals.total,
     rate |-> IF totals.total > 0 THEN <<totals.successful, totals.total>> ELSE <<0, 1>>]

DistributionRows(rows, costRows, traceRows) ==
    {[key |-> r.key, tokens |-> r.tokens, requests |-> r.requests,
      traces |-> Sum(LAMBDA t : t.traces, {t \in traceRows : t.key = r.key}),
      costs |-> CostsOf(costRows, r.key)] : r \in rows}

\* The rows of a group whose bucket is folded into the display bucket at.
InBucket(rows, w, width, at, key) ==
    {r \in rows : BucketAt(w.from, r.at, width) = at /\ r.key = key}

Point(metric, at, key, currency, value) ==
    [metric |-> metric, at |-> at, key |-> key, currency |-> currency, value |-> value]

Currencies(metricRows, key) == {r.currency : r \in {q \in metricRows : q.key = key}} \ {Empty}

\* A group's points in a display bucket: sums, the hit rate divided once.
PointsAt(metrics, traces, cache, currencies, at, key) ==
    LET input == Sum(LAMBDA r : r.input, cache)
    IN {Point("tokens", at, key, Empty, Sum(LAMBDA r : r.tokens, metrics)),
        Point("requests", at, key, Empty, Sum(LAMBDA r : r.requests, metrics)),
        Point("traces", at, key, Empty, Sum(LAMBDA r : r.traces, traces))}
       \cup {Point("cacheHitRate", at, key, Empty, <<Sum(LAMBDA r : r.read, cache), input>>) :
               i \in {input} \ {0}}
       \cup {Point("cost", at, key, c, Sum(LAMBDA r : r.cost, {r \in metrics : r.currency = c})) :
               c \in currencies}

\* The folding of source buckets into display buckets, each filled in for
\* every group.
SeriesPoints(metricRows, traceRows, cacheRows, w, width) ==
    LET seen == {r.key : r \in metricRows} \cup {r.key : r \in traceRows}
                \cup {r.key : r \in cacheRows}
        groups == IF seen = {} THEN {Empty} ELSE seen
        At(at, key) == PointsAt(InBucket(metricRows, w, width, at, key),
                                InBucket(traceRows, w, width, at, key),
                                InBucket(cacheRows, w, width, at, key),
                                Currencies(metricRows, key), at, key)
    IN [window |-> w, width |-> width, groups |-> groups,
        points |-> UNION {At(at, key) : at \in Buckets(w, width), key \in groups}]

OfType(rows, type) == {r \in rows : r.type = type}
Successes(rows) == {r \in rows : Succeeded(r)}

\* A ratio's point: none where nothing is counted.  The category is the
\* finish reason's number, NullNumber for a ratio without one.
Ratio(metric, at, key, category, counted, all) ==
    {[metric |-> metric, at |-> at, key |-> key, category |-> category,
      count |-> Requests(counted), total |-> total] : total \in {Requests(all)} \ {0}}

UpstreamRatios(up, at, key) ==
    Ratio("upstreamSuccessRate", at, key, NullNumber, Successes(up), up)
    \cup Ratio("emptyResponseRate", at, key, NullNumber, {r \in up : r.empty}, up)
DownstreamRatios(down, at, key) ==
    Ratio("downstreamSuccessRate", at, key, NullNumber, Successes(down), down)
ReasonShare(up, at, reason) ==
    Ratio("finishReasonShare", at, Empty, reason, {r \in up : r.reason = reason}, up)

\* buildOutcomeSeries: four ratios from the same rows, counted per bucket and
\* group and divided once; the shares of the finish reasons only without a
\* dimension.
OutcomePoints(rows, w, width, dimension) ==
    LET Groups(type) == IF dimension = "none" THEN {Empty} ELSE {r.key : r \in OfType(rows, type)}
        reasons == IF dimension = "none" THEN {r.reason : r \in OfType(rows, 1)} ELSE {}
        In(type, at, key) == InBucket(OfType(rows, type), w, width, at, key)
    IN [window |-> w, width |-> width,
        upstream |-> Groups(1), downstream |-> Groups(0), reasons |-> reasons,
        points |->
            (UNION {UpstreamRatios(In(1, at, key), at, key) :
                      at \in Buckets(w, width), key \in Groups(1)})
            \cup (UNION {DownstreamRatios(In(0, at, key), at, key) :
                           at \in Buckets(w, width), key \in Groups(0)})
            \cup (UNION {ReasonShare(In(1, at, Empty), at, reason) :
                           at \in Buckets(w, width), reason \in reasons})]

\* Every query row is one point; nothing is filled in.
SpeedPoints(rows, w, width) ==
    [window |-> w, width |-> width, groups |-> {r.key : r \in rows},
     points |-> {[r EXCEPT !.at = BucketAt(w.from, r.at, width)] : r \in rows}]

----------------------------------------------------------------------------
(* The handlers of a user, who is logged in.                               *)

OwnWindow(in, now) == IF LoggedIn(in) THEN OverviewWindow(in.range, now, Hour) ELSE {}
OwnSeriesWindow(in, now) == IF LoggedIn(in) THEN SeriesWindow(in.range, in.bucket, now) ELSE {}

GetOverviewSummary(data, in, now) ==
    LET view == RequestOverviewBucketed(data.request)
        Answer(w) ==
            [window |-> w,
             totals |-> GetOverviewTotals(view, w, in.user, in.filter),
             tokenBreakdown |-> GetOverviewTokenBreakdown(view, w, in.user, in.filter),
             breakdown |-> MergeBreakdown(ListOverviewBreakdownTokens(view, w, in.user, in.filter),
                                          ListOverviewBreakdownCosts(view, w, in.user, in.filter)),
             success |-> SuccessRate(GetOverviewUpstreamSuccessTotals(
                             RequestOutcomeBucketed(data.request), w, in.user, in.filter)),
             traces |-> IF HasFilters(in.filter)
                        THEN CountTracesFiltered(data.traces, data.request, w, in.user, in.filter)
                        ELSE CountTraces(data.traces, w, in.user)]
    IN {Answer(w) : w \in OwnWindow(in, now)}

GetOverviewDistribution(data, in, now) ==
    LET view == RequestOverviewBucketed(data.request)
    IN {[window |-> w,
         rows |-> DistributionRows(
                    ListOverviewDistribution(view, w, in.user, in.filter, in.dimension),
                    ListOverviewDistributionCosts(view, w, in.user, in.filter, in.dimension),
                    ListOverviewTraceCountsByDimension(data.request, w, in.user, in.filter,
                                                       in.dimension))] :
        w \in OwnWindow(in, now)}

GetOverviewSeries(data, in, now) ==
    LET view == RequestOverviewBucketed(data.request)
        Answer(w, width) ==
            SeriesPoints(ListOverviewSeriesMetrics(view, w, in.user, in.filter, in.dimension),
                         ListOverviewSeriesTraces(data.request, w, in.user, in.filter,
                                                  in.dimension, width),
                         ListOverviewCacheHitRateSeries(view, w, in.user, in.filter, in.dimension),
                         w, width)
    IN {Answer(s.w, s.width) : s \in OwnSeriesWindow(in, now)}

GetOverviewSpeedBoxplots(data, in, now) ==
    {[window |-> w,
      items |-> GetOverviewSpeedBoxplot(data.request, w, in.user, in.filter, in.dimension)] :
     w \in OwnWindow(in, now)}

GetOverviewOutcomeSeries(data, in, now) ==
    LET outcomes == RequestOutcomeBucketed(data.request)
        Answer(w, width) ==
            OutcomePoints(ListOverviewOutcomeSeries(outcomes, w, in.user, in.filter, in.dimension),
                          w, width, in.dimension)
    IN {Answer(s.w, s.width) : s \in OwnSeriesWindow(in, now)}

GetOverviewSpeedSeries(data, in, now) ==
    LET Answer(w, width) ==
            SpeedPoints(ListOverviewSpeedDistributionSeries(data.request, w, in.user, in.filter,
                                                            in.dimension, width), w, width)
    IN {Answer(s.w, s.width) : s \in OwnSeriesWindow(in, now)}

----------------------------------------------------------------------------
(* The handlers of an administrator; a middleware has let them through.    *)

GetAdminOverviewSummary(data, in, now) ==
    LET view == RequestOverviewBucketed(data.request)
        Answer(w) ==
            [window |-> w,
             totals |-> GetAdminOverviewTotals(view, w, in.filter),
             tokenBreakdown |-> GetAdminOverviewTokenBreakdown(view, w, in.filter),
             breakdown |-> MergeAdminBreakdown(ListAdminOverviewBreakdownTokens(view, w, in.filter),
                                               ListAdminOverviewBreakdownCosts(view, w, in.filter)),
             traces |-> IF HasFilters(in.filter)
                        THEN CountAdminTracesFiltered(data.traces, data.request, w, in.filter)
                        ELSE CountAdminTraces(data.traces, w, in.filter)]
    IN {Answer(w) : w \in OverviewWindow(in.range, now, Hour)}

GetAdminOverviewDistribution(data, in, now) ==
    LET view == RequestOverviewBucketed(data.request)
    IN {[window |-> w,
         rows |-> DistributionRows(
                    ListAdminOverviewDistribution(view, w, in.filter, in.dimension),
                    ListAdminOverviewDistributionCosts(view, w, in.filter, in.dimension),
                    ListAdminOverviewTraceCountsByDimension(data.request, w, in.filter,
                                                            in.dimension))] :
        w \in OverviewWindow(in.range, now, Hour)}

GetAdminOverviewSeries(data, in, now) ==
    LET view == RequestOverviewBucketed(data.request)
        Answer(w, width) ==
            SeriesPoints(ListAdminOverviewSeriesMetrics(view, w, in.filter, in.dimension),
                         ListAdminOverviewSeriesTraces(data.request, w, in.filter, in.dimension,
                                                       width),
                         ListAdminOverviewCacheHitRateSeries(view, w, in.filter, in.dimension),
                         w, width)
    IN {Answer(s.w, s.width) : s \in SeriesWindow(in.range, in.bucket, now)}

GetAdminOverviewSpeedBoxplots(data, in, now) ==
    {[window |-> w,
      items |-> GetAdminOverviewSpeedBoxplot(data.request, w, in.filter, in.dimension)] :
     w \in OverviewWindow(in.range, now, Hour)}

GetAdminOverviewSpeedSeries(data, in, now) ==
    LET Answer(w, width) ==
            SpeedPoints(ListAdminOverviewSpeedDistributionSeries(data.request, w, in.filter,
                                                                 in.dimension, width), w, width)
    IN {Answer(s.w, s.width) : s \in SeriesWindow(in.range, in.bucket, now)}
=============================================================================
