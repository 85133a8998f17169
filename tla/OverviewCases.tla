--------------------------- MODULE OverviewCases ---------------------------
(***************************************************************************)
(* The overview pages over a table that gateway requests fill row by row:  *)
(* every page asked in every state, and what the pages must agree on.      *)
(***************************************************************************)
EXTENDS OverviewHandlers

CONSTANTS
    Pool,      \* the rows that may be inserted
    MaxRows,   \* bound: how many of them are
    Users,
    Asked,     \* the requests made, without user, range and bucket
    Ranges,    \* the ranges asked for
    Widths,    \* the bucket keys asked for
    Now        \* the time of the handlers' clock

\* An upstream request is some user's; no row is stamped after the handlers'
\* clock; counts are not negative, times are numbers.
ASSUME PoolAssumption ==
    \A r \in Pool :
        /\ r.at \in Int /\ r.at <= Now /\ r.type \in {0, 1} /\ r.cost \in Int
        /\ \A kind \in Kinds : r.tokens[kind] \in Nat \cup {NullNumber}
        /\ r.ttft \in Int /\ r.time \in Int
        /\ r.dims["user"] \in Users \cup {NullName}
        /\ r.type = 1 => r.dims["user"] \in Users
ASSUME UsersAssumption == IsFiniteSet(Users) /\ NullName \notin Users
ASSUME RangesAssumption ==
    \A range \in Ranges : range.key = "custom" => range.from \in Int /\ range.to \in Int
ASSUME NowAssumption == Now \in Int

VARIABLES
    request,   \* the request table
    traces,    \* the traces table
    behind     \* the rows whose trace has not been upserted: not yet, or never,
               \* since a failure is only logged

vars == <<request, traces, behind>>

Traces == INSTANCE TraceTable WITH NoSpan <- NullName, NoUser <- NullName

data == [request |-> request, traces |-> traces]

Init ==
    /\ request = {}
    /\ traces = {}
    /\ behind = {}

\* Server.insertRequest, two statements of which the first commits: the row,
InsertRequest(r) ==
    /\ r \notin request
    /\ Cardinality(request) < MaxRows
    /\ request' = request \cup {r}
    /\ behind' = behind \cup {x \in {r} : x.span # NullName /\ x.dims["user"] # NullName}
    /\ UNCHANGED traces

\* and upsertTrace, later, after another row's, or never.
UpsertTrace(r) ==
    /\ r \in behind
    /\ behind' = behind \ {r}
    /\ traces' = Traces!UpsertTrace(traces, r.span, r.dims["user"], r.at)
    /\ UNCHANGED request

Next == \E r \in Pool : InsertRequest(r) \/ UpsertTrace(r)

Spec == Init /\ [][Next]_vars

----------------------------------------------------------------------------

Ask(in, user, range, bucket) ==
    [dimension |-> in.dimension, filter |-> in.filter, user |-> user, range |-> range, bucket |-> bucket]

\* Every question of users and of an administrator, who logs in elsewhere.
Questions(asked, users) ==
    {Ask(in, u, range, b) : in \in asked, u \in users, range \in Ranges, b \in Widths}
OwnQuestions == Questions({in \in Asked : DOMAIN in.filter \subseteq OwnDims}, Users)
AdminQuestions == Questions({in \in Asked : DOMAIN in.filter \subseteq AdminDims}, {NullName})

\* The question as user u would ask it.
As(u, in) == [in EXCEPT !.user = u, !.filter = [d \in DOMAIN @ \ {"user"} |-> @[d]]]

\* The same window for a page that aligns to hours: the custom range of w.
Same(w) == [key |-> "custom", from |-> w.from, to |-> w.to]

ValueOf(points, metric) == Sum(LAMBDA p : p.value, {p \in points : p.metric = metric})
CostOf(rows, currency) == Sum(LAMBDA c : c.amount, {c \in rows : c.currency = currency})

\* The bars of a series, whatever its bucket width, its dimension and the
\* alignment of its window, add up to the totals of the summary over the
\* same window: no bucket is dropped or counted twice by the folding.
BarsAddUp ==
    \A in \in OwnQuestions : \A series \in GetOverviewSeries(data, in, Now) :
    \A summary \in GetOverviewSummary(data, [in EXCEPT !.range = Same(series.window)], Now) :
        /\ ValueOf(series.points, "tokens") = summary.totals.tokens
        /\ ValueOf(series.points, "requests") = summary.totals.requests
        /\ \A c \in summary.totals.costs :
            Sum(LAMBDA p : p.value, {p \in series.points : p.metric = "cost" /\ p.currency = c.currency})
                = c.amount

\* The success rate of the summary is the weighted mean of the outcome
\* series over the same window, and without a dimension the shares of the
\* finish reasons of a bucket make up all of its upstream requests.
OutcomesAddUp ==
    \A in \in OwnQuestions : \A series \in GetOverviewOutcomeSeries(data, in, Now) :
    \A summary \in GetOverviewSummary(data, [in EXCEPT !.range = Same(series.window)], Now) :
        LET Of(metric) == {p \in series.points : p.metric = metric}
            up == Of("upstreamSuccessRate")
        IN /\ Sum(LAMBDA p : p.total, up) = summary.success.total
           /\ Sum(LAMBDA p : p.count, up) = summary.success.successful
           /\ in.dimension = "none" =>
                \A p \in up :
                    p.total = Sum(LAMBDA q : q.count, {q \in Of("finishReasonShare") : q.at = p.at})

\* A series agrees with the summary over its window, bars and ratios alike.
SeriesAddUp == BarsAddUp /\ OutcomesAddUp

\* The rows of the distribution and of the breakdown add up to the totals of
\* the summary, the costs in each currency too: merging the token rows with
\* the cost rows loses neither requests without cost nor ones without tokens.
RowsAddUp ==
    \A in \in OwnQuestions : \A summary \in GetOverviewSummary(data, in, Now) :
    \A page \in GetOverviewDistribution(data, in, Now) :
        /\ Sum(LAMBDA r : r.tokens, page.rows) = summary.totals.tokens
        /\ Sum(LAMBDA r : r.requests, page.rows) = summary.totals.requests
        /\ Sum(LAMBDA r : r.tokens, summary.breakdown) = summary.totals.tokens
        /\ Sum(LAMBDA k : summary.tokenBreakdown[k], Kinds) = summary.totals.tokens
        /\ \A c \in summary.totals.costs :
            /\ Sum(LAMBDA r : CostOf(r.costs, c.currency), page.rows) = c.amount
            /\ Sum(LAMBDA r : CostOf(r.costs, c.currency), summary.breakdown) = c.amount

\* Of the users who have upstream requests no two share 32 bits of their ids.
IdsApart ==
    LET busy == {r.dims["user"] : r \in {q \in request : q.type = 1}}
    IN \A u, v \in busy : Int32[u] = Int32[v] => u = v

\* What an administrator sees is what the users see together, of a filter's
\* user what that one sees: the totals, the bars of the series and, where no
\* filter names a user, the traces (with such a filter the administrator's
\* count leaves out traces without an upstream request).  The breakdown never
\* shows more than the totals, and all of them unless two users' ids are the
\* same in 32 bits: then it loses what the overwritten rows said.
AdminSeesAll ==
    \A in \in AdminQuestions :
        LET Seen == {u \in Users : "user" \in DOMAIN in.filter => u = in.filter["user"]}
        IN /\ \A all \in GetAdminOverviewSummary(data, in, Now) :
                LET Of(u) == CHOOSE s \in GetOverviewSummary(data, As(u, in), Now) : TRUE
                    shown == Sum(LAMBDA r : r.tokens, all.breakdown)
                IN /\ all.totals.tokens = Sum(LAMBDA u : Of(u).totals.tokens, Seen)
                   /\ all.totals.requests = Sum(LAMBDA u : Of(u).totals.requests, Seen)
                   /\ "user" \in DOMAIN in.filter \/ all.traces = Sum(LAMBDA u : Of(u).traces, Users)
                   /\ shown <= all.totals.tokens
                   /\ IdsApart => shown = all.totals.tokens
                   /\ all.totals.tokens = Sum(LAMBDA k : all.tokenBreakdown[k], Kinds)
           /\ \A all \in GetAdminOverviewDistribution(data, in, Now) :
                LET Of(u) == CHOOSE s \in GetOverviewSummary(data, As(u, in), Now) : TRUE
                IN Sum(LAMBDA r : r.requests, all.rows) = Sum(LAMBDA u : Of(u).totals.requests, Seen)
           /\ \A all \in GetAdminOverviewSeries(data, in, Now) :
                LET Of(u) == CHOOSE s \in GetOverviewSeries(data, As(u, in), Now) : TRUE
                IN ValueOf(all.points, "tokens") = Sum(LAMBDA u : ValueOf(Of(u).points, "tokens"), Seen)

\* The box plot and the decode-speed boxes of the series are made of the same
\* samples, which two queries select separately: over one window each
\* group's counts and minimum agree, and every box is ordered.
SpeedsAgree ==
    LET Ordered(box) == box.min <= box.p25 /\ box.p25 <= box.median /\ box.median <= box.p95
                        /\ box.p95 <= box.top
        Count(points) == Sum(LAMBDA p : p.box.count, {p \in points : p.metric = "decodeSpeed"})
    IN \A in \in OwnQuestions : \A series \in GetOverviewSpeedSeries(data, in, Now) :
       \A plot \in GetOverviewSpeedBoxplots(data, [in EXCEPT !.range = Same(series.window)], Now) :
        /\ \A p \in series.points : Ordered(p.box) /\ p.at \in Buckets(series.window, series.width)
        /\ \A item \in plot.items :
            LET Mine == {p \in series.points : p.key = item.key /\ p.metric = "decodeSpeed"}
            IN /\ Ordered(item.box)
               /\ item.box.count = Count(Mine)
               /\ item.box.min = Min({p.box.min : p \in Mine})
        /\ Count(series.points) = Sum(LAMBDA item : item.box.count, plot.items)

\* A backfill brings the traces table to what the rows alone make of it,
\* however many upserts are late or have failed; if none has, the table is
\* that already.
BoundsAgree ==
    LET Bounds(T) == {[span |-> t.span, user |-> t.user, first |-> t.first, last |-> t.last] : t \in T}
        rows == {[span |-> r.span, user |-> r.dims["user"], at |-> r.at] : r \in request}
        rebuilt == Bounds(Traces!BackfillTraces({}, rows))
    IN /\ Bounds(Traces!BackfillTraces(traces, rows)) = rebuilt
       /\ behind = {} => Bounds(traces) = rebuilt

\* Over one window every bar of the traces counts no more than its group in
\* the distribution, which counts no more than all its bars; a window that
\* reaches the present counts at least as many in its summary, but for the
\* user's spans that have no trace, or too short a one, for want of an upsert.
CountsAgree ==
    \A in \in OwnQuestions : \A series \in GetOverviewSeries(data, in, Now) :
        LET there == [in EXCEPT !.range = Same(series.window)]
            Bars(key) == {p \in series.points : p.metric = "traces" /\ p.key = key}
            missing == {r.span : r \in {q \in behind : q.dims["user"] = in.user}}
        IN \A page \in GetOverviewDistribution(data, there, Now) :
           \A summary \in GetOverviewSummary(data, there, Now) : \A row \in page.rows :
            /\ \A p \in Bars(row.key) : p.value <= row.traces
            /\ row.traces <= Sum(LAMBDA p : p.value, Bars(row.key))
            /\ series.window.to > Now => row.traces <= summary.traces + Cardinality(missing)

\* The traces of the pages, and of the table they are counted in.
TracesAgree == BoundsAgree /\ CountsAgree
=============================================================================
