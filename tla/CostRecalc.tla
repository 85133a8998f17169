----------------------------- MODULE CostRecalc -----------------------------
(***************************************************************************)
(* The recalculation of a model's costs by an administrator                *)
(* (pkg/server/handle_model_cost_recalc.go) among what goes on meanwhile:  *)
(* requests that finish and bill themselves (costsFor), prices that        *)
(* change, another administrator who recalculates, and the refresh policy  *)
(* of the aggregate the overview reads.  Each query is a step of its own,  *)
(* and no transaction spans two.                                           *)
(***************************************************************************)
EXTENDS RequestQueries

CONSTANTS Million,
          Prices,     \* what the model's pricing may become, None included
          Admins,
          Starts,     \* the lower bounds of windows asked for
          Now,        \* the minute all of this happens in
          BatchSize,
          Width,      \* of a bucket of the aggregate
          Horizon,    \* how far back the refresh policy reaches
          BilledRows, \* the rows at the start: finished, billed at FirstPrice
          FirstPrice,
          OpenRows,   \* rows in flight
          Used,       \* the tokens a request has used when it ends
          MaxChanges  \* of the price, the bound of the instance

P == INSTANCE Pricing

Model == "m"

\* The rows are the model's.
ASSUME RowsAssumption ==
    /\ IsTable(BilledRows \cup OpenRows)
    /\ \A r \in BilledRows \cup OpenRows : r.equal["model"] = Model
    /\ \A r \in BilledRows : r.reason # None
    /\ \A r \in OpenRows : r.reason = None
ASSUME StartsAssumption == Starts \subseteq Int \cup {None}
ASSUME NumbersAssumption ==
    /\ Now \in Nat /\ Width \in Nat \ {0} /\ BatchSize \in Nat \ {0}
ASSUME PricesAreValid == \A p \in Prices \cup {FirstPrice} : p = None \/ P!Valid(p)

VARIABLES bill,      \* the request table
          price,     \* the model's row: its pricing
          changes,
          gw,        \* for each row in flight: the pricing its finish has read
          job,       \* for each administrator: the recalculation
          shown,     \* the materialized buckets: costs by currency
          watermark  \* the aggregate is materialized below, live above
costVars == <<bill, price, changes, gw, job, shown, watermark>>

Currencies == {p.currency : p \in (Prices \cup {FirstPrice}) \ {None}}
Buckets == {b \in 0..Now : b % Width = 0}

Cost(p, r) == P!ComputeCost(p, r.tokens)
Billed(p, r) == [r EXCEPT !.cost = Cost(p, r),
                          !.currency = IF Unset(Cost(p, r)) THEN None ELSE p.currency]

\* request_overview_bucketed, its costs.
InBucket(rows, b) == {r \in rows : r.at \in b..(b + Width - 1)}
TotalCost(rows) == MapThenSumSet(LAMBDA r : OrZero(r.cost), rows)
BucketCost(rows, b) ==
    [c \in Currencies |-> TotalCost({r \in InBucket(rows, b) : r.currency = c})]

OverviewCost(b) == IF b < watermark THEN shown[b] ELSE BucketCost(bill, b)

NoJob == [pc |-> "idle", price |-> None, from |-> None, cursor |-> None, batch |-> <<>>,
          updated |-> 0, refreshed |-> FALSE, clean |-> FALSE, late |-> {}]

CostInit ==
    /\ bill = {Billed(FirstPrice, r) : r \in BilledRows} \cup OpenRows
    /\ price = FirstPrice /\ changes = 0
    /\ gw = [id \in {r.id : r \in OpenRows} |-> [pc |-> "open", price |-> None]]
    /\ job = [a \in Admins |-> NoJob]
    /\ watermark = Now - (Now % Width)
    /\ shown = [b \in Buckets |-> BucketCost({Billed(FirstPrice, r) : r \in BilledRows}, b)]

----------------------------------------------------------------------------
(* clean and late are kept for the properties.  A recalculation is clean   *)
(* as long as nothing else decides costs by another pricing: no request    *)
(* held one it had read before, no other recalculation overlapped and the  *)
(* price stayed.  late are the buckets a request ended in afterwards.      *)

Running(a) == job[a].pc \in {"scan", "write", "refresh"}

Soiled(jobs) == [a \in Admins |-> [jobs[a] EXCEPT !.clean = FALSE]]

\* handleUpsertModel.
ChangePrice ==
    /\ changes < MaxChanges
    /\ \E p \in Prices \ {price} : price' = p
    /\ changes' = changes + 1 /\ job' = Soiled(job)
    /\ UNCHANGED <<bill, gw, shown, watermark>>

\* costsFor: GetModelByName at the end of a request; a failed query leaves
\* the request unbilled.
ReadPrice ==
    \E id \in DOMAIN gw :
        /\ gw[id].pc = "open"
        /\ \/ gw' = [gw EXCEPT ![id] = [pc |-> "read", price |-> price]] /\ UNCHANGED job
           \/ gw' = [gw EXCEPT ![id] = [pc |-> "read", price |-> None]]
              /\ job' = IF price = None THEN job ELSE Soiled(job)
        /\ UNCHANGED <<bill, price, changes, shown, watermark>>

\* The finishing update: reason, tokens and cost in one statement.
Finish ==
    \E r \in bill :
        /\ r.id \in DOMAIN gw /\ gw[r.id].pc = "read"
        /\ LET ended == Billed(gw[r.id].price, [r EXCEPT !.reason = EOF, !.tokens = Used])
           IN bill' = UpdateRequest(bill, r.id, r.at,
                          [reason |-> EOF, tokens |-> Used,
                           cost |-> ended.cost, currency |-> ended.currency])
        /\ gw' = [gw EXCEPT ![r.id].pc = "written"]
        /\ job' = [a \in Admins |-> [job[a] EXCEPT !.late = @ \cup {b \in Buckets : r \in InBucket({r}, b)}]]
        /\ UNCHANGED <<price, changes, shown, watermark>>

----------------------------------------------------------------------------
(* handleRecalculateModelCosts.                                            *)

Others(a) == {b \in Admins \ {a} : Running(b)}
Unread == \A id \in DOMAIN gw : gw[id].pc = "read" => gw[id].price = price

\* GetModelByName; a model without pricing is refused.
Begin(a) ==
    /\ job[a].pc = "idle"
    /\ \E from \in Starts :
        job' = IF price = None THEN [job EXCEPT ![a].pc = "refused"]
               ELSE [(IF Others(a) = {} THEN job ELSE Soiled(job)) EXCEPT
                       ![a] = [@ EXCEPT !.pc = "scan", !.price = price, !.from = from,
                                        !.clean = Others(a) = {} /\ Unread]]
    /\ UNCHANGED <<bill, price, changes, gw, shown, watermark>>

ListBatch(a) ==
    /\ job[a].pc = "scan"
    /\ LET rows == ListRequestCostRecalcBatch(bill, Model, job[a].from, Now, job[a].cursor, BatchSize)
       IN job' = [job EXCEPT ![a].batch = rows,
                             ![a].pc = IF rows = <<>> THEN "refresh" ELSE "write"]
    /\ UNCHANGED <<bill, price, changes, gw, shown, watermark>>

\* UpdateRequestCosts with what the listed rows cost at the pricing read first.
WriteBatch(a) ==
    /\ job[a].pc = "write"
    /\ LET batch == job[a].batch
           costs == [id \in {batch[i].id : i \in DOMAIN batch} |->
                        Cost(job[a].price, CHOOSE r \in ToSet(batch) : r.id = id)]
           last == batch[Len(batch)]
       IN /\ bill' = UpdateRequestCosts(bill, job[a].price.currency, costs)
          /\ job' = [job EXCEPT ![a].updated = @ + Len(batch), ![a].batch = <<>>,
                                ![a].cursor = [at |-> last.at, id |-> last.id],
                                ![a].pc = IF Len(batch) < BatchSize THEN "refresh" ELSE "scan"]
    /\ UNCHANGED <<price, changes, gw, shown, watermark>>

\* A failed query, or a client that left: what is written stays.
Abort(a) ==
    /\ job[a].pc \in {"scan", "write"}
    /\ job' = Soiled([job EXCEPT ![a].pc = "failed"])
    /\ UNCHANGED <<bill, price, changes, gw, shown, watermark>>

\* refresh_continuous_aggregate: the buckets that lie in the window whole.
Materialized(from, to) ==
    [b \in Buckets |-> IF (Unset(from) \/ b >= from) /\ b + Width <= to
                       THEN BucketCost(bill, b) ELSE shown[b]]

\* Mutant: the window ends where the refresh policy's begins.
RefreshOverview_LeavesToPolicy(a) ==
    /\ shown' = Materialized(Max({Now - Horizon, OrZero(job[a].from)}), Now + Width)
    /\ watermark' = Max(Buckets) + Width
    /\ job' = [job EXCEPT ![a].pc = "done", ![a].refreshed = TRUE, ![a].late = {}]

\* RefreshRequestOverviewBucketed from the window's start to the newest row.
RefreshOverview(a) ==
    /\ shown' = Materialized(job[a].from, Now + Width)
    /\ watermark' = Max(Buckets) + Width
    /\ job' = [job EXCEPT ![a].pc = "done", ![a].refreshed = TRUE, ![a].late = {}]

\* A failure of the refresh is only logged; nothing written, nothing refreshed.
Refresh(a) ==
    /\ job[a].pc = "refresh"
    /\ \/ job[a].updated > 0 /\ RefreshOverview(a)
       \/ job' = [job EXCEPT ![a].pc = "done"] /\ UNCHANGED <<shown, watermark>>
    /\ UNCHANGED <<bill, price, changes, gw>>

\* The policy of the aggregate, which never reaches back behind its horizon.
PolicyRefresh ==
    /\ shown' = Materialized(Now - Horizon, Now)
    /\ watermark' = Max({watermark, Now - (Now % Width)})
    /\ <<shown, watermark>>' # <<shown, watermark>>
    /\ UNCHANGED <<bill, price, changes, gw, job>>

CostNext ==
    \/ ChangePrice \/ ReadPrice \/ Finish \/ PolicyRefresh
    \/ \E a \in Admins : Begin(a) \/ ListBatch(a) \/ WriteBatch(a) \/ Abort(a) \/ Refresh(a)

CostSpec == CostInit /\ [][CostNext]_costVars

----------------------------------------------------------------------------
(* Properties.                                                             *)

InWindow(a) == {r \in bill : (Unset(job[a].from) \/ r.at >= job[a].from) /\ r.at < Now}

\* After a recalculation that nothing disturbed, every finished row of its
\* window costs what the model's pricing says: those it rewrote and those
\* whose requests ended while it ran.
RecalcReprices ==
    \A a \in Admins :
        job[a].pc = "done" /\ job[a].clean =>
            \A r \in InWindow(a) : ~Unset(r.reason) => r.cost = Cost(price, r)

\* And the overview shows those costs, also of buckets older than the
\* refresh policy reaches, in every bucket that begins in the window and in
\* which no request ended since.
OverviewShowsRecalc ==
    \A a \in Admins :
        job[a].pc = "done" /\ job[a].clean /\ job[a].refreshed =>
            \A b \in Buckets \ job[a].late :
                Unset(job[a].from) \/ b >= job[a].from => OverviewCost(b) = BucketCost(bill, b)

\* What specs/2026-09-19-model-cost-recalc/design.md says of two
\* recalculations at once ("they compute the same values, the later commit
\* overwrites the earlier, the result is consistent"): once both have
\* completed over the whole history and every request is written, one
\* pricing explains all costs.
CostsConverge ==
    (\A a \in Admins : job[a].pc = "done" /\ Unset(job[a].from)) =>
        \E p \in Prices \cup {FirstPrice} :
            \A r \in bill : ~Unset(r.reason) /\ r.id \notin DOMAIN gw => r.cost = Cost(p, r)
=============================================================================
