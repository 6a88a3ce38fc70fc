------------------------------ MODULE Reports -------------------------------
(***************************************************************************)
(* The reports on finalized sales and returns (internal/report,            *)
(* internal/dashboard and their queries): what the statements of a report  *)
(* read while sales and returns go on being projected, and how their rows  *)
(* are put together.                                                       *)
(*                                                                         *)
(* The statements of a report run one after the other, each on what is     *)
(* committed then.  A statement is modelled by the sales or returns it     *)
(* finds; what it groups them by, and the sums it makes, are operators on  *)
(* those.  A sale has one total; subtotals, taxes, costs and units are sums *)
(* of the same rows and are left out, and so are ranks and limits.  What a *)
(* row is labelled with (names, the parts of an address) is one value.     *)
(* During a report no operator rebuilds the derived tables or reopens a    *)
(* blocked event.                                                          *)
(***************************************************************************)
EXTENDS Integers, Sequences, FiniteSets, FiniteSetsExt, TLC

CONSTANTS
    Receipts,       \* finalized sales
    Refunds,        \* finalized returns
    Sold,           \* what is in a sale; version: of its event; pays: its payments
    Given,          \* what is in a return
    Shops,          \* Stores
    NoShop,         \* of events older than Stores, and of a report of all of them
    Periods,        \* sets of days
    RateUnit,       \* an exchange rate of 1; 10^6 in the code
    Readers         \* reports at work

\* Sums are those of function values, over a finite domain.
SumOf(rows) == MapThenSumSet(LAMBDA k : rows[k], DOMAIN rows)

\* A return gives back parts of lines of its own sale, and what is paid for a
\* sale is its total within 1, change ignored (checkPaymentAggregate).  No
\* amount is negative (Validate).
ASSUME ReportAssumption ==
    /\ NoShop \notin Shops /\ RateUnit \in Nat \ {0}
    /\ IsFiniteSet(Receipts) /\ IsFiniteSet(Refunds)
    /\ \A s \in Receipts :
        /\ Sold[s].total \in Nat /\ Sold[s].rate \in Nat
        /\ IsFiniteSet(Sold[s].lines) /\ \A l \in Sold[s].lines : l.total \in Nat
        /\ IsFiniteSet(Sold[s].pays) /\ \A p \in Sold[s].pays : p.amount \in Nat
        /\ SumOf([p \in Sold[s].pays |-> p.amount]) - Sold[s].total \in -1..1
    /\ \A r \in Refunds :
        /\ Given[r].sale \in Receipts /\ Given[r].rate \in Nat /\ IsFiniteSet(Given[r].lines)
        /\ \A g \in Given[r].lines : g.line \in Sold[Given[r].sale].lines /\ g.refund \in Nat

VARIABLES
    inboxed,    \* sync_events: the sales and returns Cloud has accepted
    booked,     \* sales_projection and return_refund_projection
    refused,    \* those whose processing is blocked
    report      \* reports at work

reportVars == <<inboxed, booked, refused, report>>
-----------------------------------------------------------------------------
\* The rows of a query: the sum of what[f] over the facts f of each key.
Totals(key, what) ==
    [k \in Range(key) |-> SumOf(Restrict(what, {f \in DOMAIN key : key[f] = k}))]

\* sale_lines_projection, return_refund_lines_projection and the payments,
\* each with the sale or return it belongs to.
SoldLines(S) == UNION {{[id |-> s, line |-> l] : l \in Sold[s].lines} : s \in S}
GivenLines(R) ==
    UNION {{[id |-> r, line |-> g.line, refund |-> g.refund] : g \in Given[r].lines} : r \in R}
Payments(S) == UNION {{[id |-> s, pay |-> p] : p \in Sold[s].pays} : s \in S}

SaleOf(r) == Sold[Given[r].sale]
RefundTotal(r) == SumOf([g \in Given[r].lines |-> g.refund])

SaleTotals(S) == [s \in S |-> Sold[s].total]
RefundTotals(R) == [r \in R |-> RefundTotal(r)]
LineTotals(S) == [f \in SoldLines(S) |-> f.line.total]
LineRefunds(R) == [f \in GivenLines(R) |-> f.refund]

SalesSummary(S) == Totals([s \in S |-> Sold[s].currency], SaleTotals(S))
RefundsSummary(R) == Totals([r \in R |-> SaleOf(r).currency], RefundTotals(R))

SalesPayments(S) ==
    Totals([f \in Payments(S) |-> <<f.pay.method, Sold[f.id].currency>>],
           [f \in Payments(S) |-> f.pay.amount])

SalesDaily(S) == Totals([s \in S |-> <<Sold[s].day, Sold[s].currency>>], SaleTotals(S))
RefundsDaily(R) == Totals([r \in R |-> <<Given[r].day, SaleOf(r).currency>>], RefundTotals(R))

\* A line is counted under the product it was sold as,
SalesByProduct(S) ==
    Totals([f \in SoldLines(S) |-> <<f.line.product, Sold[f.id].currency>>], LineTotals(S))
RefundsByProduct(R) ==
    Totals([f \in GivenLines(R) |-> <<f.line.product, SaleOf(f.id).currency>>], LineRefunds(R))

SalesByVariant(S) ==
    Totals([f \in SoldLines(S) |-> <<f.line.variant, f.line.product, Sold[f.id].currency>>],
           LineTotals(S))

\* the type the product had then,
SalesByProductType(S) ==
    Totals([f \in SoldLines(S) |-> <<f.line.type, Sold[f.id].currency>>], LineTotals(S))
RefundsByProductType(R) ==
    Totals([f \in GivenLines(R) |-> <<f.line.type, SaleOf(f.id).currency>>], LineRefunds(R))

\* and its root category, of which a line has one.
SalesByCategory(S) ==
    Totals([f \in SoldLines(S) |-> <<f.line.root, Sold[f.id].currency>>], LineTotals(S))
RefundsByCategory(R) ==
    Totals([f \in GivenLines(R) |-> <<f.line.root, SaleOf(f.id).currency>>], LineRefunds(R))

\* Of tags a line has any number, and is counted under each.
Tagged(lines) == UNION {{[tag |-> t, of |-> f] : t \in f.line.tags} : f \in lines}
SalesByTag(S) ==
    LET T == Tagged(SoldLines(S)) IN
    Totals([x \in T |-> <<x.tag, Sold[x.of.id].currency>>], [x \in T |-> x.of.line.total])
RefundsByTag(R) ==
    LET T == Tagged(GivenLines(R)) IN
    Totals([x \in T |-> <<x.tag, SaleOf(x.of.id).currency>>], [x \in T |-> x.of.refund])

\* A return counts against the cashier and the channel of its sale.
SalesByCashier(S) == Totals([s \in S |-> <<Sold[s].cashier, Sold[s].currency>>], SaleTotals(S))
RefundsByCashier(R) == Totals([r \in R |-> <<SaleOf(r).cashier, SaleOf(r).currency>>], RefundTotals(R))
SalesByChannel(S) == Totals([s \in S |-> <<Sold[s].channel, Sold[s].currency>>], SaleTotals(S))
RefundsByChannel(R) == Totals([r \in R |-> <<SaleOf(r).channel, SaleOf(r).currency>>], RefundTotals(R))

\* or against the shop as it was then, whatever it is called now.
Branch(s) == <<Sold[s].channel, Sold[s].branch, Sold[s].currency>>
Branches(S) == Totals([s \in S |-> Branch(s)], SaleTotals(S))
ReturnBranches(R) == Totals([r \in R |-> Branch(Given[r].sale)], RefundTotals(R))

\* The two queries of each dimension.
Dimensions == {"day", "product", "product_type", "root_category", "tag", "cashier", "channel"}

SalesBy(dimension, S) ==
    CASE dimension = "day" -> SalesDaily(S)
      [] dimension = "product" -> SalesByProduct(S)
      [] dimension = "product_type" -> SalesByProductType(S)
      [] dimension = "root_category" -> SalesByCategory(S)
      [] dimension = "tag" -> SalesByTag(S)
      [] dimension = "cashier" -> SalesByCashier(S)
      [] dimension = "channel" -> SalesByChannel(S)

RefundsBy(dimension, R) ==
    CASE dimension = "day" -> RefundsDaily(R)
      [] dimension = "product" -> RefundsByProduct(R)
      [] dimension = "product_type" -> RefundsByProductType(R)
      [] dimension = "root_category" -> RefundsByCategory(R)
      [] dimension = "tag" -> RefundsByTag(R)
      [] dimension = "cashier" -> RefundsByCashier(R)
      [] dimension = "channel" -> RefundsByChannel(R)
-----------------------------------------------------------------------------
At(rows, k) == IF k \in DOMAIN rows THEN rows[k] ELSE 0

\* Mutant: a row without sales is not made.
MergedSalesOnly(sales, refunds) == [k \in DOMAIN sales |-> sales[k] - At(refunds, k)]

\* Summary, Daily, Breakdown: both are put together under their key, and a
\* row of refunds only is a row; the net may be negative.
Merged(sales, refunds) ==
    [k \in DOMAIN sales \cup DOMAIN refunds |-> At(sales, k) - At(refunds, k)]

Breakdown(dimension, r) == Merged(SalesBy(dimension, r.sales), RefundsBy(dimension, r.refunds))
BranchRows(r) == Merged(Branches(r.sales), ReturnBranches(r.refunds))
-----------------------------------------------------------------------------
\* The totals in EGP: every amount is converted at the rate of its own sale
\* or return and rounded, half away from zero, before it is summed.
Normal(amount, currency, rate) ==
    IF currency = "EGP" THEN amount ELSE (2 * amount * rate + RateUnit) \div (2 * RateUnit)

NormalSales(S) == [s \in S |-> Normal(Sold[s].total, Sold[s].currency, Sold[s].rate)]
NormalGiven(R) == [r \in R |-> Normal(RefundTotal(r), SaleOf(r).currency, Given[r].rate)]
NormalLines(S) ==
    [f \in SoldLines(S) |-> Normal(f.line.total, Sold[f.id].currency, Sold[f.id].rate)]
NormalLinesGiven(R) ==
    [f \in GivenLines(R) |-> Normal(f.refund, SaleOf(f.id).currency, Given[f.id].rate)]

NormalizedSummary(S) == SumOf(NormalSales(S))
NormalizedRefundsSummary(R) == SumOf(NormalGiven(R))

NormalizedDaily(S) == Totals([s \in S |-> Sold[s].day], NormalSales(S))
NormalizedRefundsDaily(R) == Totals([r \in R |-> Given[r].day], NormalGiven(R))

ProductsNormalized(S) == Totals([f \in SoldLines(S) |-> f.line.product], NormalLines(S))
ProductsNormalizedRefunds(R) == Totals([f \in GivenLines(R) |-> f.line.product], NormalLinesGiven(R))
CategoriesNormalized(S) == Totals([f \in SoldLines(S) |-> f.line.root], NormalLines(S))
CategoriesNormalizedRefunds(R) == Totals([f \in GivenLines(R) |-> f.line.root], NormalLinesGiven(R))

NormalDays(r) == Merged(NormalizedDaily(r.sales), NormalizedRefundsDaily(r.refunds))
NormalProducts(r) == Merged(ProductsNormalized(r.sales), ProductsNormalizedRefunds(r.refunds))
NormalCategories(r) == Merged(CategoriesNormalized(r.sales), CategoriesNormalizedRefunds(r.refunds))

\* The rates of the sales in dollars, of which the last, the least and the
\* greatest are shown.
Rates(S) == {Sold[s].rate : s \in {t \in S : Sold[t].currency = "USD"}}
-----------------------------------------------------------------------------
NoReport == [kind |-> "none"]
Facts == Receipts \cup Refunds

ReportsInit == inboxed = {} /\ booked = {} /\ refused = {} /\ report = [x \in Readers |-> NoReport]

\* All that is given back for a sale is within its total
\* (CumulativeRefundedForSale); a line alone may give back more than it cost.
Fits(r) ==
    LET others == {g \in booked \cap Refunds : Given[g].sale = Given[r].sale} IN
    SumOf(RefundTotals(others)) + RefundTotal(r) <= SaleOf(r).total

\* A batch is committed; the projectors book an event or block it, a return
\* once its sale is booked and if it fits.
Accept(f) ==
    /\ f \notin inboxed /\ inboxed' = inboxed \cup {f} /\ UNCHANGED <<booked, refused, report>>

Book(f) ==
    /\ f \in inboxed \ (booked \cup refused)
    /\ f \in Refunds => Given[f].sale \in booked /\ Fits(f)
    /\ booked' = booked \cup {f} /\ UNCHANGED <<inboxed, refused, report>>

BlockFact(f) ==
    /\ f \in inboxed \ (booked \cup refused)
    /\ refused' = refused \cup {f} /\ UNCHANGED <<inboxed, booked, report>>

\* Mutant: the breakdown asks last whether all is projected, as the others do.
StatementsFreshLast(kind) == <<"sales", "refunds", "fresh", "freshReturns">>

\* The statements of each report, in their order.
Statements(kind) ==
    IF kind = "breakdown" THEN <<"fresh", "freshReturns", "sales", "refunds">>
    ELSE <<"sales", "refunds", "fresh", "freshReturns">>

\* before: what was accepted when the report began.
Asks(x, kind, shop, period) ==
    /\ report[x] = NoReport
    /\ report' = [report EXCEPT ![x] =
            [kind |-> kind, shop |-> shop, period |-> period, todo |-> Statements(kind),
             sales |-> {}, refunds |-> {}, complete |-> FALSE, returnsComplete |-> FALSE,
             before |-> inboxed]]
    /\ UNCHANGED <<inboxed, booked, refused>>

\* The rows of a Store are those with its id, the rows of all are all.
Within(r, shop, day) == (r.shop = NoShop \/ shop = r.shop) /\ day \in r.period

SalesFound(r) == {s \in booked \cap Receipts : Within(r, Sold[s].shop, Sold[s].day)}
RefundsFound(r) == {g \in booked \cap Refunds : Within(r, Given[g].shop, Given[g].day)}

\* ReportFreshness, ReportReturnFreshness: no accepted event is unsettled, of
\* a return or of a sale in the first two event versions.  A sale in the third
\* is booked and found, but not looked for.
Watched == {s \in Receipts : Sold[s].version \in {"v1", "v2"}}
SalesComplete == (inboxed \cap Watched) \subseteq booked \cup refused
ReturnsComplete == (inboxed \cap Refunds) \subseteq booked \cup refused

\* One statement after the other.
RunStatement(x) ==
    LET r == report[x] IN
    /\ r # NoReport /\ r.todo # <<>>
    /\ report' = [report EXCEPT ![x] = [
            CASE Head(r.todo) = "sales" -> [r EXCEPT !.sales = SalesFound(r)]
              [] Head(r.todo) = "refunds" -> [r EXCEPT !.refunds = RefundsFound(r)]
              [] Head(r.todo) = "fresh" -> [r EXCEPT !.complete = SalesComplete]
              [] Head(r.todo) = "freshReturns" -> [r EXCEPT !.returnsComplete = ReturnsComplete]
            EXCEPT !.todo = Tail(@)]]
    /\ UNCHANGED <<inboxed, booked, refused>>

Answers(x) ==
    /\ report[x] # NoReport /\ report[x].todo = <<>>
    /\ report' = [report EXCEPT ![x] = NoReport] /\ UNCHANGED <<inboxed, booked, refused>>

ReportsNext ==
    \/ \E f \in Facts : Accept(f) \/ Book(f) \/ BlockFact(f)
    \/ \E x \in Readers :
        \/ \E kind \in {"summary", "breakdown"}, shop \in Shops \cup {NoShop}, p \in Periods :
            Asks(x, kind, shop, p)
        \/ RunStatement(x) \/ Answers(x)

ReportsSafe == ReportsInit /\ [][ReportsNext]_reportVars

\* The facts appear here as BookedFacts lets them while no operator acts, which
\* is what both projections do (their KeepsItsContracts).
Tables == INSTANCE BookedFacts WITH rebuilt <- FALSE
ReadsTheTables == Tables!Init /\ [][Tables!Projects]_Tables!vars
-----------------------------------------------------------------------------
Answered == {report[x] : x \in {y \in Readers : report[y] # NoReport /\ report[y].todo = <<>>}}

\* A breakdown that says complete has every watched sale and every return that
\* was accepted before it began and not blocked, whatever is accepted and
\* projected while its statements run (Breakdown, freshness).
CompleteIsWhole ==
    \A r \in {a \in Answered : a.kind = "breakdown"} :
        /\ r.complete => {s \in (r.before \cap Watched) \ refused :
                              Within(r, Sold[s].shop, Sold[s].day)} \subseteq r.sales
        /\ r.returnsComplete => {g \in (r.before \cap Refunds) \ refused :
                              Within(r, Given[g].shop, Given[g].day)} \subseteq r.refunds

\* A report that says complete "means Cloud has nothing left to project"
\* (docs/operations/reporting.md): of the sales that were accepted before it
\* began none is still to be booked or blocked.
CompleteLeavesNothing ==
    \A r \in Answered : r.complete => r.before \cap Receipts \subseteq booked \cup refused

\* "Root-category rows are additive" (docs/operations/reporting.md): whatever
\* the statements found, the rows of every dimension that is no facet, and of
\* the shops, add up to the lines or the totals they are made of, rows of
\* returns alone included; the variants of a product add up to its row.
RowsAddUp(r) ==
    LET lines == SumOf(LineTotals(r.sales)) - SumOf(LineRefunds(r.refunds))
        totals == SumOf(Merged(SalesSummary(r.sales), RefundsSummary(r.refunds)))
        variants == SalesByVariant(r.sales)
        products == SalesByProduct(r.sales) IN
    /\ \A d \in Dimensions \ {"tag"} :
        SumOf(Breakdown(d, r)) = IF d \in {"day", "cashier", "channel"} THEN totals ELSE lines
    /\ SumOf(BranchRows(r)) = totals
    /\ \A k \in DOMAIN products :
        products[k] = SumOf(Restrict(variants, {v \in DOMAIN variants : <<v[2], v[3]>> = k}))

\* A return counts where its sale does: if a report finds the sale of every
\* return it finds, no row of a cashier, a channel or a shop is negative.
RefundsFollowSales(r) ==
    {Given[g].sale : g \in r.refunds} \subseteq r.sales =>
        /\ \A d \in {"cashier", "channel"} : \A k \in DOMAIN Breakdown(d, r) : Breakdown(d, r)[k] >= 0
        /\ \A k \in DOMAIN BranchRows(r) : BranchRows(r)[k] >= 0

\* What was paid in a currency is what was sold in it, within 1 of each sale
\* (checkPaymentAggregate), however the methods are mixed.
PaymentsMatch(r) ==
    LET totals == SalesSummary(r.sales) paid == SalesPayments(r.sales) IN
    \A c \in DOMAIN totals :
        LET n == Cardinality({s \in r.sales : Sold[s].currency = c}) IN
        SumOf(Restrict(paid, {k \in DOMAIN paid : k[2] = c})) - totals[c] \in -n..n

\* "Grouping (summary vs daily vs branches) cannot change the total"
\* (DashboardNormalizedSummary): converted and rounded before they are
\* summed, the days, and the lines of products and of root categories, agree,
\* and the total in EGP lies between the least and the greatest of the rates
\* shown with it, within the rounding of each sale (DashboardLatestFx).
GroupingKeepsTotals(r) ==
    LET S == {s \in r.sales : Sold[s].currency = "USD"}
        dollars == At(SalesSummary(r.sales), "USD")
        pounds == 2 * RateUnit * NormalizedSummary(S) IN
    /\ SumOf(NormalDays(r)) = NormalizedSummary(r.sales) - NormalizedRefundsSummary(r.refunds)
    /\ SumOf(NormalProducts(r)) = SumOf(NormalCategories(r))
    /\ S # {} => /\ pounds >= 2 * dollars * Min(Rates(S)) - RateUnit * Cardinality(S)
                 /\ pounds <= 2 * dollars * Max(Rates(S)) + RateUnit * Cardinality(S)

ReportsAddUp ==
    \A r \in Answered :
        RowsAddUp(r) /\ RefundsFollowSales(r) /\ PaymentsMatch(r) /\ GroupingKeepsTotals(r)
=============================================================================
