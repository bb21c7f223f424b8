------------------------- MODULE StatementBuilders --------------------------
(***************************************************************************)
(* build_quarterly_and_ttm and build_annual_statements (services/          *)
(* parse-xbrl).  The quarterly builder passes over the rows once and keeps *)
(* one point per metric and quarter, the last of its rows; then it sums    *)
(* the four quarters up to a flow metric's latest.  The annual builder     *)
(* keeps the latest fiscal years.                                          *)
(*                                                                         *)
(* A row's metric stands for its concept, an amount for the number the     *)
(* value parses to; amounts are added without rounding.  A series is the   *)
(* set of its points: their order is layout.                               *)
(***************************************************************************)
EXTENDS Integers, Sequences, FiniteSetsExt

CONSTANTS FlowMetrics, StockMetrics, \* metrics of the quarterly builder
          AnnualMetrics,             \* statement -> metrics of the annual builder
          NormalizedRows,            \* records [period, statement, metric, year, quarter, amount]
          NoAmount,                  \* the amount of a value that is not a number
          YearCount,                 \* year_count
          MaxRows                    \* bound: rows of one build

ASSUME BuildersAssumption ==
  /\ YearCount \in Nat \ {0}
  /\ \A row \in NormalizedRows :
       /\ row.year \in Int /\ row.quarter \in Int
       /\ row.amount \in Int \cup {NoAmount}
  /\ NoAmount \notin Int

VARIABLES rows,       \* history: the rows passed over
          grouped,    \* _build_series's grouped: <<metric, <<year, quarter>>>> -> amount
          ttm,        \* ttm_outputs: metric -> output
          statements, \* what build_annual_statements returns for these rows
          builder     \* "reading" or "built"

builderVars == <<rows, grouped, ttm, statements, builder>>

Nothing == [x \in {} |-> NoAmount]

BuilderInit ==
  /\ rows = <<>> /\ grouped = Nothing
  /\ ttm = Nothing /\ statements = Nothing
  /\ builder = "reading"

------------------------------------------------------------------------------
(* The quarterly builder *)

Quarters == 1 .. 4

\* Variant: a value that is not a number makes a point.
EligibleUnparsed(row) ==
  /\ row.period = "quarterly"
  /\ row.metric \in FlowMetrics \cup StockMetrics
  /\ row.quarter \in Quarters

Eligible(row) ==
  /\ row.period = "quarterly"
  /\ row.metric \in FlowMetrics \cup StockMetrics
  /\ row.amount # NoAmount
  /\ row.quarter \in Quarters

Place(row) == <<row.metric, <<row.year, row.quarter>>>>

Grouped(row) ==
  [p \in DOMAIN grouped \cup {Place(row)} |->
     IF p = Place(row) THEN row.amount ELSE grouped[p]]

ReadRow(row) ==
  /\ builder = "reading" /\ Len(rows) < MaxRows
  /\ rows' = Append(rows, row)
  /\ grouped' = IF Eligible(row) THEN Grouped(row) ELSE grouped
  /\ UNCHANGED <<ttm, statements, builder>>

\* The quarters of a series.
Periods(m) == {p[2] : p \in {q \in DOMAIN grouped : q[1] = m}}

NotAfter(p, q) == p[1] < q[1] \/ (p[1] = q[1] /\ p[2] <= q[2])

Latest(m) == CHOOSE p \in Periods(m) : \A q \in Periods(m) : NotAfter(q, p)

\* Variant: the year stays when the quarter wraps.
BeforeInYear(p) == IF p[2] = 1 THEN <<p[1], 4>> ELSE <<p[1], p[2] - 1>>

Before(p) == IF p[2] = 1 THEN <<p[1] - 1, 4>> ELSE <<p[1], p[2] - 1>>

\* _rolling_4q_chain
Chain(p) == <<p, Before(p), Before(Before(p)), Before(Before(Before(p)))>>

HasTtm(m) ==
  /\ Periods(m) # {}
  /\ \A i \in Quarters : Chain(Latest(m))[i] \in Periods(m)

Output(m) ==
  LET chain == Chain(Latest(m))
      Amount(i) == grouped[<<m, chain[i]>>]
  IN  [as_of |-> chain[1], amount |-> Amount(1) + Amount(2) + Amount(3) + Amount(4)]

------------------------------------------------------------------------------
(* The annual builder *)

\* as_number of statement_builder_annual.py ends after its docstring, and the
\* last definition of _as_number calls it.
AsNumber(amount) == NoAmount

InAnnual == {n \in DOMAIN rows : /\ rows[n].statement \in DOMAIN AnnualMetrics
                                 /\ AsNumber(rows[n].amount) # NoAmount}

FiscalYears ==
  LET years == {rows[n].year : n \in InAnnual}
  IN  {y \in years : Cardinality({z \in years : z > y}) < YearCount}

\* The rows of each place in the statements, and the last of them.
AnnualRows(s, m, y) ==
  {n \in InAnnual : rows[n].statement = s /\ rows[n].metric = m /\ rows[n].year = y}

AnnualStatements ==
  LET places == {p \in UNION {{s} \X AnnualMetrics[s] \X FiscalYears : s \in DOMAIN AnnualMetrics} :
                   AnnualRows(p[1], p[2], p[3]) # {}}
  IN  [p \in places |-> AsNumber(rows[Max(AnnualRows(p[1], p[2], p[3]))].amount)]

------------------------------------------------------------------------------
Build ==
  /\ builder = "reading"
  /\ ttm' = [m \in {m \in FlowMetrics : HasTtm(m)} |-> Output(m)]
  /\ statements' = AnnualStatements
  /\ builder' = "built"
  /\ UNCHANGED <<rows, grouped>>

\* The next call starts afresh.
BuildAgain ==
  /\ builder = "built"
  /\ rows' = <<>> /\ grouped' = Nothing
  /\ ttm' = Nothing /\ statements' = Nothing
  /\ builder' = "reading"

BuilderNext == (\E row \in NormalizedRows : ReadRow(row)) \/ Build \/ BuildAgain

BuilderSpec == BuilderInit /\ [][BuilderNext]_builderVars

------------------------------------------------------------------------------
BuilderTypeOK ==
  /\ rows \in Seq(NormalizedRows)
  /\ \A p \in DOMAIN grouped : /\ p \in (FlowMetrics \cup StockMetrics) \X (Int \X Quarters)
                               /\ grouped[p] \in Int
  /\ DOMAIN ttm \subseteq FlowMetrics
  /\ builder \in {"reading", "built"}

(* What a TTM should be, from the rows alone. *)

\* The quarters since year zero.
Number(p) == 4 * p[1] + p[2]

Reports(m, number) ==
  {n \in DOMAIN rows : /\ rows[n].period = "quarterly" /\ rows[n].metric = m
                       /\ rows[n].quarter \in Quarters /\ rows[n].amount # NoAmount
                       /\ Number(<<rows[n].year, rows[n].quarter>>) = number}

LastReport(m, number) == rows[Max(Reports(m, number))].amount

Reported(m) == {number \in {4 * rows[n].year + rows[n].quarter : n \in DOMAIN rows} :
                  Reports(m, number) # {}}

\* day-33.md: "deterministic rolling-4-quarter formulas", "Missing quarterly
\* components do not fall back to annual rows".  A flow metric has a TTM exactly
\* if the four quarters up to its latest are reported in quarterly rows, and it is
\* the sum of what the last row of each reports, in whatever order rows come.
TtmOfLastReports ==
  builder = "built" =>
    \A m \in FlowMetrics :
      LET latest == Max(Reported(m))
          rolling == {latest - k : k \in 0 .. 3}
          complete == Reported(m) # {} /\ rolling \subseteq Reported(m)
      IN
      /\ m \in DOMAIN ttm <=> complete
      /\ complete => /\ Number(ttm[m].as_of) = latest
                     /\ ttm[m].amount = LastReport(m, latest) + LastReport(m, latest - 1)
                                          + LastReport(m, latest - 2) + LastReport(m, latest - 3)

\* statement_builder_annual.py:55: "Build focused annual statements from normalized
\* annual fact rows".  A row with a number, of a metric of its statement, in the
\* latest fiscal year there is, shows up in the statements.
AnnualRowsShown ==
  builder = "built" =>
    \A n \in DOMAIN rows :
      LET row == rows[n] IN
      /\ row.period = "annual" /\ row.statement \in DOMAIN AnnualMetrics
      /\ row.metric \in AnnualMetrics[row.statement]
      /\ row.amount # NoAmount
      /\ \A k \in DOMAIN rows : rows[k].year <= row.year
      => <<row.statement, row.metric, row.year>> \in DOMAIN statements
=============================================================================
