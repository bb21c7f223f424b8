------------------------------- MODULE MCWeb -------------------------------
(***************************************************************************)
(* The web app.  Its parts share nothing but the feeds they read, so a     *)
(* behaviour is one of the one part it examines, and what a part begins    *)
(* with is left to vary only there.                                        *)
(***************************************************************************)
EXTENDS CompanyFacts, PeerView, FilingReads, Governance, Screener, Operations, Charts, ApiKeys

VARIABLE under

webVars == <<factsVars, viewVars, readsVars, governanceVars, screenerVars,
             operationsVars, chartsVars, keysVars>>
vars == <<webVars, under>>

------------------------------------------------------------------------------
\* Revenue under two concepts, of which an issuer may change; a balance sheet
\* that adds up and one that does not.
MCMetrics    == [income |-> <<"revenue">>, balance |-> <<"assets", "liabilities", "equity">>]
MCCandidates == [revenue |-> <<"r1", "r2">>, assets |-> <<"a">>, liabilities |-> <<"l">>, equity |-> <<"e">>]
MCNotesOf    == [r1 |-> <<"n">>]
Sheet(r, x, y) == (r :> x) @@ ("a" :> 4) @@ ("l" :> 2) @@ ("e" :> y)
MCContents   == {"r1" :> 0, "r1" :> 2, "r2" :> 3, Sheet("r1", 1, 2), Sheet("r2", 5, 1)}

------------------------------------------------------------------------------
\* Companies with a growing revenue, with negative equity and debt under two
\* concepts, with a prior of zero and quarters only, with a negative revenue.
Yr(e, v)      == [end |-> e, annual |-> TRUE, val |-> v]
Quarter(e, v) == [end |-> e, annual |-> FALSE, val |-> v]
F1 == [Revenues |-> <<Yr(1, 2), Yr(2, 4)>>, OperatingIncomeLoss |-> <<Yr(2, 1)>>,
       NetIncomeLoss |-> <<Yr(1, 5), Yr(2, -1), Quarter(3, 9)>>,
       StockholdersEquity |-> <<Yr(2, 2)>>, Liabilities |-> <<Yr(2, 3)>>]
F2 == [RevenueFromContract |-> <<Yr(1, 4), Yr(2, 4)>>, OperatingIncomeLoss |-> <<Yr(2, 1)>>,
       NetIncomeLoss |-> <<Yr(2, 2)>>, StockholdersEquity |-> <<Yr(2, -2)>>,
       LongTermDebt |-> <<Yr(2, 1)>>, DebtCurrent |-> <<Yr(2, 1)>>]
F3 == [Revenues |-> <<Yr(1, 0), Yr(2, 2)>>, NetIncomeLoss |-> <<Quarter(2, 1)>>,
       StockholdersEquity |-> <<Yr(2, 0)>>]
F4 == [Revenues |-> <<Yr(1, -2), Yr(2, 1)>>, OperatingIncomeLoss |-> <<Yr(2, 2)>>,
       NetIncomeLoss |-> <<Yr(2, 1)>>, StockholdersEquity |-> <<Yr(2, 1)>>, DebtCurrent |-> <<Yr(2, 0)>>]
Bench(known, n) == [known |-> known, universe |-> n]
MCBench == {Bench(<<F1>>, 0), Bench(<<F1>>, 2), Bench(<<F1, F2, F3, F4>>, 4),
            Bench(<<F4, F1, F1, F2, F3>>, 5), Bench(<<F3, F2, F1>>, 2), Bench(<<F2, F2, F4, F3>>, 4)}

------------------------------------------------------------------------------
MCTickers == [AAPL |-> "c1"]

\* Proxies with blank cells, labels, several tables, two years in a row and the
\* same amount twice; reports with and without transactions, documents without XML.
Header(summary) == [header |-> TRUE, summary |-> summary, name |-> "label"]
Cells(name, column, years, total, amounts) ==
  [header |-> FALSE, summary |-> FALSE, name |-> name, yearColumn |-> column, years |-> years,
   totalColumn |-> total, amounts |-> amounts]
MCTables ==
  {<<Header(TRUE), Cells("ann", 7, <<7>>, 20, {20, 5}), Cells("blank", 6, <<6>>, 4, {4}),
     Cells("label", 6, <<6>>, 30, {30})>>,
   <<Header(FALSE), Cells("ann", 7, <<7>>, 30, {30}), Header(TRUE), Cells("blank", 7, <<7>>, 30, {30}),
     Cells("bob", NoValue, <<9, 6>>, 15, {15}), Cells("fees", 6, <<6>>, 15, {15}), Cells("blank", 6, <<6>>, 15, {15})>>,
   <<Header(TRUE), Cells("ann", 7, <<7>>, 25, {25}), Cells("blank", 7, <<7>>, 25, {25}),
     Header(FALSE), Cells("bob", 7, <<7>>, 25, {25})>>}
T(date, code, side, n, derivative) ==
  [date |-> date, code |-> code, side |-> side, shares |-> n, derivative |-> derivative]
ReportOf(xml, owners, transactions) == [xml |-> xml, owners |-> owners, transactions |-> transactions]
Owner(name, roles) == [name |-> name, roles |-> roles]
MCReports ==
  {ReportOf(TRUE, <<Owner("r1", {"director"}), Owner("r3", {"officer"})>>,
            <<T(7, "P", "A", 1, FALSE), T(NoValue, "S", "D", 1, TRUE)>>),
   ReportOf(TRUE, <<Owner("r2", {"director", "officer"})>>, <<T(6, "S", "D", 1, FALSE)>>),
   ReportOf(TRUE, <<Owner("r2", {"officer"})>>, <<>>),
   ReportOf(FALSE, <<Owner("r2", {"officer"})>>, <<>>), ReportOf(TRUE, <<Owner(NoValue, {})>>, <<>>)}

------------------------------------------------------------------------------
MCFields == [marketCap |-> "size", liabilitiesToEquity |-> "leverage"]
MCParams == {<<"min", "marketCap">>, <<"max", "liabilitiesToEquity">>}
MCRow(size, leverage) == [marketCap |-> size, liabilitiesToEquity |-> leverage]
MCCorpus == <<MCRow(2, 1), MCRow(1, 0), MCRow(NoValue, 2), MCRow(0, 0), MCRow(1, NoValue)>>

\* The comparison's own sample, a parsed table shifted by a row, a raw row that
\* does not add up.
Pay(id, trace, salary, bonus, equity, total) ==
  [rowId |-> id, trace |-> trace, salary |-> salary, bonus |-> bonus, equity |-> equity, total |-> total]
Raw  == <<Pay(1, 1, 12, 4, 34, 50), Pay(2, 2, 8, 2, 19, 29)>>
MCQa == {[raw |-> Raw, parsed |-> <<Pay(1, 1, 12, 4, 33, 49), Pay(2, 2, 8, 2, 19, 29)>>],
         [raw |-> Raw, parsed |-> <<Pay(1, 2, 8, 2, 19, 29), Pay(2, 3, 8, 2, 19, 29)>>],
         [raw |-> <<Pay(1, 1, 12, 4, 34, 40)>>, parsed |-> <<Pay(1, 1, 12, 4, 24, 40)>>]}

------------------------------------------------------------------------------
Exec(name, s, b, o) == [name |-> name, components |-> [salary |-> s, bonus |-> b, other |-> o]]
Cell(role, month, count, net, gross) ==
  [role |-> role, month |-> month, count |-> count, net |-> net, gross |-> gross]
MCComponents == <<"salary", "bonus", "other">>
MCHeatRoles  == <<"director", "officer">>
MCHeatMonths == <<1, 2>>
MCEntries ==
  [payMix      |-> {Exec(n, 1, b, o) : n \in {1, 2}, b \in {1, 4}, o \in {0, 2}},
   heatmap     |-> {Cell(r, m, 1, n, 3) : r \in {"director", "officer"}, m \in {1, 2, 9}, n \in {-2, 3}}
                     \cup {Cell("officer", 2, 0, 0, 0), Cell("director", 1, 2, 2, 1), Cell("director", 1, 1, 1, 1)},
   restatement |-> {[lineItem |-> l, original |-> o, restated |-> r] :
                      l \in {"net", "eps"}, o \in {0, -100, 20000}, r \in {-105, 19001}},
   valuation   |-> {[ticker |-> t, role |-> r, forwardPE |-> x, evToEbitda |-> y] :
                      t \in 1 .. 3, r \in {"subject", "peer"}, x \in {2, 5}, y \in {0, 3}},
   waterfall   |-> {[kind |-> k, value |-> v] : k \in {"absolute", "delta"}, v \in {-3, 0, 2, 600}},
   series      |-> {[value |-> v] : v \in {-3, 0, 7, 10, 11, 120}}]

------------------------------------------------------------------------------
Init ==
  /\ FactsInit /\ ViewInit /\ ReadsInit /\ GovernanceInit /\ ScreenerInit
  /\ OperationsInit /\ ChartsInit /\ KeysInit
  /\ under \in {"facts", "view", "reads", "governance", "screener", "ledger", "status",
                "charts", "keys"}
  /\ under # "view" => companies = Shown(<<F1>>) /\ universe = 0
  /\ under # "status" => qa.raw[1].total = 40
  /\ under # "charts" => chart = "series"

Next ==
  /\ UNCHANGED under
  /\ \/ /\ under = "facts" /\ FactsNext
        /\ UNCHANGED <<viewVars, readsVars, governanceVars, screenerVars, operationsVars, chartsVars, keysVars>>
     \/ /\ under = "view" /\ ViewNext
        /\ UNCHANGED <<factsVars, readsVars, governanceVars, screenerVars, operationsVars, chartsVars, keysVars>>
     \/ /\ under = "reads" /\ ReadsNext
        /\ UNCHANGED <<factsVars, viewVars, governanceVars, screenerVars, operationsVars, chartsVars, keysVars>>
     \/ /\ under = "governance" /\ GovernanceNext
        /\ UNCHANGED <<factsVars, viewVars, readsVars, screenerVars, operationsVars, chartsVars, keysVars>>
     \/ /\ under = "screener" /\ ScreenerNext
        /\ UNCHANGED <<factsVars, viewVars, readsVars, governanceVars, operationsVars, chartsVars, keysVars>>
     \/ /\ \/ under = "ledger" /\ UNCHANGED <<qa, snapshot>>
           \/ under = "status" /\ UNCHANGED ledger
        /\ OperationsNext
        /\ UNCHANGED <<factsVars, viewVars, readsVars, governanceVars, screenerVars, chartsVars, keysVars>>
     \/ /\ under = "charts" /\ ChartsNext
        /\ UNCHANGED <<factsVars, viewVars, readsVars, governanceVars, screenerVars, operationsVars, keysVars>>
     \/ /\ under = "keys" /\ KeysNext
        /\ UNCHANGED <<factsVars, viewVars, readsVars, governanceVars, screenerVars, operationsVars, chartsVars>>

Spec == Init /\ [][Next]_vars
=============================================================================
