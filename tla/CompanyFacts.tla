---------------------------- MODULE CompanyFacts ----------------------------
(***************************************************************************)
(* SEC's companyfacts of one issuer and what is read from it: the annual   *)
(* financials page (apps/web/app/company/[companyId]/financials), the      *)
(* public GET /api/v1/financials and the headline figures of the company   *)
(* page (lib/sec/fundamentals.ts).  The feed is external: it grows with    *)
(* every report, in the shape the readers rely on.  A date is a year for   *)
(* a period's end and a day number for a filing; amounts are integers.     *)
(***************************************************************************)
EXTENDS WebLists

CONSTANTS StatementMetrics, \* statement -> its metrics, the first is the denominator
          Candidates,       \* metric -> its XBRL concepts, in order of preference
          NotesOf,          \* concept -> the notes it is linked to
          FiscalYears,
          Contents,         \* what a report may hold: functions of concepts to amounts
          Comparatives,     \* amounts an annual report may repeat for the year before
          PageYears,        \* columns of the page, default of the API
          MaxYears,         \* FINANCIALS_MAX_YEARS
          MaxReports        \* bound: reports in the feed

\* A point of a concept, as far as the readers look at it.
FactPoint == [end : Int, fy : Int \cup {NoValue}, fp : {"FY", "Q3", NoValue},
              form : {"10-K", "10-K/A", "10-Q"}, filed : Nat, val : Int]

ASSUME FactsAssumption ==
  /\ {"income", "balance"} \subseteq DOMAIN StatementMetrics
  /\ \A s \in DOMAIN StatementMetrics : ToSet(StatementMetrics[s]) \subseteq DOMAIN Candidates
  /\ {"assets", "liabilities", "equity"} \subseteq ToSet(StatementMetrics["balance"])
  /\ \A metric \in DOMAIN Candidates : Candidates[metric] \in Seq(ToSet(Candidates[metric]))
  /\ FiscalYears \cup Comparatives \subseteq Int /\ NoValue \notin Int \cup FactPoint
  /\ \A amounts \in Contents : amounts \in [DOMAIN amounts -> Int]
  /\ MaxYears \in Nat /\ PageYears \in 1 .. MaxYears

VARIABLES facts,      \* concept -> its points, by end and then by filing
          reportCount \* reports filed so far, the day of the last one

factsVars == <<facts, reportCount>>

Metrics     == DOMAIN Candidates
Concepts    == UNION {ToSet(Candidates[metric]) : metric \in Metrics}
AnnualForms == {"10-K", "10-K/A", "20-F", "20-F/A", "40-F", "40-F/A"}

FactsInit == facts = [c \in Concepts |-> <<>>] /\ reportCount = 0

Added(points, p) ==
  Where(points, LAMBDA q : q.end <= p.end) \o <<p>>
    \o Where(points, LAMBDA q : q.end > p.end)

\* A report for the year y, on a day of its own; an annual one repeats the year
\* before, and both years come under its fiscal year, if the feed names it.
Report(form, fp, y, fy, amounts, before) ==
  LET Point(end, val) == [end |-> end, fy |-> fy, fp |-> fp, form |-> form,
                          filed |-> reportCount + 1, val |-> val]
      Comparative(points) == IF before = NoValue THEN points ELSE Added(points, Point(y - 1, before))
  IN
  /\ reportCount < MaxReports
  /\ reportCount' = reportCount + 1
  /\ facts' = [c \in Concepts |-> IF c \in DOMAIN amounts
                                  THEN Added(Comparative(facts[c]), Point(y, amounts[c]))
                                  ELSE facts[c]]

FileAnnual(form) ==
  \E y \in FiscalYears, amounts \in Contents, before \in Comparatives \cup {NoValue} :
    \/ Report(form, "FY", y, y, amounts, before)
    \/ Report(form, NoValue, y, NoValue, amounts, before)

FileQuarter ==
  \E y \in FiscalYears, amounts \in Contents : Report("10-Q", "Q3", y, y, amounts, NoValue)

FactsNext == FileAnnual("10-K") \/ FileAnnual("10-K/A") \/ FileQuarter

FactsSpec == FactsInit /\ [][FactsNext]_factsVars

------------------------------------------------------------------------------
\* The page's reading of the feed.

AnnualYear(p) == IF p.fy # NoValue THEN p.fy ELSE p.end
IsAnnual(p)   == p.form \in AnnualForms /\ p.fp \in {"FY", NoValue}
Annual(c)     == {i \in DOMAIN facts[c] : IsAnnual(facts[c][i])}

\* Variant: the report filed first stands.
PreferEarlier(a, b) == IF a.filed <= b.filed THEN a ELSE b

PreferMoreRecent(a, b) ==
  IF a.filed # b.filed THEN (IF a.filed > b.filed THEN a ELSE b)
  ELSE IF a.end >= b.end THEN a ELSE b

\* collectMetricValues: the first concept with annual points gives all years.
ConceptUsed(metric) ==
  FirstWhere(Candidates[metric], LAMBDA c : Annual(c) # {})

OfYear(c, y) == {i \in Annual(c) : AnnualYear(facts[c][i]) = y}

ValuesByYear(metric) ==
  LET c == ConceptUsed(metric)
      years == IF c = NoValue THEN {} ELSE {AnnualYear(facts[c][i]) : i \in Annual(c)}
  IN  [y \in years |-> Kept(facts[c], OfYear(c, y), PreferMoreRecent).val]

\* The latest of all years with a figure; shown in descending order.
Years ==
  LET all == UNION {DOMAIN ValuesByYear(metric) : metric \in Metrics}
  IN  {y \in all : Cardinality({z \in all : z > y}) < PageYears}

\* Off by more than 3%.
Off(assets, liabilities, equity) ==
  100 * Magnitude(assets - (liabilities + equity))
    > 3 * IF Magnitude(assets) > 1 THEN Magnitude(assets) ELSE 1

\* summarizeConsistency: the most recent year that is off.
Consistency(values, years) ==
  LET Has(y) == \A metric \in {"assets", "liabilities", "equity"} : y \in DOMAIN values[metric]
      bad == {y \in years : Has(y) /\ Off(values["assets"][y], values["liabilities"][y], values["equity"][y])}
  IN  IF bad = {} THEN [status |-> "ok"]
      ELSE [status |-> "mismatch", year |-> CHOOSE y \in bad : \A z \in bad : z <= y]

------------------------------------------------------------------------------
\* GET /api/v1/financials has its own copy of the reading.

ParseAnnualYear(p) == IF p.fy = NoValue THEN p.end ELSE p.fy

\* Variant: the first one in the feed stands.
FirstListed(a, b) == a

MoreRecent(a, b) == IF a.filed > b.filed \/ (a.filed = b.filed /\ a.end >= b.end) THEN a ELSE b

CollectMetricValues(metric) ==
  LET Yearly(c) == {i \in DOMAIN facts[c] : facts[c][i].form \in AnnualForms /\ facts[c][i].fp \in {"FY", NoValue}}
      c     == FirstWhere(Candidates[metric], LAMBDA d : Yearly(d) # {})
      In(y) == {i \in Yearly(c) : ParseAnnualYear(facts[c][i]) = y}
  IN  IF c = NoValue THEN <<>>
      ELSE [y \in {ParseAnnualYear(facts[c][i]) : i \in Yearly(c)} |-> Kept(facts[c], In(y), MoreRecent).val]

SelectYears(statements, max) ==
  LET all == UNION {DOMAIN statements[metric] : metric \in Metrics}
  IN  {y \in all : Cardinality({z \in all : z >= y}) <= max}

SummarizeConsistency(statements, years) ==
  LET balance == [metric \in {"assets", "liabilities", "equity"} |-> statements[metric]]
      whole   == years \cap DOMAIN balance["assets"] \cap DOMAIN balance["liabilities"]
                       \cap DOMAIN balance["equity"]
      bad     == {y \in whole : Off(balance["assets"][y], balance["liabilities"][y], balance["equity"][y])}
  IN  IF bad = {} THEN [status |-> "ok"]
      ELSE [status |-> "mismatch", year |-> CHOOSE y \in bad : \A z \in bad : z <= y]

Queries == [company : BOOLEAN, years : {NoValue} \cup 0 .. MaxYears + 1]

YearsAllowed(years) == years \in 1 .. MaxYears

YearsAsked(query) == IF query.years = NoValue THEN PageYears ELSE query.years

RestrictToYears(values, years) ==
  [metric \in Metrics |-> [y \in DOMAIN values[metric] \cap years |-> values[metric][y]]]

\* An issuer without annual figures is reported like a feed that does not answer.
BuildFinancialsResponse(max) ==
  LET full   == [metric \in Metrics |-> CollectMetricValues(metric)]
      years  == SelectYears(full, max)
      values == RestrictToYears(full, years)
  IN  IF years = {} THEN [status |-> 502]
      ELSE [status |-> 200, years |-> years, values |-> values,
            consistency |-> SummarizeConsistency(values, years)]

GetFinancials(query, fetched) ==
  IF ~query.company \/ ~YearsAllowed(YearsAsked(query)) THEN [status |-> 400]
  ELSE IF ~fetched THEN [status |-> 502]
  ELSE BuildFinancialsResponse(YearsAsked(query))

\* The page: getAnnualStatements and the analytics of lib/financials/analytics.ts.

\* computeRowYoYDeltas: against the next listed year.
Delta(values, years, y) ==
  LET older == {z \in years : z < y}
      prior == CHOOSE z \in older : \A w \in older : w <= z
  IN  IF older = {} \/ y \notin DOMAIN values THEN NoValue
      ELSE IF prior \notin DOMAIN values THEN NoValue
      ELSE [prior |-> prior, change |-> values[y] - values[prior],
            percent |-> IF values[prior] = 0 THEN NoValue
                        ELSE <<values[y] - values[prior], Magnitude(values[prior])>>]

\* computeCommonSize: numerator and denominator.
ShareOfBase(values, base, y) ==
  IF y \notin DOMAIN values THEN NoValue
  ELSE IF y \notin DOMAIN base THEN NoValue
  ELSE IF base[y] = 0 THEN NoValue ELSE <<values[y], base[y]>>

\* Variant: the newest first, as the columns are.
TrendAsListed(values, years) ==
  LET shown == years \cap DOMAIN values
      order == Arranged(shown, {p \in shown \X shown : p[1] > p[2]})
  IN  [i \in 1 .. Cardinality(shown) |-> [year |-> order[i], value |-> values[order[i]]]]

\* buildTrendSeries: the oldest first.
Trend(values, years) ==
  LET shown == years \cap DOMAIN values
      order == Arranged(shown, {p \in shown \X shown : p[1] < p[2]})
  IN  [i \in 1 .. Cardinality(shown) |-> [year |-> order[i], value |-> values[order[i]]]]

StatementOf(metric) ==
  CHOOSE s \in DOMAIN StatementMetrics : metric \in ToSet(StatementMetrics[s])

FigureRow(metric, years) ==
  LET values == ValuesByYear(metric)
      base   == ValuesByYear(StatementMetrics[StatementOf(metric)][1])
  IN  [concept |-> ConceptUsed(metric),
       figure  |-> [y \in years |-> IF y \in DOMAIN values THEN values[y] ELSE NoValue],
       delta   |-> [y \in years |-> Delta(values, years, y)],
       share   |-> [y \in years |-> ShareOfBase(values, base, y)],
       trend   |-> Trend(values, years)]

\* A row of the page's tables: its cells are figures or shares, the changes below
\* them and the trend are those of the figures in either view.
TableRow(row, view) ==
  [cells |-> IF view = "common-size" THEN row.share ELSE row.figure,
   changes |-> row.delta, trend |-> row.trend, concept |-> row.concept]

\* getNotesForConcept, for the row a visitor selected.
NotePanel(note) ==
  IF note \notin Metrics THEN NoValue
  ELSE [concept |-> ConceptUsed(note),
        notes |-> IF ConceptUsed(note) \in DOMAIN NotesOf THEN NotesOf[ConceptUsed(note)] ELSE <<>>]

FinancialsPage(view, note, fetched) ==
  IF ~fetched \/ Years = {} THEN [unavailable |-> TRUE]
  ELSE [unavailable |-> FALSE, years |-> Years,
        rows |-> [metric \in Metrics |-> TableRow(FigureRow(metric, Years), view)],
        consistency |-> Consistency([metric \in Metrics |-> ValuesByYear(metric)], Years),
        panel |-> NotePanel(note)]

\* pickLatestAnnual: the first in the feed of those with the latest end.
PickLatestAnnual(c) ==
  facts[c][Min({i \in Annual(c) : \A j \in Annual(c) : facts[c][j].end <= facts[c][i].end})]

\* findFirstAnnualFact, of the first concept with annual points.
Headline(metric) ==
  IF ConceptUsed(metric) = NoValue THEN NoValue ELSE PickLatestAnnual(ConceptUsed(metric))

\* getHeadlineFundamentals: a feed that does not answer is a soft miss.
HeadlineFundamentals(fetched) ==
  IF fetched THEN [metric \in Metrics |-> Headline(metric)] ELSE NoValue

\* The company page leaves out the cards if none has a figure.
HeadlineCards(fetched) ==
  LET metrics == HeadlineFundamentals(fetched)
  IN  IF metrics = NoValue THEN NoValue
      ELSE IF \A metric \in Metrics : metrics[metric] = NoValue THEN NoValue ELSE metrics

------------------------------------------------------------------------------
\* "The public API presents the same labelled rows as the UI"
\* (api/v1/financials/helpers.ts:8): with its default years it answers when the
\* page is available, for the page's columns, with the page's figures and the
\* page's verdict on the balance sheet; more years add columns and change none.
ApiMirrorsPage ==
  LET page == FinancialsPage("absolute", "none", TRUE)
  IN
  \A query \in Queries :
    LET api == GetFinancials(query, TRUE)
    IN
    YearsAsked(query) \in PageYears .. MaxYears /\ query.company =>
      /\ (api.status = 200) = ~page.unavailable
      /\ api.status = 200 =>
           /\ page.years \subseteq api.years
           /\ \A metric \in Metrics, y \in page.years :
                page.rows[metric].cells[y] =
                  IF y \in DOMAIN api.values[metric] THEN api.values[metric][y] ELSE NoValue
           /\ YearsAsked(query) = PageYears =>
                api.years = page.years /\ api.consistency = page.consistency

RowCoherent(metric, row, shares, years) ==
  LET have   == {y \in years : row.cells[y] # NoValue}
      newest == CHOOSE y \in have : \A z \in have : z <= y
      oldest == CHOOSE y \in have : \A z \in have : z >= y
  IN
  /\ Len(row.trend) = Cardinality(have)
  /\ have # {} => Last(row.trend) = [year |-> newest, value |-> row.cells[newest]]
  /\ have = years =>
       SumOf([i \in 1 .. Len(row.trend) - 1 |-> row.changes[row.trend[i + 1].year].change]) =
         row.cells[newest] - row.cells[oldest]
  /\ metric = StatementMetrics[StatementOf(metric)][1] =>
       \A y \in years : shares[y] \in {NoValue, <<row.cells[y], row.cells[y]>>}

CardCoherent(card, row, years) ==
  card # NoValue /\ AnnualYear(card) \in years =>
    \E i \in OfYear(row.concept, AnnualYear(card)) :
      LET p == facts[row.concept][i]
      IN  p.val = row.cells[AnnualYear(card)] /\ p.filed >= card.filed

\* A table hangs together: the trend of a row ends at its newest figure, the
\* changes of a row without gaps add up to newest less oldest, every row is
\* measured against the same base, which is the whole of itself, and no card of
\* the company page rests on a later report than the table's figure of that year.
TablesCoherent ==
  LET page  == FinancialsPage("absolute", "none", TRUE)
      sized == FinancialsPage("common-size", "none", TRUE)
      cards == HeadlineCards(TRUE)
  IN
  IF page.unavailable THEN cards = NoValue
  ELSE \A metric \in Metrics :
         /\ RowCoherent(metric, page.rows[metric], sized.rows[metric].cells, page.years)
         /\ CardCoherent(cards[metric], page.rows[metric], page.years)

\* Of the points filed last, that of the latest period gives its year's figure.
NewestShown(metric) ==
  LET c   == ConceptUsed(metric)
      new == {facts[c][i] : i \in {j \in Annual(c) : facts[c][j].filed = reportCount}}
  IN  c # NoValue =>
        \A p \in new :
          (\A q \in new : AnnualYear(q) = AnnualYear(p) => q.end <= p.end) =>
            ValuesByYear(metric)[AnnualYear(p)] = p.val

\* The report filed last is the one that counts: once it is in the feed, the
\* figures it reports, of its own year and of the year it repeats, are shown.
LatestReportShown == \A metric \in Metrics : NewestShown(metric)

\* "Most-recent annual value in USD" (lib/sec/fundamentals.ts:49).
HeadlineMostRecent ==
  \A metric \in Metrics, c \in Concepts :
    c \in ToSet(Candidates[metric]) /\ Annual(c) # {} =>
      HeadlineCards(TRUE)[metric].end >= PickLatestAnnual(c).end
=============================================================================
