------------------------------ MODULE PeerView ------------------------------
(***************************************************************************)
(* What a visitor sees of a peer benchmark: the metrics of each company    *)
(* (apps/web/lib/api/peer-benchmark-metrics.ts), and the ranks, the table  *)
(* and the insights of app/peers/PeerBenchmarkClient.tsx as peers are      *)
(* excluded and columns sorted.  The search form loads a page anew.        *)
(* Ratios are pairs <<numerator, denominator>>, the denominator positive.  *)
(***************************************************************************)
EXTENDS WebLists

CONSTANT Benchmarks \* what a page is rendered with: the facts of the target, then of its
                    \* peers, and how many bundled companies have the target's SIC

MetricPoint == [annual: BOOLEAN, end: Int, val: Int \cup {NoValue}]

ASSUME ViewAssumption ==
  /\ NoValue \notin Int \cup (Int \X Int)
  /\ \A result \in Benchmarks :
       /\ result.known \in Seq(ToSet(result.known)) /\ result.known # <<>>
       /\ \A known \in ToSet(result.known) : \A c \in DOMAIN known : known[c] \in Seq(MetricPoint)
       /\ result.universe \in Nat /\ Len(result.known) <= result.universe + 1

VARIABLES companies, \* the metrics of the target and of its peers, in order
          universe,  \* peerUniverseSize, the target and failed peers included
          excluded,  \* the places of the excluded peers
          sorting    \* the column and whether it descends; NoValue at first

viewVars == <<companies, universe, excluded, sorting>>

HigherIsBetter == [revenueGrowth |-> TRUE, operatingMargin |-> TRUE, netMargin |-> TRUE,
                   roe |-> TRUE, debtToEquity |-> FALSE]
METRICS == DOMAIN HigherIsBetter

CONCEPT_CANDIDATES ==
  [revenue |-> <<"Revenues", "RevenueFromContract">>, operatingIncome |-> <<"OperatingIncomeLoss">>,
   netIncome |-> <<"NetIncomeLoss">>, equity |-> <<"StockholdersEquity">>,
   longTermDebt |-> <<"LongTermDebt">>, shortTermDebt |-> <<"DebtCurrent">>,
   liabilities |-> <<"Liabilities">>]

IsFigure(v)   == v # NoValue
Less(a, b)    == a[1] * b[2] < b[1] * a[2]
Same(a, b)    == a[1] * b[2] = b[1] * a[2]
Ratio(n, d)   == IF d < 0 THEN <<-n, -d>> ELSE <<n, d>>
Average(a, b) == <<a[1] * b[2] + b[1] * a[2], 2 * a[2] * b[2]>>

\* conceptPoints: the first candidate with points at all.
ConceptPoints(known, item) ==
  LET named == FirstWhere(CONCEPT_CANDIDATES[item], LAMBDA c : c \in DOMAIN known)
  IN  IF named = NoValue THEN <<>> ELSE known[named]

\* latestAnnual and priorAnnual choose among the annual points, if there are any.
AnnualPool(points) ==
  LET annual == Where(points, LAMBDA p : p.annual)
  IN  Where(IF annual = <<>> THEN points ELSE annual, LAMBDA p : IsFigure(p.val))

LatestAnnual(points) ==
  LET pool == AnnualPool(points)
  IN  IF pool = <<>> THEN NoValue
      ELSE FirstWhere(pool, LAMBDA p : \A q \in ToSet(pool) : q.end <= p.end).val

\* Its comparison never calls two points equal, so that sorting a feed in order
\* of end reverses it: the second is the last but one.
PriorAnnual(points) ==
  LET pool == AnnualPool(points) IN IF Len(pool) < 2 THEN NoValue ELSE pool[Len(pool) - 1].val

SafeDiv(n, d) == IF ~IsFigure(n) \/ d \in {NoValue, 0} THEN NoValue ELSE Ratio(n, d)

DeriveMetricsFromFacts(known) ==
  LET Of(item) == LatestAnnual(ConceptPoints(known, item))
      OrZero(v) == IF IsFigure(v) THEN v ELSE 0
      revenue == Of("revenue")
      prior   == PriorAnnual(ConceptPoints(known, "revenue"))
      debt    == IF IsFigure(Of("longTermDebt")) \/ IsFigure(Of("shortTermDebt"))
                 THEN OrZero(Of("longTermDebt")) + OrZero(Of("shortTermDebt")) ELSE Of("liabilities")
  IN
  [revenueGrowth   |-> IF ~IsFigure(revenue) \/ prior \in {NoValue, 0} THEN NoValue
                       ELSE Ratio(revenue - prior, Magnitude(prior)),
   operatingMargin |-> SafeDiv(Of("operatingIncome"), revenue),
   netMargin       |-> SafeDiv(Of("netIncome"), revenue),
   roe             |-> SafeDiv(Of("netIncome"), Of("equity")),
   debtToEquity    |-> SafeDiv(debt, Of("equity"))]

------------------------------------------------------------------------------
\* How many of a group are below a figure, and how many equal it.
Below(group, v) == Cardinality({i \in DOMAIN group : Less(group[i], v)})
Equal(group, v) == Cardinality({i \in DOMAIN group : Same(group[i], v)})

\* Variant: the larger figure is the better one, whatever the metric.
PercentileUninverted(group, v, higher) ==
  LET n == Len(group)
      equal == Equal(group, v)
  IN  IF n <= 1 THEN <<1, 2>>
      ELSE <<2 * Below(group, v) + (IF equal > 1 THEN equal - 1 ELSE 0), 2 * (n - 1)>>

\* percentile, as a share of one.
Percentile(group, v, higher) ==
  LET n == Len(group)
      equal == Equal(group, v)
      twice == 2 * Below(group, v) + (IF equal > 1 THEN equal - 1 ELSE 0)
  IN  IF n <= 1 THEN <<1, 2>>
      ELSE <<IF higher THEN twice ELSE 2 * (n - 1) - twice, 2 * (n - 1)>>

AsPercent(share) == Rounded(100 * share[1], share[2])

Median(values) ==
  LET s == StableSort(values, Less)
      mid == Len(s) \div 2
  IN  IF s = <<>> THEN NoValue
      ELSE IF Len(s) % 2 = 1 THEN s[mid + 1] ELSE Average(s[mid], s[mid + 1])

Peers       == 2 .. Len(companies)
ActivePeers == Peers \ excluded
FiguresOf(metric, places) ==
  LET have == {c \in places : IsFigure(companies[c][metric])}
  IN  Mapped(AtPositions(companies, have), LAMBDA company : company[metric])
Group(metric) == FiguresOf(metric, {1} \cup ActivePeers)
Rank(metric, v) == Percentile(Group(metric), v, HigherIsBetter[metric])

\* buildRadarData; nothing is drawn without peers.
Radar ==
  IF ActivePeers = {} THEN NoValue
  ELSE [metric \in METRICS |->
         LET Of(c)  == companies[c][metric]
             median == Median(FiguresOf(metric, ActivePeers))
         IN  [target |-> IF IsFigure(Of(1)) THEN AsPercent(Rank(metric, Of(1))) ELSE 0,
              median |-> IF IsFigure(median) THEN AsPercent(Rank(metric, median)) ELSE 50,
              peers  |-> [c \in {d \in ActivePeers : IsFigure(Of(d))} |->
                            AsPercent(Rank(metric, Of(c)))]]]

\* RadarChart: the corners of the polygons, kept within the outer ring; what has
\* no rank is drawn at the centre.
RadarChart ==
  LET Radius(rank) == IF rank < 0 THEN 0 ELSE IF rank > 100 THEN 100 ELSE rank
      RankOf(metric, c) == IF c \in DOMAIN Radar[metric].peers THEN Radar[metric].peers[c] ELSE 0
  IN  [target |-> [metric \in METRICS |-> Radius(Radar[metric].target)],
       median |-> [metric \in METRICS |-> Radius(Radar[metric].median)],
       peers  |-> [c \in ActivePeers |-> [metric \in METRICS |-> Radius(RankOf(metric, c))]]]

\* Drawn instead, without peers.
EmptyPeersNote == [note |-> IF universe = 0 THEN "noBundledPeers" ELSE "allPeersExcluded"]

\* buildInsights: from 80 up, and from 20 down.
Insights ==
  LET Told(metric) == IsFigure(companies[1][metric]) /\ Len(Group(metric)) >= 2
      Share(metric) == Rank(metric, companies[1][metric])
  IN
  IF ActivePeers = {} THEN [metric \in {} |-> NoValue]
  ELSE [metric \in {m \in METRICS : Told(m) /\ (\/ 5 * Share(m)[1] >= 4 * Share(m)[2]
                                                \/ 5 * Share(m)[1] <= Share(m)[2])} |->
          IF 5 * Share(metric)[1] >= 4 * Share(metric)[2] THEN "pos" ELSE "neg"]

\* sortedPeers: all peers, those without a figure last in either direction.
SortedPeers ==
  LET Before(a, b) ==
        LET x == companies[a][sorting.key]
            y == companies[b][sorting.key]
        IN  IF ~IsFigure(x) THEN FALSE ELSE IF ~IsFigure(y) THEN TRUE
            ELSE IF sorting.descends THEN Less(y, x) ELSE Less(x, y)
      rows == [i \in 1 .. Len(companies) - 1 |-> i + 1]
  IN  IF sorting = NoValue THEN rows ELSE StableSort(rows, Before)

Medians ==
  IF ActivePeers = {} THEN NoValue
  ELSE [metric \in METRICS |-> Median(FiguresOf(metric, ActivePeers))]

PeerTable ==
  [rows   |-> SortedPeers,
   dimmed |-> {i \in DOMAIN SortedPeers : SortedPeers[i] \in excluded},
   median |-> Medians]

\* The note of a quick take without insights.
QuickTake ==
  IF DOMAIN Insights # {} THEN [told |-> Insights]
  ELSE [note |-> IF Peers = {} THEN "noPeerData" ELSE "inLineWithPeers"]

PeerPage ==
  [target |-> companies[1], active |-> Cardinality(ActivePeers), of |-> Cardinality(Peers),
   radar  |-> IF ActivePeers = {} THEN EmptyPeersNote ELSE RadarChart,
   table  |-> PeerTable, quickTake |-> QuickTake]

------------------------------------------------------------------------------
Shown(known) == Mapped(known, DeriveMetricsFromFacts)

ViewInit ==
  /\ \E result \in Benchmarks :
       companies = Shown(result.known) /\ universe = result.universe
  /\ excluded = {} /\ sorting = NoValue

\* A search, or a suggestion of the form, is a page load: nothing is kept.
Load(result) ==
  /\ companies' = Shown(result.known) /\ universe' = result.universe
  /\ excluded' = {} /\ sorting' = NoValue

TogglePeer(c) ==
  /\ excluded' = IF c \in excluded THEN excluded \ {c} ELSE excluded \cup {c}
  /\ UNCHANGED <<companies, universe, sorting>>

ToggleSort(metric) ==
  /\ sorting' = [key |-> metric,
                 descends |-> IF sorting = NoValue THEN TRUE
                              ELSE sorting.key = metric => ~sorting.descends]
  /\ UNCHANGED <<companies, universe, excluded>>

ViewNext ==
  \/ \E result \in Benchmarks : Load(result)
  \/ \E c \in Peers : TogglePeer(c)
  \/ \E metric \in METRICS : ToggleSort(metric)

ViewSpec == ViewInit /\ [][ViewNext]_viewVars

------------------------------------------------------------------------------
\* "Percentile rank within peer group, higher = better" (PeerBenchmarkClient):
\* of two that are charted the better one ranks higher, equals rank the same,
\* the unrounded ranks of a group average one half, and a target praised for a
\* metric is beaten there by at most a fifth of the others, one said to lag
\* beats at most a fifth of them.
RanksFollowMetrics ==
  \A metric \in METRICS :
    LET group == Group(metric)
        Better(v, w) == IF HigherIsBetter[metric] THEN Less(w, v) ELSE Less(v, w)
        Beating(v)   == Cardinality({i \in DOMAIN group : Better(group[i], v)})
        Beaten(v)    == Cardinality({i \in DOMAIN group : Better(v, group[i])})
        take == PeerPage.quickTake
        told == IF "told" \in DOMAIN take THEN DOMAIN take.told ELSE {}
    IN
    /\ \A i, j \in DOMAIN group :
         Better(group[i], group[j]) = Less(Rank(metric, group[j]), Rank(metric, group[i]))
    /\ Len(group) > 1 =>
         SumOf(Mapped(group, LAMBDA v : Rank(metric, v)[1])) = Len(group) * (Len(group) - 1)
    /\ metric \in told /\ take.told[metric] = "pos" =>
         5 * Beating(companies[1][metric]) <= Len(group) - 1
    /\ metric \in told /\ take.told[metric] = "neg" =>
         5 * Beaten(companies[1][metric]) <= Len(group) - 1

\* Table and radar tell the same story: sorted by a metric the table still lists
\* every peer once, those without a figure last, it dims all but the active ones,
\* the ranks of the charted peers never turn back on the way down, and the median
\* is drawn between the lowest and the highest of them.
TableAgreesWithRadar ==
  LET page == PeerPage
      rows == page.table.rows
      Has(c)   == IsFigure(companies[c][sorting.key])
      Place(c) == page.radar.peers[c][sorting.key]
  IN
  /\ ToSet(rows) = Peers /\ Len(rows) = page.of
  /\ Len(rows) - Cardinality(page.table.dimmed) = page.active
  /\ sorting # NoValue =>
       \A i, j \in DOMAIN rows : i < j /\ Has(rows[j]) =>
         /\ Has(rows[i])
         /\ {rows[i], rows[j]} \subseteq ActivePeers =>
              IF sorting.descends = HigherIsBetter[sorting.key]
              THEN Place(rows[i]) >= Place(rows[j]) ELSE Place(rows[i]) <= Place(rows[j])
  /\ "note" \in DOMAIN page.radar =>
       page.active = 0 /\ (page.radar.note = "noBundledPeers" => rows = <<>>)
  /\ "median" \in DOMAIN page.radar =>
       \A metric \in METRICS :
         LET charted == {page.radar.peers[c][metric] : c \in {d \in ActivePeers : IsFigure(companies[d][metric])}}
         IN  charted # {} => /\ \E r \in charted : r <= page.radar.median[metric]
                             /\ \E r \in charted : r >= page.radar.median[metric]

\* Ranks, table and insights tell one story of the same metrics.
OneStory == RanksFollowMetrics /\ TableAgreesWithRadar
=============================================================================
