------------------------------- MODULE Charts -------------------------------
(***************************************************************************)
(* The data behind the charts (apps/web/lib/charts) and their drawing      *)
(* (packages/ui/src/components/charts): pay mix, insider heatmap,          *)
(* restatement diffs, peer valuation, margin bridge, small multiples and   *)
(* sparkline.  A dataset is put together one entry at a time and drawn at  *)
(* any point; the validators say which are fit to be drawn.  Names, labels *)
(* and colours are left out; lengths on screen are shares of the plot, or  *)
(* pixels of it where one matters, as pairs <<numerator, denominator>>.    *)
(***************************************************************************)
EXTENDS WebLists

CONSTANTS Components,    \* PAY_COMPONENT_ORDER, a sequence
          HeatRoles,     \* INSIDER_ROLE_ORDER
          HeatMonths,    \* the months of a heatmap, in order; a cell may name another one
          Entries,       \* chart -> what its dataset may be made of
          MaterialityPct,
          MaxEntries     \* bound: entries of a dataset

\* The numbers an entry has.
Drawable(name, entry) ==
  /\ name = "payMix" => \A c \in ToSet(Components) : entry.components[c] \in Int
  /\ name = "heatmap" => {entry.count, entry.net, entry.gross} \subseteq Int
  /\ name = "restatement" => {entry.original, entry.restated} \subseteq Int
  /\ name = "valuation" => /\ {entry.forwardPE, entry.evToEbitda} \subseteq Int
                           /\ entry.role \in {"subject", "peer"}
  /\ name \in {"waterfall", "series"} => entry.value \in Int

ASSUME ChartsAssumption ==
  /\ Components \in Seq(ToSet(Components)) /\ Components # <<>>
  /\ HeatRoles \in Seq(ToSet(HeatRoles)) /\ IsInjective(HeatRoles)
  /\ HeatMonths \in Seq(ToSet(HeatMonths))
  /\ \A name \in DOMAIN Entries : \A entry \in Entries[name] : Drawable(name, entry)
  /\ MaterialityPct \in Nat \ {0}

VARIABLES chart, \* which one
          data   \* its entries, in order

chartsVars == <<chart, data>>

ChartsInit == chart \in DOMAIN Entries /\ data = <<>>

AddEntry(entry) ==
  /\ Len(data) < MaxEntries
  /\ data' = Append(data, entry)
  /\ UNCHANGED chart

ChartsNext == \E entry \in Entries[chart] : AddEntry(entry)

ChartsSpec == ChartsInit /\ [][ChartsNext]_chartsVars

Biggest(S)    == CHOOSE n \in S : \A m \in S : m <= n
Smallest(S)   == CHOOSE n \in S : \A m \in S : n <= m
Distinct(Key(_)) == \A i, j \in DOMAIN data : Key(data[i]) = Key(data[j]) => i = j

------------------------------------------------------------------------------
\* Pay mix: an entry is an executive with a value for each component.

TotalPay(row) == SumOf(Mapped(Components, LAMBDA c : row.components[c]))

\* A segment starts where those below it end.
PayMixStack(row) ==
  LET n == Len(Components)
      running[i \in 0 .. n] == IF i = 0 THEN 0 ELSE running[i - 1] + row.components[Components[i]]
  IN  [total    |-> running[n],
       segments |-> [i \in 1 .. n |-> [start |-> running[i - 1], end |-> running[i]]]]

\* In hundredths of a percent.
PayMixPercent(row) ==
  Mapped(Components, LAMBDA c :
    IF TotalPay(row) > 0 THEN Rounded(10000 * row.components[c], TotalPay(row)) ELSE 0)

AggregatePayMix ==
  LET totals == [c \in ToSet(Components) |-> SumOf(Mapped(data, LAMBDA row : row.components[c]))]
  IN  [totals |-> totals, grandTotal |-> SumOf(Mapped(Components, LAMBDA c : totals[c]))]

ValidateExecutivePayMix ==
  /\ data # <<>> /\ Distinct(LAMBDA row : row.name)
  /\ \A row \in ToSet(data) :
       TotalPay(row) > 0 /\ \A c \in ToSet(Components) : row.components[c] >= 0

------------------------------------------------------------------------------
\* Insider heatmap: an entry is a cell of a role and a month.

ZeroCell(role, month) == [role |-> role, month |-> month, count |-> 0, net |-> 0, gross |-> 0]

\* A row for each role; of two cells for one place the later one stands.
HeatmapGrid ==
  [role \in ToSet(HeatRoles) |->
     Mapped(HeatMonths, LAMBDA month :
       LET here == Where(data, LAMBDA cell : cell.role = role /\ cell.month = month)
       IN  IF here = <<>> THEN ZeroCell(role, month) ELSE Last(here))]

Totals(cells) ==
  [count |-> SumOf(Mapped(cells, LAMBDA cell : cell.count)),
   net   |-> SumOf(Mapped(cells, LAMBDA cell : cell.net)),
   gross |-> SumOf(Mapped(cells, LAMBDA cell : cell.gross))]

RoleTotals  == [role \in ToSet(HeatRoles) |-> Totals(Where(data, LAMBDA cell : cell.role = role))]
MonthTotals == [month \in ToSet(HeatMonths) |-> Totals(Where(data, LAMBDA cell : cell.month = month))]

\* In ten-thousandths of the largest cell.
HeatmapIntensities ==
  LET max == Biggest({0} \cup {cell.gross : cell \in ToSet(data)})
  IN  Mapped(data, LAMBDA cell :
        [intensity |-> IF max > 0 THEN Rounded(10000 * cell.gross, max) ELSE 0,
         direction |-> IF cell.net > 0 THEN 1 ELSE IF cell.net < 0 THEN -1 ELSE 0])

ValidateInsiderHeatmap ==
  /\ HeatMonths # <<>> /\ IsInjective(HeatMonths)
  /\ data # <<>> /\ Distinct(LAMBDA cell : <<cell.role, cell.month>>)
  /\ \A cell \in ToSet(data) : /\ cell.month \in ToSet(HeatMonths) /\ cell.role \in ToSet(HeatRoles)
                               /\ cell.count >= 0 /\ cell.gross >= Magnitude(cell.net)

------------------------------------------------------------------------------
\* Restatement diffs: an entry is a line item before and after.

\* The change is in hundredths of a percent; from nothing there is none.
Diff(item) ==
  LET delta == item.restated - item.original
      pct   == IF item.original = 0 THEN 0 ELSE Rounded(10000 * delta, Magnitude(item.original))
  IN  [lineItem |-> item.lineItem, delta |-> delta, pctChange |-> pct,
       isMaterial |-> Magnitude(pct) >= 100 * MaterialityPct]

RestatementDiffs == Mapped(data, Diff)
MaterialDiffs    == Where(RestatementDiffs, LAMBDA d : d.isMaterial)

\* The first of the largest changes.
RestatementSummary ==
  LET diffs == RestatementDiffs
      max[n \in 0 .. Len(diffs)] ==
        IF n = 0 THEN [pct |-> 0, lineItem |-> NoValue]
        ELSE IF Magnitude(diffs[n].pctChange) > max[n - 1].pct
             THEN [pct |-> Magnitude(diffs[n].pctChange), lineItem |-> diffs[n].lineItem]
             ELSE max[n - 1]
  IN  [itemCount |-> Len(diffs), materialCount |-> Len(MaterialDiffs),
       maxAbsPctChange |-> max[Len(diffs)].pct, maxAbsPctLineItem |-> max[Len(diffs)].lineItem]

------------------------------------------------------------------------------
\* Peer valuation: an entry is a company with its two multiples.

PeersOf(metric) == Mapped(Where(data, LAMBDA p : p.role = "peer"), LAMBDA p : p[metric])

\* Twice the median.
TwiceMedian(values) ==
  LET s == StableSort(values, LAMBDA a, b : a < b)
      mid == Len(s) \div 2
  IN  IF Len(s) % 2 = 0 THEN s[mid] + s[mid + 1] ELSE 2 * s[mid + 1]

\* The mean in hundredths; nothing to average is not a number.
PeerStats(metric) ==
  IF PeersOf(metric) = <<>> THEN [defined |-> FALSE]
  ELSE [defined |-> TRUE, mean |-> Rounded(100 * SumOf(PeersOf(metric)), Len(PeersOf(metric))),
        median |-> TwiceMedian(PeersOf(metric))]

\* The square of twice the distance: rounding keeps its order.
ValuationDistance(p) ==
  LET dx == 2 * p.forwardPE - PeerStats("forwardPE").median
      dy == 2 * p.evToEbitda - PeerStats("evToEbitda").median
  IN  dx * dx + dy * dy

ValidatePeerValuation ==
  /\ Len(data) >= 2 /\ Distinct(LAMBDA p : p.ticker)
  /\ Len(Where(data, LAMBDA p : p.role = "subject")) = 1
  /\ \A p \in ToSet(data) : p.forwardPE > 0 /\ p.evToEbitda > 0

------------------------------------------------------------------------------
\* Variant: every bar starts afresh.
PositionsFromZero == Mapped(data, LAMBDA seg : [start |-> 0, end |-> seg.value])

\* Margin bridge: an absolute bar starts afresh, a delta where the last one ended.
ComputePositions ==
  LET at[n \in 0 .. Len(data)] ==
        IF n = 0 THEN [start |-> 0, end |-> 0]
        ELSE IF data[n].kind = "absolute" THEN [start |-> 0, end |-> data[n].value]
        ELSE [start |-> at[n - 1].end, end |-> at[n - 1].end + data[n].value]
  IN  [n \in DOMAIN data |-> at[n]]

\* The height of the plot, in pixels.
PLOT_H == 240

\* The scale spans all bars and zero.  In pixels from the top of the plot: where a
\* bar begins and how high it is, one pixel at least, and where it starts and ends.
WaterfallBars ==
  LET levels == UNION {{p.start, p.end} : p \in ToSet(ComputePositions)}
      min    == Smallest({0} \cup levels)
      range  == IF Biggest(levels) = min THEN 1 ELSE Biggest(levels) - min
      ToY(v) == <<PLOT_H * (range - (v - min)), range>>
      bottom(p) == ToY(Smallest({p.start, p.end}))[1]
      top(p)    == ToY(Biggest({p.start, p.end}))[1]
  IN  Mapped(ComputePositions, LAMBDA p :
        [top |-> <<top(p), range>>, height |-> <<Biggest({range, bottom(p) - top(p)}), range>>,
         connector |-> ToY(p.start), level |-> ToY(p.end)])

ValidateWaterfall ==
  Len(data) >= 2 /\ data[1].kind = "absolute" /\ Last(data).kind = "absolute"

\* The largest power of ten that is not above v.
PowerOfTen(v) ==
  LET power[n \in 1 .. v] == IF n < 10 THEN 1 ELSE 10 * power[n \div 10] IN power[v]

\* Small multiples: a bar's height against the first digit of the largest, rounded
\* up; a negative figure has a negative one.
NiceMax(v) ==
  IF v <= 0 THEN 1 ELSE ((v + PowerOfTen(v) - 1) \div PowerOfTen(v)) * PowerOfTen(v)

PanelHeights ==
  LET max == NiceMax(Biggest({d.value : d \in ToSet(data)}))
  IN  Mapped(data, LAMBDA d : <<d.value, max>>)

\* Sparkline: heights between the smallest and the largest value, or all half-way.
Sparkline ==
  LET values == {d.value : d \in ToSet(data)}
      range  == Biggest(values) - Smallest(values)
  IN  [ys |-> Mapped(data, LAMBDA d : IF range = 0 THEN <<1, 2>> ELSE <<d.value - Smallest(values), range>>),
       direction |-> IF Last(data).value > data[1].value THEN "up"
                     ELSE IF Last(data).value < data[1].value THEN "down" ELSE "flat"]

------------------------------------------------------------------------------
\* "The grand total ... matches the sum of totalsByComponent", "sums to ~100, modulo
\* rounding" (executivePayMix.ts:262, 228): the stacks of a valid pay mix rise
\* without gaps to totals that add up to the grand total, and its percentages miss
\* a hundred by half a hundredth a component at most.
PayMixAddsUp ==
  chart = "payMix" /\ ValidateExecutivePayMix =>
    /\ SumOf(Mapped(data, LAMBDA row : PayMixStack(row).total)) = AggregatePayMix.grandTotal
    /\ \A row \in ToSet(data) :
         LET segments == PayMixStack(row).segments
         IN  /\ segments[1].start = 0 /\ Last(segments).end = TotalPay(row)
             /\ \A i \in 2 .. Len(segments) : segments[i].start = segments[i - 1].end
             /\ 2 * Magnitude(SumOf(PayMixPercent(row)) - 10000) <= Len(Components)

RolesAddUp ==
  \A role \in ToSet(HeatRoles) :
    /\ RoleTotals[role].net = SumOf(Mapped(HeatmapGrid[role], LAMBDA cell : cell.net))
    /\ RoleTotals[role].count = SumOf(Mapped(HeatmapGrid[role], LAMBDA cell : cell.count))

MonthsAddUp ==
  \A k \in DOMAIN HeatMonths :
    MonthTotals[HeatMonths[k]].gross = SumOf(Mapped(HeatRoles, LAMBDA role : HeatmapGrid[role][k].gross))

\* A valid heatmap adds up both ways: what its grid shows of a role or of a month
\* is that row's or column's total, and the darkest cell is its largest.
HeatmapAddsUp ==
  chart = "heatmap" /\ ValidateInsiderHeatmap =>
    /\ RolesAddUp /\ MonthsAddUp
    /\ \A i, j \in DOMAIN data :
         data[i].gross < data[j].gross =>
           HeatmapIntensities[i].intensity <= HeatmapIntensities[j].intensity
    /\ (\E cell \in ToSet(data) : cell.gross > 0) =>
         \E i \in DOMAIN data : HeatmapIntensities[i].intensity = 10000

\* The summary of a restatement and its list of material changes tell the same: as
\* many as are listed, and the largest change is among them if any is.
SummaryMatchesDiffs ==
  chart = "restatement" =>
    LET summary == RestatementSummary
        material == MaterialDiffs
    IN
    /\ summary.materialCount = Len(material) /\ summary.itemCount = Len(data)
    /\ \A d \in ToSet(RestatementDiffs) : Magnitude(d.pctChange) <= summary.maxAbsPctChange
    /\ material # <<>> <=> summary.maxAbsPctChange >= 100 * MaterialityPct
    /\ material # <<>> => \E d \in ToSet(material) :
                            /\ d.lineItem = summary.maxAbsPctLineItem
                            /\ Magnitude(d.pctChange) = summary.maxAbsPctChange

\* "Compute summary statistics for the peer set (excluding subject)"
\* (peerValuationScatter.ts:79): valid data has peers to compare with, half of them
\* on either side of the median, and the subject's own multiples change nothing.
PeersGiveTheCentre ==
  chart = "valuation" /\ ValidatePeerValuation =>
    \A metric \in {"forwardPE", "evToEbitda"} :
      LET stats == PeerStats(metric)
          values == PeersOf(metric)
      IN
      /\ stats.defined
      /\ 2 * Cardinality({i \in DOMAIN values : 2 * values[i] < stats.median}) <= Len(values)
      /\ 2 * Cardinality({i \in DOMAIN values : 2 * values[i] > stats.median}) <= Len(values)
      /\ Len(values) = Len(data) - 1
      /\ Len(data) = 2 => \E p \in ToSet(data) : p.role = "peer" /\ ValuationDistance(p) = 0

Within(y) == y[1] >= 0 /\ y[1] <= y[2]

\* A bar of a bridge rises or falls to scale from where the one before it ended, or
\* from one base line.  It is as tall as its step is large, but a step of less than
\* a pixel is a pixel tall; only such a bar may pass the foot of the plot, by a pixel.
BridgeToScale ==
  \A i \in DOMAIN data :
    LET bar   == WaterfallBars[i]
        pixel == bar.top[2]
        size  == PLOT_H * Magnitude(data[i].value)
        foot  == bar.top[1] + bar.height[1]
    IN  /\ bar.connector[1] - bar.level[1] = PLOT_H * data[i].value
        /\ bar.height[1] = IF size < pixel THEN pixel ELSE size
        /\ bar.top[1] >= 0 /\ foot <= (IF size < pixel THEN PLOT_H + 1 ELSE PLOT_H) * pixel
        /\ bar.connector = IF data[i].kind = "absolute" THEN WaterfallBars[1].connector
                           ELSE WaterfallBars[i - 1].level

\* On one scale what is larger stands higher, of what stands in the plot.
Ordered(ys) ==
  \A i, j \in DOMAIN data :
    data[i].value < data[j].value /\ Within(ys[i]) => ys[i][1] < ys[j][1] /\ ys[i][2] = ys[j][2]

\* A sparkline stays within its plot.  Of the bars of small multiples those of the
\* figures from zero up do, and no others: a negative figure has no bar to be seen.
SeriesToScale ==
  /\ \A i \in DOMAIN data :
       Within(Sparkline.ys[i]) /\ (Within(PanelHeights[i]) <=> data[i].value >= 0)
  /\ Ordered(Sparkline.ys) /\ Ordered(PanelHeights)
  /\ (Sparkline.direction = "up") = (Sparkline.ys[1][1] < Last(Sparkline.ys)[1])

\* The drawing shows the data, a bridge that passes its validator and any series,
\* with the two exceptions named: a step of less than a pixel, a negative panel.
DrawnToScale ==
  /\ chart = "waterfall" /\ ValidateWaterfall => BridgeToScale
  /\ chart = "series" /\ data # <<>> => SeriesToScale

\* What a chart draws is what its data say, once they pass its validator.
ChartsTellTheData ==
  PayMixAddsUp /\ HeatmapAddsUp /\ SummaryMatchesDiffs /\ PeersGiveTheCentre /\ DrawnToScale
=============================================================================
