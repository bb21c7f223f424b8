------------------------------ MODULE Screener ------------------------------
(***************************************************************************)
(* The stock screener: the page (app/screener/page.tsx with the screener   *)
(* components of packages/ui), GET /api/v1/screener and the query layer    *)
(* both use (lib/api/screener.ts).  A query is the parameters of an        *)
(* address, min and max of every field, that a visitor edits one at a      *)
(* time.  Figures are small integers; both sides keep a copy of the rows.  *)
(***************************************************************************)
EXTENDS WebLists

CONSTANTS Fields,      \* field -> its category
          PageParams,  \* the parameters the page knows, as <<"min" or "max", field>>
          Corpus,      \* the rows: fields to figures, NoValue for null
          MAX_RESULTS, \* 200
          Figures      \* what may be asked for

ASSUME ScreenerAssumption ==
  /\ PageParams \subseteq {"min", "max"} \X DOMAIN Fields
  /\ \A field \in DOMAIN Fields : <<"min", field>> \notin PageParams \/ <<"max", field>> \notin PageParams
  /\ Figures \subseteq Int /\ 0 \in Figures /\ MAX_RESULTS \in Nat \ {0}
  /\ Corpus \in Seq([DOMAIN Fields -> Int \cup {NoValue}]) /\ NoValue \notin Int

VARIABLES params \* the text of each parameter: a figure, "" if missing, " ", or no number

screenerVars == <<params>>

Params == {"min", "max"} \X DOMAIN Fields
Texts  == [is : {"number"}, of : Figures] \cup {[is |-> "missing"], [is |-> "spaces"], [is |-> "junk"]}

ScreenerInit == params = [p \in Params |-> [is |-> "missing"]]

Edit(p, text) == params' = [params EXCEPT ![p] = text]

ScreenerNext == \E p \in Params, text \in Texts : Edit(p, text)

ScreenerSpec == ScreenerInit /\ [][ScreenerNext]_screenerVars

------------------------------------------------------------------------------
\* A filter is the limits asked for, a function of some of the parameters.

\* normalizeScreenerFilters, for which an empty range is an error.
Consistent(filter) ==
  \A field \in DOMAIN Fields :
    {<<"min", field>>, <<"max", field>>} \subseteq DOMAIN filter =>
      filter[<<"min", field>>] <= filter[<<"max", field>>]

\* Variant: a row without the figure is in every range of it.
MatchesLimitOrNone(row, p, limit) ==
  LET value == row[p[2]]
  IN  IF value = NoValue THEN TRUE ELSE IF p[1] = "min" THEN value >= limit ELSE value <= limit

\* matchesRange: a row without the figure is in no range of it.
MatchesLimit(row, p, limit) ==
  LET value == row[p[2]]
  IN  value # NoValue /\ (IF p[1] = "min" THEN value >= limit ELSE value <= limit)

MatchesScreenerFilters(row, filter) ==
  \A p \in DOMAIN filter : MatchesLimit(row, p, filter[p])

FilterScreenerRows(filter) ==
  LET matched == AtPositions(Corpus, {i \in DOMAIN Corpus : MatchesScreenerFilters(Corpus[i], filter)})
  IN  [filtersApplied |-> filter, rows |-> Cut(matched, MAX_RESULTS), totalMatched |-> Len(matched)]

\* parseFiniteNumber and readRange: what is no number is an error.
NormalizeScreenerQuery ==
  [p \in {q \in Params : params[q].is = "number"} |-> params[p].of]

GetScreener ==
  IF \/ \E p \in Params : params[p].is = "junk"
     \/ ~Consistent(NormalizeScreenerQuery)
  THEN [status |-> 400]
  ELSE [status |-> 200, body |-> FilterScreenerRows(NormalizeScreenerQuery)]

\* Variant: a zero is not asked for.
ParseTruthyFilters ==
  LET asked == {q \in PageParams : params[q].is = "number"}
  IN  [p \in {q \in asked : params[q].of # 0} |-> params[p].of]

\* safeParseNumber: what is no number is not asked for, and spaces are a zero.
ParseActiveFilters ==
  [p \in {q \in PageParams : params[q].is \in {"number", "spaces"}} |->
     IF params[p].is = "number" THEN params[p].of ELSE 0]

\* A chip for each category in use, a label for each limit, a table or a notice.
ScreenerPage ==
  LET filter == ParseActiveFilters
      result == FilterScreenerRows(filter)
  IN  [chips   |-> {Fields[p[2]] : p \in DOMAIN filter},
       summary |-> [labels |-> filter, all |-> DOMAIN filter = {}, total |-> result.totalMatched],
       table   |-> [rows |-> result.rows, partial |-> result.totalMatched > Len(result.rows)]]

------------------------------------------------------------------------------
\* Page and API read an address alike but for blanks.  If the API accepts it and it
\* asks for nothing the page does not offer, the page sums up the filters the API
\* applied and, for each blank text, a limit of zero: no limit to the API, which trims
\* (helpers.ts:67), but not to the page, though its reading is said to return
\* "`undefined` for empty/invalid values" (page.tsx:135).  Without blanks it shows the
\* API's rows and total, and blanks only leave rows out.
PageMirrorsScreenerApi ==
  LET page    == ScreenerPage
      api     == GetScreener.body
      blank   == {p \in Params : params[p].is = "spaces"}
      offered == \A p \in Params : params[p].is # "missing" => p \in PageParams
  IN
  GetScreener.status = 200 /\ offered =>
    /\ page.summary.labels = [p \in DOMAIN api.filtersApplied \cup blank |->
                               IF p \in blank THEN 0 ELSE api.filtersApplied[p]]
    /\ blank = {} => page.table.rows = api.rows /\ page.summary.total = api.totalMatched
    /\ page.summary.total <= api.totalMatched

\* One limit is added or tightened and no other one touched.
Tighter(p) ==
  /\ {params[p].is, params'[p].is} \subseteq {"missing", "number"} /\ params'[p].is = "number"
  /\ params[p].is = "number" =>
       IF p[1] = "min" THEN params'[p].of >= params[p].of ELSE params'[p].of <= params[p].of
  /\ \A q \in Params \ {p} : params'[q] = params[q]

Narrower(p) ==
  /\ ScreenerPage.summary.total >= ScreenerPage.summary.total'
  /\ GetScreener.status = 200 /\ GetScreener'.status = 200 =>
       LET before == GetScreener.body
           after  == GetScreener'.body
       IN  /\ after.totalMatched <= before.totalMatched
           /\ ~(before.totalMatched > Len(before.rows)) => ToSet(after.rows) \subseteq ToSet(before.rows)
           /\ \A row \in ToSet(after.rows) : row[p[2]] # NoValue

\* Asking for more never finds more: a limit added or tightened leaves out rows
\* and lets none in, on the page and in the API, and the rows left are whole up to
\* the cut; a limit that a row without the figure cannot meet leaves it out.
TighteningNarrows == [][\A p \in Params : Tighter(p) => Narrower(p)]_screenerVars
=============================================================================
