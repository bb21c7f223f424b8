----------------------------- MODULE WebProofs ------------------------------
(***************************************************************************)
(* The web app, for any rows and keys: the screener's page and API agree   *)
(* and a tighter query never finds more; the request log can be audited    *)
(* against the keys.                                                       *)
(***************************************************************************)
EXTENDS CompanyFacts, FilingReads, ApiKeys, Screener, SelectionProofs, SequenceTheorems

------------------------------------------------------------------------------
(* The screener. *)

ParamsTyped == params \in [Params -> Texts]

LEMMA ScreenerTyped == ScreenerSpec => []ParamsTyped
<1>1. ScreenerInit => ParamsTyped
  BY DEF ScreenerInit, ParamsTyped, Texts
<1>2. ParamsTyped /\ [ScreenerNext]_screenerVars => ParamsTyped'
  BY DEF ParamsTyped, ScreenerNext, Edit, screenerVars
<1> QED
  BY <1>1, <1>2, PTL DEF ScreenerSpec

Offered == \A p \in Params : params[p].is # "missing" => p \in PageParams
Blank   == {p \in Params : params[p].is = "spaces"}

\* What the page does not offer is missing and what is no number is absent: of such
\* an address the page reads what the API reads, and a zero for each blank.
LEMMA PageReads ==
  ASSUME Offered
  PROVE  LET f == NormalizeScreenerQuery
         IN  /\ ParseActiveFilters = [p \in DOMAIN f \cup Blank |-> IF p \in Blank THEN 0 ELSE f[p]]
             /\ DOMAIN f \cap Blank = {}
             /\ Blank = {} => ParseActiveFilters = f
<1> DEFINE offered == {q \in PageParams : params[q].is \in {"number", "spaces"}}
           asked   == {q \in Params : params[q].is = "number"}
<1>1. PageParams \subseteq Params
  BY ScreenerAssumption DEF Params
<1>2. offered = asked \cup Blank
  BY <1>1 DEF Offered, Blank
<1>3. /\ \A p \in asked : params[p].is = "number" /\ p \notin Blank
      /\ \A p \in Blank : params[p].is # "number"
  BY DEF Blank
<1> HIDE DEF offered, asked
<1>4. ParseActiveFilters = [p \in offered |-> IF params[p].is = "number" THEN params[p].of ELSE 0]
  BY DEF ParseActiveFilters, offered
<1>5. NormalizeScreenerQuery = [p \in asked |-> params[p].of]
  BY DEF NormalizeScreenerQuery, asked
<1> QED
  BY <1>2, <1>3, <1>4, <1>5

\* The rows a filter lets through, by their place.
Places(filter) == {i \in DOMAIN Corpus : MatchesScreenerFilters(Corpus[i], filter)}

\* What a page shows of a filter's rows is some of them, all if the cut leaves none out.
LEMMA FilteredRows ==
  ASSUME NEW filter
  PROVE  LET found == FilterScreenerRows(filter)
         IN  /\ IsFiniteSet(Places(filter))
             /\ found.totalMatched = Cardinality(Places(filter)) /\ found.totalMatched \in Nat
             /\ Len(found.rows) \in Nat
             /\ \A row \in ToSet(found.rows) : \E i \in Places(filter) : row = Corpus[i]
             /\ found.totalMatched <= Len(found.rows) =>
                  \A i \in Places(filter) : Corpus[i] \in ToSet(found.rows)
<1> DEFINE len     == Len(Corpus)
           S       == Places(filter)
           matched == AtPositions(Corpus, S)
           total   == Cardinality(S)
           shown   == IF MAX_RESULTS < total THEN MAX_RESULTS ELSE total
           rows    == SubSeq(matched, 1, shown)
<1>1. len \in Nat /\ S \in SUBSET (1 .. len)
  BY ScreenerAssumption DEF Places
<1>2. /\ IsFiniteSet(S) /\ total \in 0 .. len
      /\ DOMAIN matched = 1 .. total
      /\ \A k \in 1 .. total : Nth(S, k) \in S /\ matched[k] = Corpus[Nth(S, k)]
      /\ \A n \in S : \E k \in 1 .. total : Nth(S, k) = n
  BY <1>1, Positions
<1>3. matched \in Seq({Corpus[i] : i \in S}) /\ Len(matched) = total
  <2>1. matched = [k \in 1 .. total |-> Corpus[Nth(S, k)]]
    BY DEF AtPositions
  <2>2. \A k \in 1 .. total : Corpus[Nth(S, k)] \in {Corpus[i] : i \in S}
    BY <1>2
  <2> HIDE DEF matched, S, total
  <2> QED
    BY <1>2, <2>1, <2>2
<1>4. shown \in 0 .. total /\ shown <= total
  BY <1>2, ScreenerAssumption
<1>5. FilterScreenerRows(filter) = [filtersApplied |-> filter, rows |-> rows, totalMatched |-> total]
  <2>1. FilterScreenerRows(filter) =
          [filtersApplied |-> filter, rows |-> Cut(matched, MAX_RESULTS), totalMatched |-> Len(matched)]
    BY DEF FilterScreenerRows, Places
  <2>2. Cut(matched, MAX_RESULTS) = rows
    BY <1>3 DEF Cut
  <2> QED
    BY <1>3, <2>1, <2>2
<1>6. DOMAIN rows = 1 .. shown /\ Len(rows) = shown /\ \A k \in 1 .. shown : rows[k] = matched[k]
  <2> HIDE DEF matched, total, shown, S
  <2> QED
    BY <1>2, <1>3, <1>4
<1> HIDE DEF matched, total, shown, S, rows
<1>7. \A row \in ToSet(rows) : \E i \in S : row = Corpus[i]
  BY <1>2, <1>4, <1>6 DEF ToSet
<1>8. total <= Len(rows) => \A i \in S : Corpus[i] \in ToSet(rows)
  <2> SUFFICES ASSUME total <= Len(rows), NEW i \in S PROVE Corpus[i] \in ToSet(rows)
    OBVIOUS
  <2>1. PICK k \in 1 .. total : Nth(S, k) = i
    BY <1>2
  <2>2. k \in 1 .. shown /\ rows[k] = Corpus[i]
    BY <1>2, <1>4, <1>6, <2>1
  <2> QED
    BY <1>6, <2>2 DEF ToSet
<1>9. total \in Nat /\ Len(rows) \in Nat
  BY <1>2, <1>4, <1>6
<1> QED
  BY <1>2, <1>5, <1>7, <1>8, <1>9 DEF S, total

\* For any corpus and any address that the API accepts and the page offers in full:
\* blank texts apart, the page and the API (app/screener/page.tsx, the screener
\* route) read one query and find the same; a blank one can only leave rows out.
THEOREM PageAndApiAgree == ScreenerSpec => []PageMirrorsScreenerApi
<1>1. PageMirrorsScreenerApi
  <2>1. PICK blank, f, e : blank = Blank /\ f = NormalizeScreenerQuery /\ e = ParseActiveFilters
    OBVIOUS
  <2> SUFFICES ASSUME GetScreener.status = 200,
                      Offered
               PROVE  LET page == ScreenerPage
                          api  == GetScreener.body
                      IN  /\ page.summary.labels = [p \in DOMAIN api.filtersApplied \cup blank |->
                                                     IF p \in blank THEN 0 ELSE api.filtersApplied[p]]
                          /\ blank = {} => /\ page.table.rows = api.rows
                                           /\ page.summary.total = api.totalMatched
                          /\ page.summary.total <= api.totalMatched
    BY <2>1 DEF PageMirrorsScreenerApi, Offered, Blank
  <2>2. /\ e = [p \in DOMAIN f \cup blank |-> IF p \in blank THEN 0 ELSE f[p]]
        /\ DOMAIN f \cap blank = {}
        /\ blank = {} => e = f
    BY <2>1, PageReads
  <2>3. PICK found, shown : found = FilterScreenerRows(f) /\ shown = FilterScreenerRows(e)
    OBVIOUS
  <2>4. GetScreener = [status |-> 200, body |-> found]
    BY <2>1, <2>3 DEF GetScreener
  <2>5. found.filtersApplied = f
    BY <2>3 DEF FilterScreenerRows
  <2>6. /\ ScreenerPage.table.rows = shown.rows
        /\ ScreenerPage.summary.total = shown.totalMatched
        /\ ScreenerPage.summary.labels = e
    BY <2>1, <2>3 DEF ScreenerPage
  <2>7. \A p \in DOMAIN f : p \in DOMAIN e /\ e[p] = f[p]
    BY <2>2
  <2>8. Places(e) \subseteq Places(f)
    BY <2>7 DEF Places, MatchesScreenerFilters
  <2>9. /\ IsFiniteSet(Places(f)) /\ found.totalMatched = Cardinality(Places(f))
        /\ shown.totalMatched = Cardinality(Places(e))
    BY <2>3, FilteredRows
  <2>10. shown.totalMatched <= found.totalMatched
    BY <2>8, <2>9, FS_Subset
  <2> QED
    BY <2>2, <2>3, <2>4, <2>5, <2>6, <2>10
<1> QED
  BY <1>1, PTL

\* The filter g asks for all f does, and of p for as much or more.
Tightens(g, f, p) ==
  /\ DOMAIN f \subseteq Params /\ DOMAIN g = DOMAIN f \cup {p}
  /\ \A q \in DOMAIN f \ {p} : g[q] = f[q]
  /\ g[p] \in Int
  /\ p \in DOMAIN f => f[p] \in Int /\ IF p[1] = "min" THEN g[p] >= f[p] ELSE g[p] <= f[p]

LEMMA TighterPlaces ==
  ASSUME NEW p \in Params, NEW f, NEW g, Tightens(g, f, p)
  PROVE  /\ Places(g) \subseteq Places(f)
         /\ \A i \in Places(g) : Corpus[i][p[2]] # NoValue
<1> SUFFICES ASSUME NEW i \in Places(g)
             PROVE  i \in Places(f) /\ Corpus[i][p[2]] # NoValue
  OBVIOUS
<1>1. i \in DOMAIN Corpus /\ \A q \in DOMAIN f \cup {p} : MatchesLimit(Corpus[i], q, g[q])
  BY DEF Places, MatchesScreenerFilters, Tightens
<1>2. PICK value : value = Corpus[i][p[2]]
  OBVIOUS
<1>3. value \in Int \cup {NoValue}
  <2>1. p[2] \in DOMAIN Fields
    BY DEF Params
  <2>2. Corpus[i] \in [DOMAIN Fields -> Int \cup {NoValue}]
    BY <1>1, ScreenerAssumption
  <2> QED
    BY <1>2, <2>1, <2>2
<1>4. value # NoValue /\ (IF p[1] = "min" THEN value >= g[p] ELSE value <= g[p])
  BY <1>1, <1>2 DEF MatchesLimit
<1>5. ASSUME p \in DOMAIN f PROVE MatchesLimit(Corpus[i], p, f[p])
  <2>1. /\ g[p] \in Int /\ f[p] \in Int
        /\ IF p[1] = "min" THEN g[p] >= f[p] ELSE g[p] <= f[p]
    BY <1>5 DEF Tightens
  <2>2. IF p[1] = "min" THEN value >= f[p] ELSE value <= f[p]
    BY <1>3, <1>4, <2>1
  <2> QED
    BY <1>2, <1>4, <2>2 DEF MatchesLimit
<1>6. ASSUME NEW q \in DOMAIN f PROVE MatchesLimit(Corpus[i], q, f[q])
  <2>1. CASE q = p
    BY <1>5, <1>6, <2>1
  <2>2. CASE q # p
    BY <1>1, <1>6, <2>2 DEF Tightens
  <2> QED
    BY <2>1, <2>2
<1> QED
  BY <1>1, <1>2, <1>4, <1>6 DEF Places, MatchesScreenerFilters

\* A step that tightens one limit tightens what the API reads, and what the page
\* reads if it knows the limit.
LEMMA TighterQuery ==
  ASSUME ParamsTyped, ParamsTyped', NEW p \in Params, Tighter(p)
  PROVE  /\ Tightens(NormalizeScreenerQuery', NormalizeScreenerQuery, p)
         /\ IF p \in PageParams THEN Tightens(ParseActiveFilters', ParseActiveFilters, p)
            ELSE ParseActiveFilters' = ParseActiveFilters
<1> DEFINE asked   == {q \in Params : params[q].is = "number"}
           asked2  == {q \in Params : params'[q].is = "number"}
           active  == {q \in PageParams : params[q].is \in {"number", "spaces"}}
           active2 == {q \in PageParams : params'[q].is \in {"number", "spaces"}}
           Limit(text) == IF text.is = "number" THEN text.of ELSE 0
<1>1. PageParams \subseteq Params
  BY ScreenerAssumption DEF Params
<1>2. \A q \in Params : q # p => params'[q] = params[q]
  BY DEF Tighter
<1>3. /\ params'[p].is = "number" /\ params[p].is \in {"missing", "number"}
      /\ params[p].is = "number" =>
           IF p[1] = "min" THEN params'[p].of >= params[p].of ELSE params'[p].of <= params[p].of
  BY DEF Tighter
<1>4. /\ params'[p].of \in Int
      /\ params[p].is = "number" => params[p].of \in Int
  <2>1. params[p] \in Texts /\ params'[p] \in Texts
    BY DEF ParamsTyped
  <2>2. \A text \in Texts : text.is = "number" => text.of \in Int
    <3> SUFFICES ASSUME NEW text \in Texts, text.is = "number" PROVE text.of \in Int
      OBVIOUS
    <3>1. text \notin {[is |-> "missing"], [is |-> "spaces"], [is |-> "junk"]}
      OBVIOUS
    <3>2. text \in [is : {"number"}, of : Figures]
      BY <3>1 DEF Texts
    <3>3. text.of \in Figures
      BY <3>2
    <3> QED
      BY <3>3, ScreenerAssumption
  <2> QED
    BY <1>3, <2>1, <2>2
<1>5. asked2 = asked \cup {p} /\ (p \in asked <=> params[p].is = "number")
  BY <1>2, <1>3
<1>6. /\ p \in PageParams => active2 = active \cup {p} /\ (p \in active <=> params[p].is = "number")
      /\ p \notin PageParams => active2 = active
  BY <1>1, <1>2, <1>3
<1>7. PICK f, g : f = NormalizeScreenerQuery /\ g = NormalizeScreenerQuery'
  OBVIOUS
<1>8. f = [q \in asked |-> params[q].of] /\ g = [q \in asked2 |-> params'[q].of]
  BY <1>7 DEF NormalizeScreenerQuery
<1>9. PICK e, h : e = ParseActiveFilters /\ h = ParseActiveFilters'
  OBVIOUS
<1>10. e = [q \in active |-> Limit(params[q])] /\ h = [q \in active2 |-> Limit(params'[q])]
  BY <1>9 DEF ParseActiveFilters
<1>11. asked \subseteq Params /\ active \subseteq Params
  BY <1>1
<1> HIDE DEF asked, asked2, active, active2
<1>12. Tightens(g, f, p)
  BY <1>2, <1>3, <1>4, <1>5, <1>8, <1>11 DEF Tightens
<1>13. CASE p \in PageParams
  <2>1. Tightens(h, e, p)
    BY <1>2, <1>3, <1>4, <1>6, <1>10, <1>11, <1>13 DEF Tightens
  <2> QED
    BY <1>7, <1>9, <1>12, <1>13, <2>1
<1>14. CASE p \notin PageParams
  <2>1. \A q \in active : q \in Params /\ q # p
    BY <1>11, <1>14 DEF active
  <2>2. h = e
    BY <1>2, <1>6, <1>10, <1>14, <2>1
  <2> QED
    BY <1>7, <1>9, <1>12, <1>14, <2>2
<1> QED
  BY <1>13, <1>14

\* A limit added or tightened lets no row in and leaves out those without the figure.
THEOREM TighterQueriesNarrow == ScreenerSpec => TighteningNarrows
<1>1. ASSUME ParamsTyped, ParamsTyped', NEW p \in Params, Tighter(p)
      PROVE  Narrower(p)
  <2>1. PICK f, g : f = NormalizeScreenerQuery /\ g = NormalizeScreenerQuery'
    OBVIOUS
  <2>2. PICK e, h : e = ParseActiveFilters /\ h = ParseActiveFilters'
    OBVIOUS
  <2>3. Tightens(g, f, p) /\ (h = e \/ Tightens(h, e, p))
    BY <1>1, <2>1, <2>2, TighterQuery
  <2>4. ASSUME NEW a, NEW b, Tightens(b, a, p)
        PROVE  /\ FilterScreenerRows(b).totalMatched <= FilterScreenerRows(a).totalMatched
               /\ Places(b) \subseteq Places(a)
               /\ \A i \in Places(b) : Corpus[i][p[2]] # NoValue
    <3>1. Places(b) \subseteq Places(a) /\ \A i \in Places(b) : Corpus[i][p[2]] # NoValue
      BY <1>1, <2>4, TighterPlaces
    <3>2. Cardinality(Places(b)) <= Cardinality(Places(a))
      BY <3>1, FilteredRows, FS_Subset
    <3> QED
      BY <3>1, <3>2, FilteredRows
  <2>5. ScreenerPage.summary.total >= ScreenerPage.summary.total'
    <3>1. /\ ScreenerPage.summary.total = FilterScreenerRows(e).totalMatched
          /\ ScreenerPage.summary.total' = FilterScreenerRows(h).totalMatched
      BY <2>2 DEF ScreenerPage
    <3>2. /\ FilterScreenerRows(e).totalMatched \in Nat
          /\ FilterScreenerRows(h).totalMatched \in Nat
      BY FilteredRows
    <3>3. FilterScreenerRows(h).totalMatched <= FilterScreenerRows(e).totalMatched
      BY <2>3, <2>4, <3>2
    <3> QED
      BY <3>1, <3>2, <3>3
  <2>6. ASSUME GetScreener.status = 200, GetScreener'.status = 200
        PROVE  LET before == GetScreener.body
                   after  == GetScreener'.body
               IN  /\ after.totalMatched <= before.totalMatched
                   /\ ~(before.totalMatched > Len(before.rows)) =>
                        ToSet(after.rows) \subseteq ToSet(before.rows)
                   /\ \A row \in ToSet(after.rows) : row[p[2]] # NoValue
    <3>1. PICK before, after : before = FilterScreenerRows(f) /\ after = FilterScreenerRows(g)
      OBVIOUS
    <3>2. GetScreener.body = before /\ GetScreener'.body = after
      BY <2>1, <2>6, <3>1 DEF GetScreener
    <3>3. before.totalMatched \in Nat /\ after.totalMatched \in Nat /\ Len(before.rows) \in Nat
      BY <3>1, FilteredRows
    <3>4. /\ after.totalMatched <= before.totalMatched
          /\ Places(g) \subseteq Places(f)
          /\ \A i \in Places(g) : Corpus[i][p[2]] # NoValue
      BY <2>3, <2>4, <3>1
    <3>5. \A row \in ToSet(after.rows) : \E i \in Places(g) : row = Corpus[i]
      BY <3>1, FilteredRows
    <3>6. before.totalMatched <= Len(before.rows) =>
            \A i \in Places(f) : Corpus[i] \in ToSet(before.rows)
      BY <3>1, FilteredRows
    <3>7. ~(before.totalMatched > Len(before.rows)) => ToSet(after.rows) \subseteq ToSet(before.rows)
      BY <3>3, <3>4, <3>5, <3>6
    <3> QED
      BY <3>2, <3>4, <3>5, <3>7
  <2> QED
    BY <2>5, <2>6 DEF Narrower
<1>2. ParamsTyped /\ ParamsTyped' =>
        [\A p \in Params : Tighter(p) => Narrower(p)]_screenerVars
  BY <1>1
<1> QED
  BY <1>2, ScreenerTyped, PTL DEF TighteningNarrows

------------------------------------------------------------------------------
(* API keys. *)

KeyRow == [id : Nat, key : Keys, createdAt : Nat, revokedAt : Nat \cup {NoValue}]

\* A key is stored once, at the place its id names, and nothing is dated ahead.
KeysStored ==
  /\ time \in Nat
  /\ records \in Seq(KeyRow)
  /\ \A i \in DOMAIN records :
       /\ records[i].id = i /\ records[i].createdAt <= time
       /\ records[i].revokedAt # NoValue => records[i].revokedAt <= time
  /\ \A i, j \in DOMAIN records : records[i].key = records[j].key => i = j

\* What was known of a key when a request came in.
Known(r, entry)   == r.createdAt < entry.requestedAt /\ r.key \in entry.carried
InForce(r, entry) == Known(r, entry) /\ (r.revokedAt # NoValue => r.revokedAt > entry.requestedAt)
Ended(r, entry)   == Known(r, entry) /\ r.revokedAt # NoValue /\ r.revokedAt < entry.requestedAt

EntryMatches(entry) ==
  /\ entry.requestedAt \in Nat /\ entry.requestedAt <= time
  /\ entry.statusCode = 200 =>
       entry.apiKeyId \in DOMAIN records /\ InForce(records[entry.apiKeyId], entry)
  /\ entry.statusCode = 403 => \E i \in DOMAIN records : Ended(records[i], entry)
  /\ entry.statusCode = 401 => entry.carried = {} \/ \E key \in entry.carried :
       ~ \E i \in DOMAIN records : Known(records[i], entry) /\ records[i].key = key
  /\ entry.statusCode # 200 /\ entry.carried # {} =>
       ~ \A key \in entry.carried :
           \E i \in DOMAIN records : InForce(records[i], entry) /\ records[i].key = key

LogMatches == log \in Seq(ToSet(log)) /\ \A entry \in ToSet(log) : EntryMatches(entry)

KeysInv == KeysStored /\ LogMatches

\* A key issued or revoked now changes nothing about requests of before.
LEMMA PastStands ==
  ASSUME KeysStored, time' = time + 1,
         NEW entry, EntryMatches(entry),
         DOMAIN records \subseteq DOMAIN records',
         \A i \in DOMAIN records :
           \/ records'[i] = records[i]
           \/ records[i].revokedAt = NoValue /\ records'[i] = [records[i] EXCEPT !.revokedAt = time'],
         \A i \in DOMAIN records' \ DOMAIN records : records'[i].createdAt = time'
  PROVE  EntryMatches(entry)'
<1>1. entry.requestedAt \in Nat /\ entry.requestedAt <= time /\ time \in Nat /\ NoValue \notin Nat
  BY KeysAssumption DEF EntryMatches, KeysStored
<1>2. ASSUME NEW i \in DOMAIN records
      PROVE  /\ records'[i].key = records[i].key
             /\ Known(records'[i], entry) = Known(records[i], entry)
             /\ InForce(records'[i], entry) = InForce(records[i], entry)
             /\ Ended(records'[i], entry) = Ended(records[i], entry)
  <2>1. records[i] \in KeyRow
    BY <1>2 DEF KeysStored
  <2>2. CASE records'[i] = records[i]
    BY <2>2
  <2>3. CASE records[i].revokedAt = NoValue /\ records'[i] = [records[i] EXCEPT !.revokedAt = time']
    <3>1. /\ records'[i].key = records[i].key /\ records'[i].createdAt = records[i].createdAt
          /\ records'[i].revokedAt = time + 1
      BY <2>1, <2>3 DEF KeyRow
    <3>2. time + 1 # NoValue /\ time + 1 > entry.requestedAt /\ ~(time + 1 < entry.requestedAt)
      BY <1>1
    <3> QED
      BY <2>3, <3>1, <3>2 DEF Known, InForce, Ended
  <2> QED
    BY <1>2, <2>2, <2>3
<1>3. \A i \in DOMAIN records' \ DOMAIN records : ~Known(records'[i], entry)
  BY <1>1 DEF Known
<1>4. \A i \in DOMAIN records' \ DOMAIN records :
        ~InForce(records'[i], entry) /\ ~Ended(records'[i], entry)
  BY <1>3 DEF InForce, Ended
<1>5. \A key : (\E i \in DOMAIN records' : Known(records'[i], entry) /\ records'[i].key = key)
                 => \E i \in DOMAIN records : Known(records[i], entry) /\ records[i].key = key
  BY <1>2, <1>3
<1>6. \A key : (\E i \in DOMAIN records' : InForce(records'[i], entry) /\ records'[i].key = key)
                 => \E i \in DOMAIN records : InForce(records[i], entry) /\ records[i].key = key
  BY <1>2, <1>4
<1>7. (\E i \in DOMAIN records : Ended(records[i], entry))
        => \E i \in DOMAIN records' : Ended(records'[i], entry)
  BY <1>2
<1>8. entry.requestedAt <= time'
  BY <1>1
<1>9. entry.statusCode = 200 =>
        entry.apiKeyId \in DOMAIN records' /\ InForce(records'[entry.apiKeyId], entry)
  BY <1>2 DEF EntryMatches
<1>10. entry.statusCode = 401 => entry.carried = {} \/ \E key \in entry.carried :
         ~ \E i \in DOMAIN records' : Known(records'[i], entry) /\ records'[i].key = key
  BY <1>5 DEF EntryMatches
<1>11. entry.statusCode # 200 /\ entry.carried # {} =>
         ~ \A key \in entry.carried :
             \E i \in DOMAIN records' : InForce(records'[i], entry) /\ records'[i].key = key
  BY <1>6 DEF EntryMatches
<1>12. entry.statusCode = 403 => \E i \in DOMAIN records' : Ended(records'[i], entry)
  BY <1>7 DEF EntryMatches
<1> QED
  BY <1>1, <1>8, <1>9, <1>10, <1>11, <1>12 DEF EntryMatches

\* The record a key is verified against is the only one with it.
LEMMA TheMatch ==
  ASSUME KeysStored, NEW raw, NEW i \in DOMAIN records, records[i].key = raw
  PROVE  Matching(raw) # {} /\ Max(Matching(raw)) = i
<1>1. Matching(raw) = {i} /\ i \in Nat
  BY DEF Matching, KeysStored
<1> QED
  BY <1>1 DEF Max

\* An entry logged now is true of the keys as they are now.
LEMMA EntryLogged ==
  ASSUME KeysStored, NEW headers \in Headers, time' = time + 1, records' = records,
         NEW entry, entry = LogEntry(headers, AuthenticateRequest(headers))
  PROVE  EntryMatches(entry)'
<1> DEFINE raw == ExtractApiKey(headers)
           result == AuthenticateRequest(headers)
<1>2. /\ entry.requestedAt = time + 1
      /\ entry.carried = {headers.bearer, headers.xApiKey} \ {NoValue}
      /\ entry.statusCode = IF result.ok THEN 200 ELSE HttpStatus(result.reason)
      /\ result.ok => entry.apiKeyId = result.key
  BY DEF LogEntry
<1>3. time \in Nat /\ NoValue \notin Nat /\ NotAKey \notin Keys /\ NoValue \notin Keys
  BY KeysAssumption DEF KeysStored
<1>4. raw # NoValue => raw \in entry.carried
  BY <1>2 DEF ExtractApiKey
<1>5. raw = NoValue => entry.carried = {}
  BY <1>2 DEF ExtractApiKey
<1>6. \A i \in DOMAIN records :
        /\ records[i] \in KeyRow
        /\ records[i].createdAt < entry.requestedAt
        /\ records[i].revokedAt # NoValue => records[i].revokedAt < entry.requestedAt
  <2> SUFFICES ASSUME NEW i \in DOMAIN records
               PROVE  /\ records[i] \in KeyRow
                      /\ records[i].createdAt < entry.requestedAt
                      /\ records[i].revokedAt # NoValue => records[i].revokedAt < entry.requestedAt
    OBVIOUS
  <2>1. /\ records[i] \in KeyRow /\ records[i].createdAt <= time
        /\ records[i].revokedAt # NoValue => records[i].revokedAt <= time
    BY DEF KeysStored
  <2>2. records[i].createdAt \in Nat /\ records[i].revokedAt \in Nat \cup {NoValue}
    BY <2>1 DEF KeyRow
  <2> QED
    BY <1>2, <1>3, <2>1, <2>2
<1> HIDE DEF raw
\* In force by now is not revoked by now.
<1>7. \A i \in DOMAIN records : InForce(records[i], entry) => records[i].revokedAt = NoValue
  <2> SUFFICES ASSUME NEW i \in DOMAIN records, InForce(records[i], entry),
                      records[i].revokedAt # NoValue
               PROVE  FALSE
    OBVIOUS
  <2>1. records[i].revokedAt > entry.requestedAt /\ records[i].revokedAt < entry.requestedAt
    BY <1>6 DEF InForce
  <2>2. records[i].revokedAt \in Nat /\ entry.requestedAt \in Nat
    BY <1>2, <1>3, <1>6 DEF KeyRow
  <2> QED
    BY <2>1, <2>2
<1>8. CASE raw = NoValue
  <2>1. result = [ok |-> FALSE, reason |-> "missing"]
    BY <1>8 DEF AuthenticateRequest, raw
  <2>2. entry.statusCode = 401
    BY <1>2, <2>1 DEF HttpStatus
  <2> QED
    BY <1>2, <1>3, <1>5, <1>8, <2>2 DEF EntryMatches
<1>9. CASE raw # NoValue /\ ~ \E i \in DOMAIN records : records[i].key = raw
  <2>1. Matching(raw) = {}
    BY <1>9 DEF Matching
  <2>2. result \in {[ok |-> FALSE, reason |-> "malformed"], [ok |-> FALSE, reason |-> "unknown_key"]}
    BY <1>9, <2>1 DEF AuthenticateRequest, VerifyApiKey, raw
  <2>3. entry.statusCode = 401
    BY <1>2, <2>2 DEF HttpStatus
  <2> QED
    BY <1>2, <1>3, <1>4, <1>9, <2>3 DEF EntryMatches
<1>10. ASSUME raw # NoValue, NEW i \in DOMAIN records, records[i].key = raw
       PROVE  EntryMatches(entry)'
  <2>1. /\ raw # NotAKey /\ records[i].id = i
        /\ Matching(raw) # {} /\ Max(Matching(raw)) = i
    <3>1. records[i].key \in Keys
      BY <1>6 DEF KeyRow
    <3> QED
      BY <1>3, <1>10, <3>1, TheMatch DEF KeysStored
  <2>2. result = IF records[i].revokedAt # NoValue THEN [ok |-> FALSE, reason |-> "revoked"]
                 ELSE [ok |-> TRUE, key |-> i]
    BY <1>10, <2>1 DEF AuthenticateRequest, VerifyApiKey, raw
  <2>3. Known(records[i], entry)
    BY <1>4, <1>6, <1>10 DEF Known
  <2>4. CASE records[i].revokedAt # NoValue
    <3>1. entry.statusCode = 403
      BY <1>2, <2>2, <2>4 DEF HttpStatus
    <3>2. Ended(records[i], entry)
      BY <1>6, <2>3, <2>4 DEF Ended
    <3>3. ~ \E k \in DOMAIN records : InForce(records[k], entry) /\ records[k].key = raw
      BY <1>7, <1>10, <2>4 DEF KeysStored
    <3> QED
      BY <1>2, <1>3, <1>4, <1>10, <3>1, <3>2, <3>3 DEF EntryMatches
  <2>5. CASE records[i].revokedAt = NoValue
    <3>1. entry.statusCode = 200 /\ entry.apiKeyId = i
      BY <1>2, <2>2, <2>5
    <3>2. InForce(records[i], entry)
      BY <2>3, <2>5 DEF InForce
    <3> QED
      BY <1>2, <1>3, <1>10, <3>1, <3>2 DEF EntryMatches
  <2> QED
    BY <2>4, <2>5
<1> QED
  BY <1>8, <1>9, <1>10


LEMMA KeysInvHolds == KeysSpec => []KeysInv
<1>1. KeysInit => KeysInv
  BY DEF KeysInit, KeysInv, KeysStored, LogMatches, ToSet
<1>2. ASSUME KeysInv, KeysNext PROVE KeysInv'
  <2>0. KeysStored /\ log \in Seq(ToSet(log)) /\ \A entry \in ToSet(log) : EntryMatches(entry)
    BY <1>2 DEF KeysInv, LogMatches
  <2>1. ASSUME NEW key \in Keys, GenerateApiKey(key) PROVE KeysInv'
    <3>1. PICK row : row = [id |-> Len(records) + 1, key |-> key, createdAt |-> time', revokedAt |-> NoValue]
      OBVIOUS
    <3>2. /\ time' = time + 1 /\ records' = Append(records, row) /\ log' = log
          /\ \A i \in DOMAIN records : records[i].key # key
      BY <2>1, <3>1 DEF GenerateApiKey, Ticks
    <3>3. time \in Nat /\ records \in Seq(KeyRow) /\ Len(records) \in Nat
      BY <2>0 DEF KeysStored
    <3>4. row \in KeyRow
      BY <3>1, <3>2, <3>3 DEF KeyRow
    <3>5. /\ DOMAIN records = 1 .. Len(records) /\ DOMAIN records' = 1 .. Len(records) + 1
          /\ records' \in Seq(KeyRow) /\ records'[Len(records) + 1] = row
          /\ \A i \in DOMAIN records : records'[i] = records[i]
      BY <3>2, <3>3, <3>4
    <3>6. /\ \A i \in DOMAIN records' : i \in DOMAIN records \/ i = Len(records) + 1
          /\ Len(records) + 1 \notin DOMAIN records
      BY <3>3, <3>5
    <3>7. row.id = Len(records) + 1 /\ row.key = key /\ row.createdAt = time' /\ row.revokedAt = NoValue
      BY <3>1
    <3>8. \A i \in DOMAIN records' :
            /\ records'[i].id = i /\ records'[i].createdAt <= time'
            /\ records'[i].revokedAt # NoValue => records'[i].revokedAt <= time'
      <4> SUFFICES ASSUME NEW i \in DOMAIN records'
                   PROVE  /\ records'[i].id = i /\ records'[i].createdAt <= time'
                          /\ records'[i].revokedAt # NoValue => records'[i].revokedAt <= time'
        OBVIOUS
      <4>1. CASE i \in DOMAIN records
        <5>1. /\ records[i] \in KeyRow /\ records[i].id = i /\ records[i].createdAt <= time
              /\ records[i].revokedAt # NoValue => records[i].revokedAt <= time
          BY <2>0, <4>1 DEF KeysStored
        <5>2. records[i].createdAt \in Nat /\ records[i].revokedAt \in Nat \cup {NoValue}
          BY <5>1 DEF KeyRow
        <5> QED
          BY <3>2, <3>3, <3>5, <4>1, <5>1, <5>2
      <4>2. CASE i = Len(records) + 1
        BY <3>2, <3>3, <3>5, <3>7, <4>2
      <4> QED
        BY <3>6, <4>1, <4>2
    <3>9. \A i, j \in DOMAIN records' : records'[i].key = records'[j].key => i = j
      BY <2>0, <3>2, <3>5, <3>6, <3>7 DEF KeysStored
    <3>10. KeysStored'
      BY <3>2, <3>3, <3>5, <3>8, <3>9 DEF KeysStored
    <3>11. \A i \in DOMAIN records' \ DOMAIN records : records'[i].createdAt = time'
      BY <3>5, <3>6, <3>7
    <3>12. DOMAIN records \subseteq DOMAIN records'
      BY <3>3, <3>5
    <3>13. \A entry \in ToSet(log) : EntryMatches(entry)'
      BY <2>0, <3>2, <3>5, <3>11, <3>12, PastStands
    <3>14. log' \in Seq(ToSet(log')) /\ ToSet(log') = ToSet(log)
      BY <2>0, <3>2
    <3> QED
      BY <3>10, <3>13, <3>14 DEF KeysInv, LogMatches
  <2>2. ASSUME NEW k \in DOMAIN records, Revoke(k) PROVE KeysInv'
    <3>1. /\ time' = time + 1 /\ log' = log /\ records[k].revokedAt = NoValue
          /\ records' = [records EXCEPT ![k].revokedAt = time']
      BY <2>2 DEF Revoke, Ticks
    <3>2. time \in Nat /\ records \in Seq(KeyRow) /\ time + 1 \in Nat
      BY <2>0 DEF KeysStored
    <3>3. /\ DOMAIN records' = DOMAIN records
          /\ records'[k] = [records[k] EXCEPT !.revokedAt = time + 1]
          /\ \A i \in DOMAIN records : i # k => records'[i] = records[i]
      BY <2>2, <3>1, <3>2
    <3>4. /\ records[k] \in KeyRow /\ records'[k] \in KeyRow
          /\ records'[k].id = records[k].id /\ records'[k].key = records[k].key
          /\ records'[k].createdAt = records[k].createdAt /\ records'[k].revokedAt = time + 1
      <4>1. records[k] \in KeyRow
        BY <2>2, <3>2
      <4> QED
        BY <3>2, <3>3, <4>1 DEF KeyRow
    <3>5. records' \in Seq(KeyRow)
      <4>1. DOMAIN records = 1 .. Len(records) /\ Len(records) \in Nat
        BY <3>2
      <4>2. records' = [i \in 1 .. Len(records) |-> records'[i]]
        BY <3>1, <4>1
      <4>3. \A i \in 1 .. Len(records) : records'[i] \in KeyRow
        BY <3>2, <3>3, <3>4, <4>1
      <4> QED
        BY <4>1, <4>2, <4>3
    <3>6. \A i \in DOMAIN records' :
            /\ records'[i].id = i /\ records'[i].createdAt <= time'
            /\ records'[i].revokedAt # NoValue => records'[i].revokedAt <= time'
      <4> SUFFICES ASSUME NEW i \in DOMAIN records
                   PROVE  /\ records'[i].id = i /\ records'[i].createdAt <= time'
                          /\ records'[i].revokedAt # NoValue => records'[i].revokedAt <= time'
        BY <3>3
      <4>1. /\ records[i] \in KeyRow /\ records[i].id = i /\ records[i].createdAt <= time
            /\ records[i].revokedAt # NoValue => records[i].revokedAt <= time
        BY <2>0 DEF KeysStored
      <4>2. records[i].createdAt \in Nat /\ records[i].revokedAt \in Nat \cup {NoValue}
        BY <4>1 DEF KeyRow
      <4>3. CASE i = k
        BY <3>1, <3>2, <3>4, <4>1, <4>2, <4>3
      <4>4. CASE i # k
        BY <3>1, <3>2, <3>3, <4>1, <4>2, <4>4
      <4> QED
        BY <4>3, <4>4
    <3>7. \A i, j \in DOMAIN records' : records'[i].key = records'[j].key => i = j
      <4>1. \A i \in DOMAIN records' : records'[i].key = records[i].key
        BY <3>3, <3>4
      <4> QED
        BY <2>0, <3>3, <4>1 DEF KeysStored
    <3>8. KeysStored'
      BY <3>1, <3>2, <3>5, <3>6, <3>7 DEF KeysStored
    <3>9. \A i \in DOMAIN records :
            \/ records'[i] = records[i]
            \/ records[i].revokedAt = NoValue /\ records'[i] = [records[i] EXCEPT !.revokedAt = time']
      BY <3>1, <3>3
    <3>10. \A entry \in ToSet(log) : EntryMatches(entry)'
      BY <2>0, <3>1, <3>3, <3>9, PastStands
    <3>11. log' \in Seq(ToSet(log')) /\ ToSet(log') = ToSet(log)
      BY <2>0, <3>1
    <3> QED
      BY <3>8, <3>10, <3>11 DEF KeysInv, LogMatches
  <2>3. ASSUME NEW headers \in Headers, Request(headers) PROVE KeysInv'
    <3>1. PICK entry : entry = LogEntry(headers, AuthenticateRequest(headers))
      OBVIOUS
    <3>2. time' = time + 1 /\ records' = records /\ log' = Append(log, entry)
      BY <2>3, <3>1 DEF Request, Ticks
    <3>3. EntryMatches(entry)'
      BY <2>0, <3>1, <3>2, EntryLogged
    <3>4. KeysStored'
      <4>1. \A i \in DOMAIN records :
              /\ records[i].createdAt <= time + 1
              /\ records[i].revokedAt # NoValue => records[i].revokedAt <= time + 1
        <5> SUFFICES ASSUME NEW i \in DOMAIN records
                     PROVE  /\ records[i].createdAt <= time + 1
                            /\ records[i].revokedAt # NoValue => records[i].revokedAt <= time + 1
          OBVIOUS
        <5>1. /\ records[i] \in KeyRow /\ records[i].createdAt <= time /\ time \in Nat
              /\ records[i].revokedAt # NoValue => records[i].revokedAt <= time
          BY <2>0 DEF KeysStored
        <5>2. records[i].createdAt \in Nat /\ records[i].revokedAt \in Nat \cup {NoValue}
          BY <5>1 DEF KeyRow
        <5> QED
          BY <5>1, <5>2
      <4> QED
        BY <2>0, <3>2, <4>1 DEF KeysStored
    <3>5. \A past \in ToSet(log) : EntryMatches(past)'
      BY <2>0, <3>2, PastStands
    <3>6. log' \in Seq(ToSet(log')) /\ ToSet(log') = ToSet(log) \cup {entry}
      <4> DEFINE all == ToSet(log) \cup {entry}
      <4>1. log \in Seq(all) /\ entry \in all /\ Len(log) \in Nat
        BY <2>0
      <4>2. /\ Append(log, entry) \in Seq(all)
            /\ DOMAIN log = 1 .. Len(log) /\ DOMAIN Append(log, entry) = 1 .. Len(log) + 1
            /\ \A n \in 1 .. Len(log) : Append(log, entry)[n] = log[n]
            /\ Append(log, entry)[Len(log) + 1] = entry
        BY <4>1
      <4>3. \A n \in 1 .. Len(log) + 1 : n \in 1 .. Len(log) \/ n = Len(log) + 1
        BY <4>1
      <4>4. 1 .. Len(log) \subseteq 1 .. Len(log) + 1 /\ Len(log) + 1 \in 1 .. Len(log) + 1
        BY <4>1
      <4>5. ToSet(Append(log, entry)) = all
        BY <4>2, <4>3, <4>4 DEF ToSet
      <4> QED
        BY <3>2, <4>2, <4>5
    <3> QED
      BY <3>3, <3>4, <3>5, <3>6 DEF KeysInv, LogMatches
  <2> QED
    BY <1>2, <2>1, <2>2, <2>3 DEF KeysNext
<1>3. KeysInv /\ UNCHANGED keysVars => KeysInv'
  BY DEF KeysInv, KeysStored, LogMatches, EntryMatches, keysVars
<1> QED
  BY <1>1, <1>2, <1>3, PTL DEF KeysSpec

\* The log can be audited against the keys, however many were issued and revoked since.
THEOREM LogIsAuditable == KeysSpec => []LogMatchesKeys
<1>1. KeysInv => LogMatchesKeys
  <2> SUFFICES ASSUME KeysInv, NEW entry \in ToSet(log)
               PROVE  /\ entry.statusCode = 200 => InForce(records[entry.apiKeyId], entry)
                      /\ entry.statusCode = 403 => \E r \in ToSet(records) : Ended(r, entry)
                      /\ entry.statusCode = 401 =>
                           entry.carried = {} \/ \E key \in entry.carried :
                             ~ \E r \in ToSet(records) : Known(r, entry) /\ r.key = key
                      /\ (\A key \in entry.carried :
                            \E r \in ToSet(records) : InForce(r, entry) /\ r.key = key)
                         /\ entry.carried # {} => entry.statusCode = 200
    BY DEF LogMatchesKeys, InForce, Ended, Known
  <2>1. EntryMatches(entry) /\ ToSet(records) = {records[i] : i \in DOMAIN records}
    BY DEF KeysInv, LogMatches, ToSet
  <2> QED
    BY <2>1 DEF EntryMatches
<1> QED
  BY <1>1, KeysInvHolds, PTL

------------------------------------------------------------------------------
(* Financial statements: the page and the API. *)

\* The years with fewer than n later ones are those with at most n not earlier.
LEMMA LatestYears ==
  ASSUME NEW S \in SUBSET Int, IsFiniteSet(S), NEW n \in Nat \ {0}, NEW m \in Nat, n <= m
  PROVE  LET shown  == {y \in S : Cardinality({z \in S : z > y}) < n}
             served == {y \in S : Cardinality({z \in S : z >= y}) <= m}
         IN  /\ shown \subseteq served
             /\ m = n => shown = served
             /\ S # {} => shown # {}
<1> DEFINE Later(y) == {z \in S : z > y}
           shown  == {y \in S : Cardinality(Later(y)) < n}
           served == {y \in S : Cardinality({z \in S : z >= y}) <= m}
<1>1. ASSUME NEW y \in S
      PROVE  /\ Cardinality(Later(y)) \in Nat
             /\ Cardinality({z \in S : z >= y}) = Cardinality(Later(y)) + 1
  <2>1. IsFiniteSet(Later(y)) /\ y \notin Later(y) /\ {z \in S : z >= y} = Later(y) \cup {y}
    <3>1. Later(y) \in SUBSET S
      OBVIOUS
    <3>2. y \in Int /\ \A z \in S : z >= y <=> z > y \/ z = y
      BY <1>1
    <3>3. ~(y > y) /\ \A z : z \in {x \in S : x >= y} <=> z \in Later(y) \/ z = y
      <4>1. ~(y > y)
        BY <3>2
      <4>2. ASSUME NEW z PROVE z \in {x \in S : x >= y} <=> z \in Later(y) \/ z = y
        <5>1. z \in Later(y) <=> z \in S /\ z > y
          OBVIOUS
        <5>2. z \in {x \in S : x >= y} <=> z \in S /\ z >= y
          OBVIOUS
        <5> HIDE DEF Later
        <5> QED
          BY <1>1, <3>2, <5>1, <5>2
      <4> QED
        BY <4>1, <4>2
    <3>4. {z \in S : z >= y} = Later(y) \cup {y} /\ y \notin Later(y)
      <4> HIDE DEF Later
      <4>1. y \notin Later(y)
        BY <3>3 DEF Later
      <4> QED
        BY <3>3, <4>1
    <3> QED
      BY <3>1, <3>4, FS_Subset
  <2> HIDE DEF Later
  <2> QED
    BY <2>1, FS_AddElement, FS_CardinalityType
<1>2. \A y \in S : Cardinality(Later(y)) < n => Cardinality({z \in S : z >= y}) <= m
  BY <1>1
<1>3. m = n => \A y \in S : Cardinality({z \in S : z >= y}) <= m => Cardinality(Later(y)) < n
  BY <1>1
<1>4. ASSUME S # {} PROVE shown # {}
  <2>1. PICK y \in S : \A z \in S : z <= y
    BY <1>4, LargestNumber
  <2>2. Later(y) = {}
    <3>1. y \in Int /\ \A z \in S : z \in Int /\ ~(z > y)
      BY <2>1
    <3> QED
      BY <3>1
  <2>3. Cardinality(Later(y)) = 0
    BY <2>2, FS_EmptySet
  <2> QED
    BY <2>3
<1> QED
  BY <1>2, <1>3, <1>4

\* No point was filed after the last report, and of one report a concept has one
\* point for a period; the years of the feed are finitely many.
PointsSound(points, count) ==
  /\ \A p \in points : p.filed <= count
  /\ \A p, q \in points : p.filed = q.filed /\ p.end = q.end => p = q

FactsInv ==
  /\ reportCount \in Nat
  /\ facts \in [Concepts -> Seq(FactPoint)]
  /\ \A c \in Concepts : PointsSound(ToSet(facts[c]), reportCount)
  /\ \E S \in SUBSET Int : /\ IsFiniteSet(S)
                           /\ \A c \in Concepts : \A p \in ToSet(facts[c]) : AnnualYear(p) \in S

LEMMA SelectedFrom ==
  ASSUME NEW S, NEW points \in Seq(S), NEW E \in SUBSET DOMAIN points
  PROVE  AtPositions(points, E) \in Seq(S)
<1>1. Len(points) \in Nat /\ E \in SUBSET (1 .. Len(points)) /\ DOMAIN points = 1 .. Len(points)
  OBVIOUS
<1>2. /\ Cardinality(E) \in Nat
      /\ \A k \in 1 .. Cardinality(E) : Nth(E, k) \in E
  BY <1>1, Positions
<1>3. \A k \in 1 .. Cardinality(E) : points[Nth(E, k)] \in S
  BY <1>1, <1>2
<1> QED
  BY <1>2, <1>3 DEF AtPositions

LEMMA AddedFrom ==
  ASSUME NEW S, NEW points \in Seq(S), NEW p \in S
  PROVE  Added(points, p) \in Seq(S)
<1>1. /\ AtPositions(points, {i \in DOMAIN points : points[i].end <= p.end}) \in Seq(S)
      /\ AtPositions(points, {i \in DOMAIN points : points[i].end > p.end}) \in Seq(S)
  BY SelectedFrom
<1>2. PICK before, after : /\ before = AtPositions(points, {i \in DOMAIN points : points[i].end <= p.end})
                           /\ after = AtPositions(points, {i \in DOMAIN points : points[i].end > p.end})
  OBVIOUS
<1>3. before \in Seq(S) /\ after \in Seq(S) /\ <<p>> \in Seq(S)
  BY <1>1, <1>2
<1>4. before \o <<p>> \in Seq(S)
  BY <1>3
<1>5. (before \o <<p>>) \o after \in Seq(S)
  BY <1>3, <1>4
<1>6. Added(points, p) = before \o <<p>> \o after
  BY <1>2 DEF Added, Where
<1> QED
  BY <1>5, <1>6

LEMMA ElementsOf ==
  ASSUME NEW S, NEW s \in Seq(S)
  PROVE  ToSet(s) \subseteq S /\ s \in Seq(ToSet(s))
BY DEF ToSet

LEMMA ReportKeeps ==
  ASSUME FactsInv, NEW form \in {"10-K", "10-K/A", "10-Q"}, NEW fp \in {"FY", "Q3", NoValue},
         NEW y \in FiscalYears, NEW fy \in {y, NoValue}, NEW amounts \in Contents,
         NEW before \in Comparatives \cup {NoValue}, Report(form, fp, y, fy, amounts, before)
  PROVE  FactsInv'
<1> DEFINE Point(end, val) == [end |-> end, fy |-> fy, fp |-> fp, form |-> form,
                               filed |-> reportCount + 1, val |-> val]
<1>0. /\ reportCount \in Nat /\ y \in Int /\ y - 1 \in Int /\ fy \in Int \cup {NoValue}
      /\ NoValue \notin Int /\ before \in Int \cup {NoValue}
  BY FactsAssumption DEF FactsInv
<1>1. \A end, val \in Int : Point(end, val) \in FactPoint
  BY <1>0 DEF FactPoint
<1>2. ASSUME NEW c \in Concepts
      PROVE  \E new \in SUBSET FactPoint :
               /\ \A p, q \in new : p.end = q.end => p = q
               /\ \A p \in new : p.filed = reportCount + 1 /\ p.fy = fy /\ p.end \in {y, y - 1}
               /\ facts'[c] \in Seq(ToSet(facts[c]) \cup new)
  <2>1. facts[c] \in Seq(ToSet(facts[c]))
    BY <1>2, ElementsOf DEF FactsInv
  <2>2. CASE c \notin DOMAIN amounts
    <3>1. facts'[c] \in Seq(ToSet(facts[c]) \cup {})
      BY <1>2, <2>1, <2>2 DEF Report
    <3> QED
      BY <3>1
  <2>3. CASE c \in DOMAIN amounts
    <3>1. PICK own : own = Point(y, amounts[c])
      OBVIOUS
    <3>2. own \in FactPoint /\ own.filed = reportCount + 1 /\ own.fy = fy /\ own.end = y
      <4>1. amounts[c] \in Int
        BY <2>3, FactsAssumption
      <4> QED
        BY <1>0, <1>1, <3>1, <4>1
    <3>3. CASE before = NoValue
      <4>1. facts'[c] = Added(facts[c], own)
        BY <1>2, <2>3, <3>1, <3>3 DEF Report
      <4>2. facts[c] \in Seq(ToSet(facts[c]) \cup {own})
        BY <2>1
      <4>3. facts'[c] \in Seq(ToSet(facts[c]) \cup {own})
        BY <4>1, <4>2, AddedFrom
      <4> QED
        BY <3>2, <4>3
    <3>4. CASE before # NoValue
      <4>1. PICK prior : prior = Point(y - 1, before)
        OBVIOUS
      <4>2. prior \in FactPoint /\ prior.filed = reportCount + 1 /\ prior.fy = fy /\ prior.end = y - 1
        BY <1>0, <1>1, <3>4, <4>1
      <4>3. facts'[c] = Added(Added(facts[c], prior), own)
        BY <1>2, <2>3, <3>1, <3>4, <4>1 DEF Report
      <4> DEFINE all == ToSet(facts[c]) \cup {prior, own}
      <4>4. facts[c] \in Seq(all) /\ prior \in all /\ own \in all
        BY <2>1
      <4> HIDE DEF all
      <4>5. Added(facts[c], prior) \in Seq(all)
        BY <4>4, AddedFrom
      <4>6. facts'[c] \in Seq(all)
        BY <4>3, <4>4, <4>5, AddedFrom
      <4>7. y # y - 1
        BY <1>0
      <4> QED
        BY <3>2, <4>2, <4>6, <4>7 DEF all
    <3> QED
      BY <3>3, <3>4
  <2> QED
    BY <2>2, <2>3
<1>3. /\ reportCount' = reportCount + 1
      /\ DOMAIN facts' = Concepts /\ facts' = [c \in Concepts |-> facts'[c]]
  BY DEF Report
<1>4. ASSUME NEW c \in Concepts
      PROVE  facts'[c] \in Seq(FactPoint) /\ PointsSound(ToSet(facts'[c]), reportCount + 1)
  <2>1. PICK new \in SUBSET FactPoint :
          /\ \A p, q \in new : p.end = q.end => p = q
          /\ \A p \in new : p.filed = reportCount + 1 /\ p.fy = fy /\ p.end \in {y, y - 1}
          /\ facts'[c] \in Seq(ToSet(facts[c]) \cup new)
    BY <1>2, <1>4
  <2>2. ToSet(facts[c]) \in SUBSET FactPoint /\ PointsSound(ToSet(facts[c]), reportCount)
    BY <1>4, ElementsOf DEF FactsInv
  <2>3. ToSet(facts'[c]) \subseteq ToSet(facts[c]) \cup new
    BY <2>1, ElementsOf
  <2>4. \A p \in ToSet(facts[c]) : p.filed \in Nat /\ p.filed <= reportCount
    BY <2>2 DEF PointsSound, FactPoint
  <2>5. \A p \in ToSet(facts[c]) : p.filed <= reportCount + 1 /\ p.filed # reportCount + 1
    BY <1>0, <2>4
  <2>6. reportCount + 1 <= reportCount + 1
    BY <1>0
  <2>7. \A p \in ToSet(facts[c]) \cup new : p.filed <= reportCount + 1
    BY <2>1, <2>5, <2>6
  <2>8. \A p, q \in ToSet(facts[c]) \cup new : p.filed = q.filed /\ p.end = q.end => p = q
    BY <2>1, <2>2, <2>5 DEF PointsSound
  <2>9. facts'[c] \in Seq(FactPoint)
    BY <2>1, <2>2
  <2> QED
    BY <2>3, <2>7, <2>8, <2>9 DEF PointsSound
<1>5. \E S \in SUBSET Int : /\ IsFiniteSet(S)
                            /\ \A c \in Concepts : \A p \in ToSet(facts'[c]) : AnnualYear(p) \in S
  <2>1. PICK S \in SUBSET Int : /\ IsFiniteSet(S)
                                /\ \A c \in Concepts : \A p \in ToSet(facts[c]) : AnnualYear(p) \in S
    BY DEF FactsInv
  <2> DEFINE T == (S \cup {y}) \cup {y - 1}
  <2>2. IsFiniteSet(T) /\ T \in SUBSET Int
    BY <1>0, <2>1, FS_AddElement
  <2>3. ASSUME NEW c \in Concepts, NEW p \in ToSet(facts'[c]) PROVE AnnualYear(p) \in T
    <3>1. PICK new \in SUBSET FactPoint :
            /\ \A q \in new : q.filed = reportCount + 1 /\ q.fy = fy /\ q.end \in {y, y - 1}
            /\ facts'[c] \in Seq(ToSet(facts[c]) \cup new)
      BY <1>2, <2>3
    <3>2. p \in ToSet(facts[c]) \/ p \in new
      BY <2>3, <3>1, ElementsOf
    <3>3. p \in new => AnnualYear(p) \in {y, y - 1}
      BY <3>1 DEF AnnualYear
    <3> QED
      BY <2>1, <3>2, <3>3
  <2> QED
    BY <2>2, <2>3
<1>6. facts' \in [Concepts -> Seq(FactPoint)] /\ reportCount' \in Nat
  BY <1>0, <1>3, <1>4
<1>7. \A c \in Concepts : PointsSound(ToSet(facts'[c]), reportCount')
  BY <1>3, <1>4
<1> QED
  BY <1>5, <1>6, <1>7 DEF FactsInv, AnnualYear

LEMMA FactsInvHolds == FactsSpec => []FactsInv
<1>1. FactsInit => FactsInv
  <2> SUFFICES ASSUME FactsInit PROVE FactsInv
    OBVIOUS
  <2>1. \A c \in Concepts : facts[c] = << >> /\ ToSet(facts[c]) = {}
    BY DEF FactsInit, ToSet
  <2>2. facts \in [Concepts -> Seq(FactPoint)] /\ reportCount \in Nat
    BY DEF FactsInit
  <2>3. {} \in SUBSET Int /\ IsFiniteSet({})
    BY FS_EmptySet
  <2> QED
    BY <2>1, <2>2, <2>3 DEF FactsInv, PointsSound
<1>2. ASSUME FactsInv, FactsNext PROVE FactsInv'
  <2>1. ASSUME NEW form \in {"10-K", "10-K/A"}, FileAnnual(form) PROVE FactsInv'
    <3>1. PICK y \in FiscalYears, amounts \in Contents, before \in Comparatives \cup {NoValue} :
            \/ Report(form, "FY", y, y, amounts, before)
            \/ Report(form, NoValue, y, NoValue, amounts, before)
      BY <2>1 DEF FileAnnual
    <3>2. /\ form \in {"10-K", "10-K/A", "10-Q"}
          /\ "FY" \in {"FY", "Q3", NoValue} /\ NoValue \in {"FY", "Q3", NoValue}
          /\ y \in {y, NoValue} /\ NoValue \in {y, NoValue}
      OBVIOUS
    <3> QED
      BY <1>2, <3>1, <3>2, ReportKeeps
  <2>2. ASSUME FileQuarter PROVE FactsInv'
    <3>1. PICK y \in FiscalYears, amounts \in Contents : Report("10-Q", "Q3", y, y, amounts, NoValue)
      BY <2>2 DEF FileQuarter
    <3>2. /\ "10-Q" \in {"10-K", "10-K/A", "10-Q"} /\ "Q3" \in {"FY", "Q3", NoValue}
          /\ y \in {y, NoValue} /\ NoValue \in Comparatives \cup {NoValue}
      OBVIOUS
    <3> QED
      BY <1>2, <3>1, <3>2, ReportKeeps
  <2> QED
    BY <1>2, <2>1, <2>2 DEF FactsNext
<1>3. FactsInv /\ UNCHANGED factsVars => FactsInv'
  BY DEF FactsInv, AnnualYear, factsVars
<1> QED
  BY <1>1, <1>2, <1>3, PTL DEF FactsSpec

\* The copies of the code read alike.
LEMMA SamePreference ==
  ASSUME NEW a \in FactPoint, NEW b \in FactPoint
  PROVE  PreferMoreRecent(a, b) = MoreRecent(a, b)
<1>1. a.filed \in Nat /\ b.filed \in Nat
  BY DEF FactPoint
<1> QED
  BY <1>1 DEF PreferMoreRecent, MoreRecent

LEMMA SameYear ==
  ASSUME NEW p
  PROVE  AnnualYear(p) = ParseAnnualYear(p)
BY DEF AnnualYear, ParseAnnualYear

LEMMA UsedConcept ==
  ASSUME NEW metric \in Metrics, ConceptUsed(metric) # NoValue
  PROVE  ConceptUsed(metric) \in Concepts
<1> DEFINE those == {i \in DOMAIN Candidates[metric] : Annual(Candidates[metric][i]) # {}}
<1>1. /\ Candidates[metric] \in Seq(ToSet(Candidates[metric]))
      /\ \A i \in DOMAIN Candidates[metric] : Candidates[metric][i] \in Concepts
  BY FactsAssumption DEF Metrics, Concepts, ToSet
<1>2. those # {} /\ ConceptUsed(metric) = Candidates[metric][Min(those)]
  BY DEF ConceptUsed, FirstWhere
<1>3. those \in SUBSET Nat
  BY <1>1
<1> HIDE DEF those
<1>4. Min(those) \in those
  BY <1>2, <1>3, LeastNumber DEF Min
<1> QED
  BY <1>1, <1>2, <1>4 DEF those

LEMMA SameValues ==
  ASSUME FactsInv, NEW metric \in Metrics
  PROVE  LET page == ValuesByYear(metric)
             api  == CollectMetricValues(metric)
         IN  DOMAIN page = DOMAIN api /\ \A y \in DOMAIN page : page[y] = api[y]
<1> DEFINE Yearly(c) == {i \in DOMAIN facts[c] :
                           facts[c][i].form \in AnnualForms /\ facts[c][i].fp \in {"FY", NoValue}}
           In(c, y)  == {i \in Yearly(c) : ParseAnnualYear(facts[c][i]) = y}
<1>1. \A c : Annual(c) = Yearly(c)
  BY DEF Annual, IsAnnual
<1>2. \A c, y : OfYear(c, y) = In(c, y)
  BY <1>1, SameYear DEF OfYear
<1>3. {i \in DOMAIN Candidates[metric] : Annual(Candidates[metric][i]) # {}} =
        {i \in DOMAIN Candidates[metric] : Yearly(Candidates[metric][i]) # {}}
  BY <1>1
<1>4. PICK c : c = ConceptUsed(metric)
  OBVIOUS
<1>5. c = FirstWhere(Candidates[metric], LAMBDA d : Yearly(d) # {})
  <2> HIDE DEF Yearly
  <2> QED
    BY <1>3, <1>4 DEF ConceptUsed, FirstWhere
<1> DEFINE api == IF c = NoValue THEN << >>
                  ELSE [y \in {ParseAnnualYear(facts[c][i]) : i \in Yearly(c)} |->
                          Kept(facts[c], In(c, y), MoreRecent).val]
<1>6. CollectMetricValues(metric) = api
  BY <1>5 DEF CollectMetricValues
<1> DEFINE years == IF c = NoValue THEN {} ELSE {AnnualYear(facts[c][i]) : i \in Annual(c)}
<1>7. ValuesByYear(metric) = [y \in years |-> Kept(facts[c], OfYear(c, y), PreferMoreRecent).val]
  BY <1>4 DEF ValuesByYear
<1>8. CASE c = NoValue
  <2>1. DOMAIN api = {} /\ years = {}
    BY <1>8
  <2> HIDE DEF api, years
  <2> QED
    BY <1>6, <1>7, <2>1
<1>9. CASE c # NoValue
  <2>1. c \in Concepts
    BY <1>4, <1>9, UsedConcept
  <2>2. \A i \in DOMAIN facts[c] : facts[c][i] \in FactPoint
    BY <2>1 DEF FactsInv
  <2>3. years = {ParseAnnualYear(facts[c][i]) : i \in Yearly(c)}
    BY <1>1, <1>9, SameYear
  <2>4. ASSUME NEW y
        PROVE  Kept(facts[c], OfYear(c, y), PreferMoreRecent) = Kept(facts[c], In(c, y), MoreRecent)
    <3>1. OfYear(c, y) = In(c, y) /\ OfYear(c, y) \subseteq DOMAIN facts[c]
      BY <1>2
    <3>2. PICK places : places = OfYear(c, y)
      OBVIOUS
    <3>3. \A i, j \in places :
            PreferMoreRecent(facts[c][i], facts[c][j]) = MoreRecent(facts[c][i], facts[c][j])
      BY <2>2, <3>1, <3>2, SamePreference
    <3>4. {i \in places : \A j \in places : PreferMoreRecent(facts[c][i], facts[c][j]) = facts[c][i]} =
            {i \in places : \A j \in places : MoreRecent(facts[c][i], facts[c][j]) = facts[c][i]}
      BY <3>3
    <3> HIDE DEF In
    <3> QED
      BY <3>1, <3>2, <3>4 DEF Kept
  <2>5. api = [y \in years |-> Kept(facts[c], In(c, y), MoreRecent).val]
    BY <1>9, <2>3
  <2> HIDE DEF api, years, In
  <2> QED
    BY <1>6, <1>7, <2>4, <2>5
<1> QED
  BY <1>8, <1>9

\* A figure of the latest report stands against all others of its year.
LEMMA NewestKept ==
  ASSUME FactsInv, NEW c \in Concepts, NEW i \in Annual(c), facts[c][i].filed = reportCount,
         \A j \in Annual(c) : /\ facts[c][j].filed = reportCount
                              /\ AnnualYear(facts[c][j]) = AnnualYear(facts[c][i])
                              => facts[c][j].end <= facts[c][i].end
  PROVE  Kept(facts[c], OfYear(c, AnnualYear(facts[c][i])), PreferMoreRecent) = facts[c][i]
<1> DEFINE places == OfYear(c, AnnualYear(facts[c][i]))
           wins   == {k \in places : \A j \in places :
                        PreferMoreRecent(facts[c][k], facts[c][j]) = facts[c][k]}
<1>1. /\ i \in places /\ places \subseteq DOMAIN facts[c] /\ places \subseteq Nat
      /\ \A j \in places : j \in Annual(c) /\ AnnualYear(facts[c][j]) = AnnualYear(facts[c][i])
      /\ facts[c] \in Seq(FactPoint)
  BY DEF OfYear, Annual, FactsInv
<1>2. PointsSound(ToSet(facts[c]), reportCount) /\ reportCount \in Nat
  BY DEF FactsInv
<1>3. \A j \in places : /\ facts[c][j] \in FactPoint /\ facts[c][j].end \in Int
                        /\ facts[c][j].filed \in Nat /\ facts[c][j].filed <= reportCount
                        /\ facts[c][j].filed = reportCount => facts[c][j].end <= facts[c][i].end
  <2> SUFFICES ASSUME NEW j \in places
               PROVE  /\ facts[c][j] \in FactPoint /\ facts[c][j].end \in Int
                      /\ facts[c][j].filed \in Nat /\ facts[c][j].filed <= reportCount
                      /\ facts[c][j].filed = reportCount => facts[c][j].end <= facts[c][i].end
    OBVIOUS
  <2>1. facts[c][j] \in FactPoint /\ facts[c][j] \in ToSet(facts[c])
    BY <1>1 DEF ToSet
  <2>2. facts[c][j].filed <= reportCount
    BY <1>2, <2>1 DEF PointsSound
  <2>3. facts[c][j].filed = reportCount => facts[c][j].end <= facts[c][i].end
    BY <1>1
  <2> QED
    BY <2>1, <2>2, <2>3 DEF FactPoint
<1>4. i \in wins
  <2> SUFFICES ASSUME NEW j \in places
               PROVE  PreferMoreRecent(facts[c][i], facts[c][j]) = facts[c][i]
    BY <1>1
  <2> QED
    BY <1>1, <1>2, <1>3 DEF PreferMoreRecent
<1>5. ASSUME NEW k \in wins PROVE facts[c][k] = facts[c][i]
  <2>1. PreferMoreRecent(facts[c][k], facts[c][i]) = facts[c][k] /\ k \in places
    BY <1>1, <1>5
  <2>2. facts[c][k] \in ToSet(facts[c]) /\ facts[c][i] \in ToSet(facts[c])
    BY <1>1, <2>1 DEF ToSet
  <2>3. facts[c][k].filed = facts[c][i].filed /\ facts[c][k].end = facts[c][i].end
          => facts[c][k] = facts[c][i]
    BY <1>2, <2>2 DEF PointsSound
  <2> HIDE DEF places, wins
  <2>4. PICK p, q : p = facts[c][k] /\ q = facts[c][i]
    OBVIOUS
  <2>5. /\ p.filed \in Nat /\ p.filed <= q.filed /\ p.end \in Int /\ q.end \in Int /\ q.filed \in Nat
        /\ p.filed = q.filed => p.end <= q.end
        /\ p.filed = q.filed /\ p.end = q.end => p = q
        /\ PreferMoreRecent(p, q) = p
    BY <1>1, <1>3, <2>1, <2>3, <2>4
  <2>6. p = q
    BY <2>5 DEF PreferMoreRecent
  <2> QED
    BY <2>4, <2>6
<1>6. wins \in SUBSET Nat /\ wins # {}
  BY <1>1, <1>4
<1>7. Kept(facts[c], places, PreferMoreRecent) = facts[c][Min(wins)]
  BY DEF Kept
<1> HIDE DEF wins, places
<1>8. Min(wins) \in wins
  BY <1>6, LeastNumber DEF Min
<1> QED
  BY <1>5, <1>7, <1>8 DEF places

\* What the latest report says of a year is the figure of that year.
THEOREM LatestReportsAreShown == FactsSpec => []LatestReportShown
<1>1. FactsInv => LatestReportShown
  <2> SUFFICES ASSUME FactsInv, NEW metric \in Metrics, NEW c, c = ConceptUsed(metric), c # NoValue,
                      NEW i \in Annual(c), facts[c][i].filed = reportCount,
                      \A j \in Annual(c) : facts[c][j].filed = reportCount =>
                        (AnnualYear(facts[c][j]) = AnnualYear(facts[c][i]) =>
                           facts[c][j].end <= facts[c][i].end)
               PROVE  ValuesByYear(metric)[AnnualYear(facts[c][i])] = facts[c][i].val
    BY DEF LatestReportShown, NewestShown
  <2>1. c \in Concepts
    BY UsedConcept
  <2>2. Kept(facts[c], OfYear(c, AnnualYear(facts[c][i])), PreferMoreRecent) = facts[c][i]
    BY <2>1, NewestKept
  <2> QED
    BY <2>2 DEF ValuesByYear
<1> QED
  BY <1>1, FactsInvHolds, PTL

LEMMA YearsFinite ==
  ASSUME FactsInv
  PROVE  LET all == UNION {DOMAIN ValuesByYear(metric) : metric \in Metrics}
         IN  all \in SUBSET Int /\ IsFiniteSet(all)
<1> DEFINE all == UNION {DOMAIN ValuesByYear(metric) : metric \in Metrics}
<1>1. PICK S \in SUBSET Int : /\ IsFiniteSet(S)
                              /\ \A c \in Concepts : \A p \in ToSet(facts[c]) : AnnualYear(p) \in S
  BY DEF FactsInv
<1>2. ASSUME NEW metric \in Metrics, NEW y \in DOMAIN ValuesByYear(metric) PROVE y \in S
  <2>1. PICK c : c = ConceptUsed(metric)
    OBVIOUS
  <2>2. c # NoValue /\ \E i \in Annual(c) : y = AnnualYear(facts[c][i])
    BY <1>2, <2>1 DEF ValuesByYear
  <2>3. c \in Concepts
    BY <2>1, <2>2, UsedConcept
  <2>4. \A i \in Annual(c) : facts[c][i] \in ToSet(facts[c])
    BY DEF Annual, ToSet
  <2> QED
    BY <1>1, <2>2, <2>3, <2>4
<1>3. all \subseteq S
  BY <1>2
<1> QED
  BY <1>1, <1>3, FS_Subset

\* For the same years both find the same one off.
LEMMA SameVerdict ==
  ASSUME FactsInv, NEW years, NEW full,
         full = [metric \in Metrics |-> CollectMetricValues(metric)]
  PROVE  Consistency([metric \in Metrics |-> ValuesByYear(metric)], years) =
           SummarizeConsistency(RestrictToYears(full, years), years)
<1> DEFINE values == [metric \in Metrics |-> ValuesByYear(metric)]
           cut    == RestrictToYears(full, years)
           three  == {"assets", "liabilities", "equity"}
           Has(y) == \A metric \in three : y \in DOMAIN values[metric]
           bad    == {y \in years : /\ Has(y)
                                    /\ Off(values["assets"][y], values["liabilities"][y], values["equity"][y])}
           balance == [metric \in three |-> cut[metric]]
           whole  == years \cap DOMAIN balance["assets"] \cap DOMAIN balance["liabilities"]
                           \cap DOMAIN balance["equity"]
           bad2   == {y \in whole : Off(balance["assets"][y], balance["liabilities"][y], balance["equity"][y])}
<1>1. three \subseteq Metrics
  BY FactsAssumption DEF Metrics
<1>2. ASSUME NEW metric \in three
      PROVE  /\ DOMAIN balance[metric] = DOMAIN values[metric] \cap years
             /\ \A y \in DOMAIN balance[metric] : balance[metric][y] = values[metric][y]
  <2>1. metric \in Metrics /\ values[metric] = ValuesByYear(metric)
    BY <1>1, <1>2
  <2>2. balance[metric] = [y \in DOMAIN full[metric] \cap years |-> full[metric][y]]
    BY <1>2, <2>1 DEF RestrictToYears
  <2>3. full[metric] = CollectMetricValues(metric)
    BY <2>1
  <2>4. /\ DOMAIN values[metric] = DOMAIN full[metric]
        /\ \A y \in DOMAIN full[metric] : full[metric][y] = values[metric][y]
    BY <2>1, <2>3, SameValues
  <2> HIDE DEF balance, values
  <2> QED
    BY <2>2, <2>4
<1> HIDE DEF values, balance
<1>3. "assets" \in three /\ "liabilities" \in three /\ "equity" \in three
  OBVIOUS
<1>4. \A y \in years : Has(y) <=> y \in whole
  BY <1>2, <1>3
<1>5. \A y \in whole : /\ balance["assets"][y] = values["assets"][y]
                       /\ balance["liabilities"][y] = values["liabilities"][y]
                       /\ balance["equity"][y] = values["equity"][y]
  BY <1>2, <1>3
<1>6. bad = bad2
  <2>1. \A y : y \in bad <=> /\ y \in years /\ Has(y)
                             /\ Off(values["assets"][y], values["liabilities"][y], values["equity"][y])
    OBVIOUS
  <2>2. \A y : y \in bad2 <=> /\ y \in whole
                              /\ Off(balance["assets"][y], balance["liabilities"][y], balance["equity"][y])
    OBVIOUS
  <2>3. whole \subseteq years
    OBVIOUS
  <2> HIDE DEF bad, bad2, whole, Has
  <2> QED
    BY <1>4, <1>5, <2>1, <2>2, <2>3
<1>7. Consistency(values, years) =
        IF bad = {} THEN [status |-> "ok"]
        ELSE [status |-> "mismatch", year |-> CHOOSE y \in bad : \A z \in bad : z <= y]
  BY DEF Consistency, bad, Has, three
<1>8. SummarizeConsistency(cut, years) =
        IF bad2 = {} THEN [status |-> "ok"]
        ELSE [status |-> "mismatch", year |-> CHOOSE y \in bad2 : \A z \in bad2 : z <= y]
  BY DEF SummarizeConsistency, bad2, whole, balance, three
<1> HIDE DEF bad, bad2
<1> QED
  BY <1>6, <1>7, <1>8 DEF values

\* The API answers for the page's columns with the page's figures and verdict.
THEOREM ApiAgreesWithPage == FactsSpec => []ApiMirrorsPage
<1>1. ASSUME FactsInv, NEW query \in Queries,
             YearsAsked(query) \in PageYears .. MaxYears, query.company
      PROVE  LET page == FinancialsPage("absolute", "none", TRUE)
                 api  == GetFinancials(query, TRUE)
             IN  /\ (api.status = 200) = ~page.unavailable
                 /\ api.status = 200 =>
                      /\ page.years \subseteq api.years
                      /\ \A metric \in Metrics, y \in page.years :
                           page.rows[metric].cells[y] =
                             IF y \in DOMAIN api.values[metric] THEN api.values[metric][y] ELSE NoValue
                      /\ YearsAsked(query) = PageYears =>
                           api.years = page.years /\ api.consistency = page.consistency
  <2>1. PICK asked : asked = YearsAsked(query)
    OBVIOUS
  <2>2. PageYears \in Nat \ {0} /\ asked \in Nat /\ PageYears <= asked /\ asked \in 1 .. MaxYears
    BY <1>1, <2>1, FactsAssumption
  <2>3. PICK full : full = [metric \in Metrics |-> CollectMetricValues(metric)]
    OBVIOUS
  <2>4. PICK all : all = UNION {DOMAIN ValuesByYear(metric) : metric \in Metrics}
    OBVIOUS
  <2>5. all \in SUBSET Int /\ IsFiniteSet(all)
    BY <1>1, <2>4, YearsFinite
  <2>6. all = UNION {DOMAIN full[metric] : metric \in Metrics}
    <3>1. \A metric \in Metrics : DOMAIN full[metric] = DOMAIN ValuesByYear(metric)
      BY <1>1, <2>3, SameValues
    <3> QED
      BY <2>4, <3>1
  <2>7. PICK shown, served : shown = Years /\ served = SelectYears(full, asked)
    OBVIOUS
  <2>8. /\ shown = {y \in all : Cardinality({z \in all : z > y}) < PageYears}
        /\ served = {y \in all : Cardinality({z \in all : z >= y}) <= asked}
    BY <2>4, <2>6, <2>7 DEF Years, SelectYears
  <2>9. shown \subseteq served /\ (asked = PageYears => shown = served) /\ (all # {} => shown # {})
    BY <2>2, <2>5, <2>8, LatestYears
  <2>10. served = {} <=> shown = {}
    BY <2>8, <2>9
  <2>11. PICK values, verdict : /\ values = RestrictToYears(full, served)
                                /\ verdict = SummarizeConsistency(values, served)
    OBVIOUS
  <2>12. PICK page, api : page = FinancialsPage("absolute", "none", TRUE) /\ api = GetFinancials(query, TRUE)
    OBVIOUS
  <2>13. page = IF shown = {} THEN [unavailable |-> TRUE]
                ELSE [unavailable |-> FALSE, years |-> shown,
                      rows |-> [metric \in Metrics |-> TableRow(FigureRow(metric, shown), "absolute")],
                      consistency |-> Consistency([metric \in Metrics |-> ValuesByYear(metric)], shown),
                      panel |-> NotePanel("none")]
    BY <2>7, <2>12 DEF FinancialsPage
  <2>14. api = IF served = {} THEN [status |-> 502]
               ELSE [status |-> 200, years |-> served, values |-> values, consistency |-> verdict]
    BY <1>1, <2>1, <2>2, <2>3, <2>7, <2>11, <2>12
    DEF GetFinancials, YearsAllowed, BuildFinancialsResponse
  <2>15. SUFFICES
           /\ (api.status = 200) = ~page.unavailable
           /\ api.status = 200 =>
                /\ page.years \subseteq api.years
                /\ \A metric \in Metrics, y \in page.years :
                     page.rows[metric].cells[y] =
                       IF y \in DOMAIN api.values[metric] THEN api.values[metric][y] ELSE NoValue
                /\ asked = PageYears => api.years = page.years /\ api.consistency = page.consistency
    BY <2>1, <2>12
  <2>16. CASE shown = {}
    <3>1. api = [status |-> 502] /\ page = [unavailable |-> TRUE]
      BY <2>10, <2>13, <2>16, <2>14
    <3>2. api.status = 502 /\ page.unavailable = TRUE
      BY <3>1
    <3>3. (api.status = 200) = FALSE
      BY <3>2
    <3> QED
      BY <3>2, <3>3
  <2>17. CASE shown # {}
    <3>1. api = [status |-> 200, years |-> served, values |-> values, consistency |-> verdict]
      BY <2>10, <2>17, <2>14
    <3>2. /\ api.status = 200 /\ api.years = served /\ api.values = values
          /\ api.consistency = verdict
      BY <3>1
    <3>3. /\ page.unavailable = FALSE /\ page.years = shown
          /\ page.rows = [metric \in Metrics |-> TableRow(FigureRow(metric, shown), "absolute")]
          /\ page.consistency = Consistency([metric \in Metrics |-> ValuesByYear(metric)], shown)
      BY <2>13, <2>17
    <3>4. ASSUME NEW metric \in Metrics, NEW y \in shown
          PROVE  page.rows[metric].cells[y] =
                   IF y \in DOMAIN api.values[metric] THEN api.values[metric][y] ELSE NoValue
      <4>1. PICK own : own = ValuesByYear(metric)
        OBVIOUS
      <4>2. page.rows[metric].cells = [z \in shown |-> IF z \in DOMAIN own THEN own[z] ELSE NoValue]
        BY <3>3, <4>1 DEF TableRow, FigureRow
      <4>3. api.values[metric] = [z \in DOMAIN full[metric] \cap served |-> full[metric][z]]
        BY <2>11, <3>2 DEF RestrictToYears
      <4>4. DOMAIN own = DOMAIN full[metric] /\ \A z \in DOMAIN own : own[z] = full[metric][z]
        BY <1>1, <2>3, <4>1, SameValues
      <4>5. y \in served
        BY <2>9, <3>4
      <4> QED
        BY <3>4, <4>2, <4>3, <4>4, <4>5
    <3>5. asked = PageYears => api.consistency = page.consistency
      <4>1. Consistency([metric \in Metrics |-> ValuesByYear(metric)], served) = verdict
        BY <1>1, <2>3, <2>11, SameVerdict
      <4> QED
        BY <2>9, <3>2, <3>3, <4>1
    <3>6. (api.status = 200) = TRUE /\ (~page.unavailable) = TRUE
      BY <3>2, <3>3
    <3> QED
      BY <2>9, <3>2, <3>3, <3>4, <3>5, <3>6
  <2> QED
    BY <2>16, <2>17
<1>2. FactsInv => ApiMirrorsPage
  BY <1>1 DEF ApiMirrorsPage
<1> QED
  BY <1>2, FactsInvHolds, PTL

------------------------------------------------------------------------------
(* The tables of the financials page. *)

\* The figure of a year is a point's that no other of its year was filed after.
LEMMA PointKept ==
  ASSUME FactsInv, NEW c \in Concepts, NEW y, OfYear(c, y) # {}
  PROVE  \E i \in OfYear(c, y) :
           /\ Kept(facts[c], OfYear(c, y), PreferMoreRecent) = facts[c][i]
           /\ facts[c][i] \in FactPoint
           /\ \A j \in OfYear(c, y) : facts[c][j].filed <= facts[c][i].filed
<1> DEFINE wins == {k \in OfYear(c, y) : \A j \in OfYear(c, y) :
                      PreferMoreRecent(facts[c][k], facts[c][j]) = facts[c][k]}
<1>1. facts[c] \in Seq(FactPoint)
  BY DEF FactsInv
<1>2. PICK n \in Nat : n = Len(facts[c])
  BY <1>1
<1>3. OfYear(c, y) \in SUBSET (1 .. n)
  BY <1>1, <1>2 DEF OfYear, Annual
<1>4. PICK places \in SUBSET (1 .. n) : places = OfYear(c, y)
  BY <1>3
<1>5. \A j \in places : /\ facts[c][j] \in FactPoint
                        /\ facts[c][j].filed \in Int /\ facts[c][j].end \in Int
  <2>1. \A j \in 1 .. n : facts[c][j] \in FactPoint
    BY <1>1, <1>2
  <2>2. \A p \in FactPoint : p.filed \in Int /\ p.end \in Int
    BY DEF FactPoint
  <2> QED
    BY <2>1, <2>2
<1>6. PICK i \in places : \A j \in places : facts[c][j].filed <= facts[c][i].filed
  <2>1. PICK f \in [places -> Int] : \A j \in places : f[j] = facts[c][j].filed
    <3>1. [j \in places |-> facts[c][j].filed] \in [places -> Int]
      BY <1>5
    <3> QED
      BY <3>1
  <2>2. \E i \in places : \A j \in places : f[j] <= f[i]
    BY <1>4, LargestOf
  <2> QED
    BY <2>1, <2>2
<1>7. PICK last \in SUBSET (1 .. n) : last = {j \in places : facts[c][j].filed = facts[c][i].filed}
  OBVIOUS
<1>8. PICK k \in last : \A j \in last : facts[c][j].end <= facts[c][k].end
  <2>1. PICK f \in [last -> Int] : \A j \in last : f[j] = facts[c][j].end
    <3>1. [j \in last |-> facts[c][j].end] \in [last -> Int]
      BY <1>5, <1>7
    <3> QED
      BY <3>1
  <2>2. i \in last
    BY <1>7
  <2>3. \E k \in last : \A j \in last : f[j] <= f[k]
    BY <2>2, LargestOf
  <2> QED
    BY <2>1, <2>3
<1>9. k \in wins
  <2>1. k \in places /\ facts[c][k].filed = facts[c][i].filed
    BY <1>7
  <2>2. ASSUME NEW j \in places PROVE PreferMoreRecent(facts[c][k], facts[c][j]) = facts[c][k]
    <3>1. PICK p, q : p = facts[c][k] /\ q = facts[c][j]
      OBVIOUS
    <3>2. /\ p.filed \in Int /\ q.filed \in Int /\ p.end \in Int /\ q.end \in Int
          /\ q.filed <= p.filed /\ (q.filed = p.filed => q.end <= p.end)
      BY <1>5, <1>6, <1>7, <1>8, <2>1, <3>1
    <3>3. PreferMoreRecent(p, q) = p
      BY <3>2 DEF PreferMoreRecent
    <3> QED
      BY <3>1, <3>3
  <2> QED
    BY <1>4, <2>1, <2>2
<1>10. wins \in SUBSET Nat /\ wins # {}
  BY <1>3, <1>9
<1>11. Kept(facts[c], OfYear(c, y), PreferMoreRecent) = facts[c][Min(wins)]
  BY DEF Kept
<1>12. Min(wins) \in wins
  <2> HIDE DEF wins
  <2> QED
    BY <1>10, LeastNumber DEF Min
<1>13. PICK m : m = Min(wins)
  OBVIOUS
<1>14. /\ m \in places
       /\ \A j \in places : PreferMoreRecent(facts[c][m], facts[c][j]) = facts[c][m]
  BY <1>4, <1>12, <1>13
<1>15. ASSUME NEW j \in places PROVE facts[c][j].filed <= facts[c][m].filed
  <2>1. PICK p, q : p = facts[c][m] /\ q = facts[c][j]
    OBVIOUS
  <2>2. p.filed \in Int /\ q.filed \in Int /\ PreferMoreRecent(p, q) = p
    BY <1>5, <1>14, <2>1
  <2>3. q.filed <= p.filed
    BY <2>2 DEF PreferMoreRecent
  <2> QED
    BY <2>1, <2>3
<1> QED
  BY <1>4, <1>5, <1>11, <1>13, <1>14, <1>15

\* Figures are numbers.
LEMMA FiguresTyped ==
  ASSUME FactsInv, NEW metric \in Metrics
  PROVE  \A y \in DOMAIN ValuesByYear(metric) : ValuesByYear(metric)[y] \in Int
<1> SUFFICES ASSUME NEW y \in DOMAIN ValuesByYear(metric) PROVE ValuesByYear(metric)[y] \in Int
  OBVIOUS
<1>1. PICK c : c = ConceptUsed(metric)
  OBVIOUS
<1>2. /\ c # NoValue /\ \E i \in Annual(c) : y = AnnualYear(facts[c][i])
      /\ ValuesByYear(metric)[y] = Kept(facts[c], OfYear(c, y), PreferMoreRecent).val
  BY <1>1 DEF ValuesByYear
<1>3. c \in Concepts /\ OfYear(c, y) # {}
  BY <1>1, <1>2, UsedConcept DEF OfYear
<1>4. Kept(facts[c], OfYear(c, y), PreferMoreRecent) \in FactPoint
  BY <1>3, PointKept
<1> QED
  BY <1>2, <1>4 DEF FactPoint

TrendAlong(trend, n, order, shown, values) ==
  /\ n = Cardinality(shown) /\ Len(trend) = n
  /\ trend = [i \in 1 .. n |-> [year |-> order[i], value |-> values[order[i]]]]
  /\ \A j, k \in 1 .. n : j < k <=> order[j] < order[k]
  /\ \A y \in shown : \E k \in 1 .. n : order[k] = y

\* A trend goes through the years that have a figure, the oldest first.
LEMMA TrendIs ==
  ASSUME NEW values, NEW years \in SUBSET Int, IsFiniteSet(years),
         NEW shown, shown = years \cap DOMAIN values
  PROVE  \E n \in Nat : \E order \in [1 .. n -> shown] :
           TrendAlong(Trend(values, years), n, order, shown, values)
<1>1. PICK R : R = {p \in shown \X shown : p[1] < p[2]}
  OBVIOUS
<1>2. \A x, y \in shown : <<x, y>> \in R <=> x < y
  BY <1>1
<1>3. IsFiniteSet(shown) /\ shown \subseteq Int
  BY FS_Subset
<1>4. TotalOn(shown, R)
  BY <1>2, <1>3 DEF TotalOn
<1>5. PICK o : o = Arranged(shown, R)
  OBVIOUS
<1>6. PICK n : n = Cardinality(shown)
  OBVIOUS
<1>7. /\ n \in Nat /\ o \in [1 .. n -> shown]
      /\ \A x \in shown : Ahead(shown, R, x) + 1 \in 1 .. n /\ o[Ahead(shown, R, x) + 1] = x
      /\ \A j, k \in 1 .. n : j < k <=> <<o[j], o[k]>> \in R
  <2>1. /\ Cardinality(shown) \in Nat
        /\ Arranged(shown, R) \in [1 .. Cardinality(shown) -> shown]
        /\ \A x \in shown : /\ Ahead(shown, R, x) + 1 \in 1 .. Cardinality(shown)
                             /\ Arranged(shown, R)[Ahead(shown, R, x) + 1] = x
        /\ \A j, k \in 1 .. Cardinality(shown) :
             j < k <=> <<Arranged(shown, R)[j], Arranged(shown, R)[k]>> \in R
    BY <1>3, <1>4, ArrangedIs, ZenonT(60)
  <2> QED
    BY <1>5, <1>6, <2>1
<1>8. \A j, k \in 1 .. n : j < k <=> o[j] < o[k]
  BY <1>2, <1>7
<1>9. Trend(values, years) = [i \in 1 .. n |-> [year |-> o[i], value |-> values[o[i]]]]
  BY <1>1, <1>5, <1>6 DEF Trend
<1>10. Len(Trend(values, years)) = n
  BY <1>7, <1>9
<1>11. \A y \in shown : \E k \in 1 .. n : o[k] = y
  BY <1>7
<1>12. TrendAlong(Trend(values, years), n, o, shown, values)
  BY <1>6, <1>8, <1>9, <1>10, <1>11 DEF TrendAlong
<1> QED
  BY <1>7, <1>12

LEMMA Extremes ==
  ASSUME NEW S \in SUBSET Int, NEW x \in S
  PROVE  /\ (\A z \in S : z <= x) => (CHOOSE y \in S : \A z \in S : z <= y) = x
         /\ (\A z \in S : z >= x) => (CHOOSE y \in S : \A z \in S : z >= y) = x
<1>1. ASSUME \A z \in S : z <= x PROVE (CHOOSE y \in S : \A z \in S : z <= y) = x
  <2>1. PICK w : w = CHOOSE y \in S : \A z \in S : z <= y
    OBVIOUS
  <2>2. w \in S /\ \A z \in S : z <= w
    BY <1>1, <2>1
  <2>3. w \in Int /\ x \in Int /\ w <= x /\ x <= w
    BY <1>1, <2>2
  <2> QED
    BY <2>1, <2>3
<1>2. ASSUME \A z \in S : z >= x PROVE (CHOOSE y \in S : \A z \in S : z >= y) = x
  <2>1. PICK w : w = CHOOSE y \in S : \A z \in S : z >= y
    OBVIOUS
  <2>2. w \in S /\ \A z \in S : z >= w
    BY <1>2, <2>1
  <2>3. w \in Int /\ x \in Int /\ w >= x /\ x >= w
    BY <1>2, <2>2
  <2> QED
    BY <2>1, <2>3
<1> QED
  BY <1>1, <1>2

\* In a row without gaps the change of a year is that from the year before it in
\* the trend.
LEMMA ChangeIs ==
  ASSUME NEW years \in SUBSET Int, NEW values, \A y \in years : y \in DOMAIN values,
         NEW n \in Nat, NEW order \in [1 .. n -> years], NEW trend,
         TrendAlong(trend, n, order, years, values)
  PROVE  \A i \in 1 .. n - 1 :
           Delta(values, years, order[i + 1]).change = values[order[i + 1]] - values[order[i]]
<1> SUFFICES ASSUME NEW i \in 1 .. n - 1
             PROVE  Delta(values, years, order[i + 1]).change = values[order[i + 1]] - values[order[i]]
  OBVIOUS
<1>0. /\ \A j, k \in 1 .. n : j < k <=> order[j] < order[k]
      /\ \A y \in years : \E k \in 1 .. n : order[k] = y
  BY DEF TrendAlong
<1>1. i \in 1 .. n /\ i + 1 \in 1 .. n /\ i \in Int
  OBVIOUS
<1>2. PICK y, x : y = order[i + 1] /\ x = order[i]
  OBVIOUS
<1>3. x \in years /\ y \in years /\ x \in Int /\ y \in Int /\ x < y
  BY <1>0, <1>1, <1>2
<1> DEFINE older == {z \in years : z < y}
<1>4. \A z \in older : z <= x
  <2> SUFFICES ASSUME NEW z \in older PROVE z <= x
    OBVIOUS
  <2>1. z \in years /\ z < y
    OBVIOUS
  <2>2. PICK k \in 1 .. n : order[k] = z
    BY <1>0, <2>1
  <2>3. k < i + 1
    BY <1>0, <1>1, <1>2, <2>1, <2>2
  <2>4. ~(i < k)
    BY <1>1, <2>3
  <2>5. ~(x < z) /\ z \in Int
    BY <1>0, <1>1, <1>2, <2>1, <2>2, <2>4
  <2> QED
    BY <1>3, <2>5
<1>5. x \in older
  BY <1>3
<1>6. (CHOOSE z \in older : \A w \in older : w <= z) = x
  <2>1. older \in SUBSET Int
    OBVIOUS
  <2> HIDE DEF older
  <2> QED
    BY <1>4, <1>5, <2>1, Extremes
<1>7. Delta(values, years, y) =
        [prior |-> x, change |-> values[y] - values[x],
         percent |-> IF values[x] = 0 THEN NoValue ELSE <<values[y] - values[x], Magnitude(values[x])>>]
  <2>1. older # {} /\ y \in DOMAIN values /\ x \in DOMAIN values
    BY <1>3, <1>5
  <2>2. PICK prior : prior = CHOOSE z \in older : \A w \in older : w <= z
    OBVIOUS
  <2>3. Delta(values, years, y) =
          IF older = {} \/ y \notin DOMAIN values THEN NoValue
          ELSE IF prior \notin DOMAIN values THEN NoValue
          ELSE [prior |-> prior, change |-> values[y] - values[prior],
                percent |-> IF values[prior] = 0 THEN NoValue
                            ELSE <<values[y] - values[prior], Magnitude(values[prior])>>]
    BY <2>2 DEF Delta
  <2>4. prior = x
    BY <1>6, <2>2, Zenon
  <2> HIDE DEF older
  <2> QED
    BY <2>1, <2>3, <2>4
<1> QED
  BY <1>2, <1>7

\* The changes along an order of the years add up.
LEMMA ChangesAddUp ==
  ASSUME NEW n \in Nat \ {0}, NEW figures \in [1 .. n -> Int],
         NEW changes, changes = [i \in 1 .. n - 1 |-> figures[i + 1] - figures[i]]
  PROVE  SumOf(changes) = figures[n] - figures[1]
<1>1. changes \in Seq(Int) /\ Len(changes) = n - 1
  <2>1. n - 1 \in Nat /\ \A i \in 1 .. n - 1 : figures[i + 1] - figures[i] \in Int
    OBVIOUS
  <2>2. changes \in [1 .. n - 1 -> Int]
    BY <2>1, Zenon
  <2> QED
    BY <2>1, <2>2
<1>0. PICK sum \in [0 .. Len(changes) -> Int] :
        /\ SumOf(changes) = sum[Len(changes)]
        /\ sum[0] = 0 /\ \A k \in 1 .. Len(changes) : sum[k] = sum[k - 1] + changes[k]
  BY <1>1, SumIs
<1>2. /\ sum \in [0 .. n - 1 -> Int]
      /\ SumOf(changes) = sum[n - 1]
      /\ sum[0] = 0 /\ \A k \in 1 .. n - 1 : sum[k] = sum[k - 1] + changes[k]
  <2>1. sum \in [0 .. n - 1 -> Int] /\ SumOf(changes) = sum[n - 1]
    BY <1>0, <1>1
  <2>2. ASSUME NEW k \in 1 .. n - 1 PROVE sum[k] = sum[k - 1] + changes[k]
    <3>1. k \in 1 .. Len(changes)
      BY <1>1
    <3> QED
      BY <1>0, <3>1
  <2> QED
    BY <1>0, <2>1, <2>2
<1> DEFINE S == {k \in 0 .. n - 1 : sum[k] = figures[k + 1] - figures[1]}
<1>3. 0 \in S
  <2>1. figures[1] \in Int /\ figures[0 + 1] = figures[1]
    OBVIOUS
  <2> QED
    BY <1>2, <2>1
<1>4. ASSUME NEW k \in 1 .. n - 1, k - 1 \in S PROVE k \in S
  <2>1. sum[k - 1] = figures[k] - figures[1]
    BY <1>4
  <2>2. changes[k] = figures[k + 1] - figures[k]
    OBVIOUS
  <2>3. figures[k] \in Int /\ figures[k + 1] \in Int /\ figures[1] \in Int
    OBVIOUS
  <2> QED
    BY <1>2, <2>1, <2>2, <2>3
<1> HIDE DEF S
<1>5. 0 .. n - 1 \subseteq S
  <2>1. n - 1 \in Nat
    OBVIOUS
  <2> QED
    BY <1>3, <1>4, <2>1, UpTo
<1>6. n - 1 \in S
  BY <1>5
<1> QED
  BY <1>2, <1>6 DEF S

ChangesOf(changes, trend, n) == [i \in 1 .. n - 1 |-> changes[trend[i + 1].year].change]

LEMMA FullRowAddsUp ==
  ASSUME NEW years \in SUBSET Int, NEW values,
         \A y \in years : y \in DOMAIN values /\ values[y] \in Int,
         NEW n \in Nat \ {0}, NEW order \in [1 .. n -> years], NEW trend,
         TrendAlong(trend, n, order, years, values),
         NEW changes, changes = [y \in years |-> Delta(values, years, y)]
  PROVE  SumOf(ChangesOf(changes, trend, n)) = values[order[n]] - values[order[1]]
<1>1. PICK figures : figures = [i \in 1 .. n |-> values[order[i]]]
  OBVIOUS
<1>2. figures \in [1 .. n -> Int]
  BY <1>1
<1>3. \A i \in 1 .. n - 1 :
        Delta(values, years, order[i + 1]).change = values[order[i + 1]] - values[order[i]]
  <2>1. (\A y \in years : y \in DOMAIN values) /\ n \in Nat
    OBVIOUS
  <2> QED
    BY <2>1, ChangeIs, ZenonT(30)
<1>4. \A i \in 1 .. n - 1 : changes[trend[i + 1].year].change = figures[i + 1] - figures[i]
  <2> SUFFICES ASSUME NEW i \in 1 .. n - 1
               PROVE  changes[trend[i + 1].year].change = figures[i + 1] - figures[i]
    OBVIOUS
  <2>1. i \in 1 .. n /\ i + 1 \in 1 .. n
    OBVIOUS
  <2>2. trend[i + 1].year = order[i + 1] /\ order[i + 1] \in years
    BY <2>1 DEF TrendAlong
  <2>3. changes[order[i + 1]] = Delta(values, years, order[i + 1])
    BY <2>2
  <2> QED
    BY <1>1, <1>3, <2>1, <2>2, <2>3
<1>5. PICK diffs : diffs = ChangesOf(changes, trend, n)
  OBVIOUS
<1>6. diffs = [i \in 1 .. n - 1 |-> figures[i + 1] - figures[i]]
  BY <1>4, <1>5 DEF ChangesOf
<1>7. SumOf(diffs) = figures[n] - figures[1]
  BY <1>2, <1>6, ChangesAddUp
<1>8. n \in 1 .. n /\ 1 \in 1 .. n
  OBVIOUS
<1> QED
  BY <1>1, <1>5, <1>7, <1>8

\* A row of the table: its trend, its changes and its shares.
LEMMA RowsCohere ==
  ASSUME FactsInv, NEW metric \in Metrics, NEW years \in SUBSET Int, IsFiniteSet(years), years # {},
         NEW row, row = TableRow(FigureRow(metric, years), "absolute"),
         NEW sized, sized = TableRow(FigureRow(metric, years), "common-size")
  PROVE  RowCoherent(metric, row, sized.cells, years)
<1>0. PICK have : have = {y \in years : row.cells[y] # NoValue}
  OBVIOUS
<1>1. PICK values : values = ValuesByYear(metric)
  OBVIOUS
<1>2. PICK base : base = ValuesByYear(StatementMetrics[StatementOf(metric)][1])
  OBVIOUS
<1>3. PICK figures : figures = FigureRow(metric, years)
  OBVIOUS
<1>4. /\ figures.figure = [y \in years |-> IF y \in DOMAIN values THEN values[y] ELSE NoValue]
      /\ figures.delta = [y \in years |-> Delta(values, years, y)]
      /\ figures.share = [y \in years |-> ShareOfBase(values, base, y)]
      /\ figures.trend = Trend(values, years)
  BY <1>1, <1>2, <1>3 DEF FigureRow
<1>5. /\ row.cells = figures.figure /\ row.changes = figures.delta /\ row.trend = figures.trend
      /\ sized.cells = figures.share
  BY <1>3 DEF TableRow
<1>6. \A y \in DOMAIN values : values[y] \in Int /\ values[y] # NoValue
  BY <1>1, FiguresTyped, FactsAssumption
<1>7. have = years \cap DOMAIN values
  <2>1. \A y \in years : row.cells[y] # NoValue <=> y \in DOMAIN values
    BY <1>4, <1>5, <1>6
  <2> QED
    BY <1>0, <2>1
<1>8. \A y \in have : row.cells[y] = values[y] /\ y \in Int /\ values[y] \in Int
  BY <1>4, <1>5, <1>6, <1>7
<1>9. PICK t : t = Trend(values, years)
  OBVIOUS
<1>10. PICK n \in Nat : \E order \in [1 .. n -> have] :
         TrendAlong(Trend(values, years), n, order, have, values)
  BY <1>7, TrendIs
<1>11. PICK order \in [1 .. n -> have] :
         /\ n = Cardinality(have) /\ Len(t) = n
         /\ t = [i \in 1 .. n |-> [year |-> order[i], value |-> values[order[i]]]]
         /\ \A j, k \in 1 .. n : j < k <=> order[j] < order[k]
         /\ \A y \in have : \E k \in 1 .. n : order[k] = y
  BY <1>9, <1>10 DEF TrendAlong
<1>12. row.trend = t
  BY <1>4, <1>5, <1>9
<1>13. ASSUME have # {}
       PROVE  /\ n # 0 /\ 1 \in 1 .. n /\ n \in 1 .. n
              /\ \A z \in have : z <= order[n] /\ z >= order[1]
  <2>1. n # 0
    <3>1. PICK y \in have : TRUE
      BY <1>13
    <3>2. PICK k \in 1 .. n : order[k] = y
      BY <1>11
    <3> QED
      BY <3>2
  <2>2. 1 \in 1 .. n /\ n \in 1 .. n
    BY <2>1
  <2>3. ASSUME NEW z \in have PROVE z <= order[n] /\ z >= order[1]
    <3>1. PICK k \in 1 .. n : order[k] = z
      BY <1>11
    <3>2. ~(n < k) /\ ~(k < 1)
      OBVIOUS
    <3>3. ~(order[n] < z) /\ ~(z < order[1])
      BY <1>11, <2>2, <3>1, <3>2
    <3>4. z \in Int /\ order[n] \in Int /\ order[1] \in Int
      BY <1>8, <2>2
    <3> QED
      BY <3>3, <3>4
  <2> QED
    BY <2>1, <2>2, <2>3
<1>14. Len(row.trend) = Cardinality(have)
  BY <1>11, <1>12
<1>15. PICK newest, oldest : /\ newest = CHOOSE y \in have : \A z \in have : z <= y
                             /\ oldest = CHOOSE y \in have : \A z \in have : z >= y
  OBVIOUS
<1>16. have # {} => newest = order[n] /\ oldest = order[1] /\ order[n] \in have /\ order[1] \in have
  <2> SUFFICES ASSUME have # {}
               PROVE newest = order[n] /\ oldest = order[1] /\ order[n] \in have /\ order[1] \in have
    OBVIOUS
  <2>1. order[n] \in have /\ order[1] \in have /\ have \in SUBSET Int
    BY <1>8, <1>13
  <2>2. newest = order[n]
    BY <1>13, <1>15, <2>1, Extremes
  <2>3. oldest = order[1]
    BY <1>13, <1>15, <2>1, Extremes
  <2> QED
    BY <2>1, <2>2, <2>3
<1>17. have # {} => Last(row.trend) = [year |-> newest, value |-> row.cells[newest]]
  <2> SUFFICES ASSUME have # {} PROVE Last(row.trend) = [year |-> newest, value |-> row.cells[newest]]
    OBVIOUS
  <2>1. Last(t) = t[n]
    BY <1>11 DEF Last
  <2>2. t[n] = [year |-> order[n], value |-> values[order[n]]]
    BY <1>11, <1>13
  <2>3. row.cells[order[n]] = values[order[n]]
    BY <1>8, <1>16
  <2> QED
    BY <1>12, <1>16, <2>1, <2>2, <2>3
<1>18. ASSUME have = years
       PROVE  SumOf([i \in 1 .. Len(row.trend) - 1 |-> row.changes[row.trend[i + 1].year].change])
                = row.cells[newest] - row.cells[oldest]
  <2>1. \A y \in years : y \in DOMAIN values /\ values[y] \in Int
    BY <1>7, <1>8, <1>18
  <2>2. TrendAlong(t, n, order, years, values) /\ order \in [1 .. n -> years] /\ n \in Nat \ {0}
    BY <1>11, <1>13, <1>18 DEF TrendAlong
  <2>3. row.changes = [y \in years |-> Delta(values, years, y)]
    BY <1>4, <1>5
  <2>4. SumOf(ChangesOf(row.changes, t, n)) = values[order[n]] - values[order[1]]
    BY <2>1, <2>2, <2>3, FullRowAddsUp
  <2>5. Len(row.trend) = n
    BY <1>11, <1>12
  <2>6. row.cells[newest] = values[order[n]] /\ row.cells[oldest] = values[order[1]]
    BY <1>8, <1>16, <1>18
  <2> QED
    BY <1>12, <2>4, <2>5, <2>6 DEF ChangesOf
<1>19. ASSUME metric = StatementMetrics[StatementOf(metric)][1], NEW y \in years
       PROVE  sized.cells[y] \in {NoValue, <<row.cells[y], row.cells[y]>>}
  <2>1. base = values
    BY <1>1, <1>2, <1>19
  <2>2. sized.cells[y] = ShareOfBase(values, values, y)
    BY <1>4, <1>5, <2>1
  <2>3. y \in DOMAIN values => row.cells[y] = values[y]
    BY <1>4, <1>5
  <2> QED
    BY <2>2, <2>3 DEF ShareOfBase
<1> QED
  BY <1>0, <1>14, <1>15, <1>18, <1>19, <1>17 DEF RowCoherent

\* A card is a point of the concept its table row uses.
LEMMA CardIs ==
  ASSUME FactsInv, NEW metric \in Metrics, NEW c, c = ConceptUsed(metric), c # NoValue
  PROVE  \E i \in Annual(c) : Headline(metric) = facts[c][i] /\ facts[c][i] \in FactPoint
<1>1. c \in Concepts /\ Annual(c) # {}
  <2> DEFINE those == {i \in DOMAIN Candidates[metric] : Annual(Candidates[metric][i]) # {}}
  <2>1. Candidates[metric] \in Seq(ToSet(Candidates[metric]))
    BY FactsAssumption DEF Metrics
  <2>2. those \in SUBSET Nat
    BY <2>1
  <2>3. those # {} /\ c = Candidates[metric][Min(those)]
    BY DEF ConceptUsed, FirstWhere
  <2>4. Min(those) \in those
    <3> HIDE DEF those
    <3> QED
      BY <2>2, <2>3, LeastNumber DEF Min
  <2> QED
    BY <2>3, <2>4, UsedConcept
<1>2. facts[c] \in Seq(FactPoint)
  BY <1>1 DEF FactsInv
<1>3. PICK n \in Nat : n = Len(facts[c])
  BY <1>2
<1>4. PICK places \in SUBSET (1 .. n) : places = Annual(c)
  <2>1. Annual(c) \in SUBSET (1 .. n)
    BY <1>2, <1>3 DEF Annual
  <2> QED
    BY <2>1
<1>5. \A j \in places : facts[c][j] \in FactPoint /\ facts[c][j].end \in Int
  <2>1. \A j \in 1 .. n : facts[c][j] \in FactPoint
    BY <1>2, <1>3
  <2>2. \A p \in FactPoint : p.end \in Int
    BY DEF FactPoint
  <2> QED
    BY <2>1, <2>2
<1> DEFINE latest == {i \in places : \A j \in places : facts[c][j].end <= facts[c][i].end}
<1>6. latest # {}
  <2>1. PICK f \in [places -> Int] : \A j \in places : f[j] = facts[c][j].end
    <3>1. [j \in places |-> facts[c][j].end] \in [places -> Int]
      BY <1>5
    <3> QED
      BY <3>1
  <2>2. \E i \in places : \A j \in places : f[j] <= f[i]
    BY <1>1, <1>4, LargestOf
  <2> QED
    BY <2>1, <2>2
<1>7. Headline(metric) = facts[c][Min(latest)]
  BY <1>4 DEF Headline, PickLatestAnnual
<1>8. latest \in SUBSET Nat
  <2>1. places \in SUBSET Nat
    OBVIOUS
  <2> QED
    BY <2>1
<1>9. Min(latest) \in latest
  <2> HIDE DEF latest
  <2> QED
    BY <1>6, <1>8, LeastNumber DEF Min
<1> QED
  BY <1>4, <1>5, <1>7, <1>9

\* The point of the table was not filed before the card's.
LEMMA CardsCohere ==
  ASSUME FactsInv, NEW metric \in Metrics, NEW years, NEW row,
         row = TableRow(FigureRow(metric, years), "absolute")
  PROVE  CardCoherent(Headline(metric), row, years)
<1> SUFFICES ASSUME NEW card, card = Headline(metric), card # NoValue, AnnualYear(card) \in years
               PROVE  \E i \in OfYear(row.concept, AnnualYear(card)) :
                        LET p == facts[row.concept][i]
                        IN  p.val = row.cells[AnnualYear(card)] /\ p.filed >= card.filed
  BY DEF CardCoherent
<1>1. PICK c : c = ConceptUsed(metric)
  OBVIOUS
<1>2. c # NoValue
  BY <1>1 DEF Headline
<1>3. PICK k \in Annual(c) : card = facts[c][k] /\ facts[c][k] \in FactPoint
  BY <1>1, <1>2, CardIs
<1>4. PICK y : y = AnnualYear(card)
  OBVIOUS
<1>5. k \in OfYear(c, y) /\ c \in Concepts
  BY <1>1, <1>2, <1>3, <1>4, UsedConcept DEF OfYear
<1>6. PICK i \in OfYear(c, y) :
        /\ Kept(facts[c], OfYear(c, y), PreferMoreRecent) = facts[c][i]
        /\ facts[c][i] \in FactPoint
        /\ \A j \in OfYear(c, y) : facts[c][j].filed <= facts[c][i].filed
  BY <1>5, PointKept
<1>7. y \in DOMAIN ValuesByYear(metric) /\ ValuesByYear(metric)[y] = facts[c][i].val
  <2>1. y \in {AnnualYear(facts[c][j]) : j \in Annual(c)}
    BY <1>3, <1>4
  <2> QED
    BY <1>1, <1>2, <1>6, <2>1 DEF ValuesByYear
<1>8. row.concept = c /\ row.cells[y] = facts[c][i].val
  BY <1>1, <1>4, <1>7 DEF TableRow, FigureRow
<1>9. facts[c][i].filed >= card.filed
  <2>1. facts[c][k].filed <= facts[c][i].filed /\ facts[c][k].filed \in Int /\ facts[c][i].filed \in Int
    BY <1>3, <1>5, <1>6 DEF FactPoint
  <2> QED
    BY <1>3, <2>1
<1> QED
  BY <1>4, <1>6, <1>8, <1>9

\* The page has years exactly if there are cards.
LEMMA CardsShown ==
  ASSUME FactsInv
  PROVE  /\ Years = {} => HeadlineCards(TRUE) = NoValue
         /\ Years # {} => HeadlineCards(TRUE) = [metric \in Metrics |-> Headline(metric)]
<1>1. PICK all : all = UNION {DOMAIN ValuesByYear(metric) : metric \in Metrics}
  OBVIOUS
<1>2. all \in SUBSET Int /\ IsFiniteSet(all)
  BY <1>1, YearsFinite
<1>3. Years = {y \in all : Cardinality({z \in all : z > y}) < PageYears}
  BY <1>1 DEF Years
<1>4. Years = {} <=> all = {}
  <2>1. PageYears \in Nat \ {0} /\ PageYears \in Nat /\ PageYears <= PageYears
    BY FactsAssumption
  <2>2. all # {} => Years # {}
    BY <1>2, <1>3, <2>1, LatestYears
  <2> QED
    BY <1>3, <2>2
<1>5. \A metric \in Metrics : ConceptUsed(metric) = NoValue <=> DOMAIN ValuesByYear(metric) = {}
  <2> SUFFICES ASSUME NEW metric \in Metrics, NEW c, c = ConceptUsed(metric)
               PROVE  c = NoValue <=> DOMAIN ValuesByYear(metric) = {}
    OBVIOUS
  <2>1. DOMAIN ValuesByYear(metric) = IF c = NoValue THEN {} ELSE {AnnualYear(facts[c][i]) : i \in Annual(c)}
    BY DEF ValuesByYear
  <2>2. c # NoValue => Annual(c) # {}
    BY CardIs
  <2> QED
    BY <2>1, <2>2
<1>6. PICK cards : cards = [metric \in Metrics |-> Headline(metric)]
  OBVIOUS
<1>7. HeadlineCards(TRUE) = IF cards = NoValue THEN NoValue
                            ELSE IF \A metric \in Metrics : cards[metric] = NoValue THEN NoValue ELSE cards
  BY <1>6 DEF HeadlineCards, HeadlineFundamentals
<1>8. \A metric \in Metrics : cards[metric] = NoValue <=> ConceptUsed(metric) = NoValue
  <2> SUFFICES ASSUME NEW metric \in Metrics PROVE cards[metric] = NoValue <=> ConceptUsed(metric) = NoValue
    OBVIOUS
  <2>1. ConceptUsed(metric) # NoValue => Headline(metric) \in FactPoint
    BY CardIs
  <2>2. ConceptUsed(metric) = NoValue => Headline(metric) = NoValue
    BY DEF Headline
  <2> QED
    BY <1>6, <2>1, <2>2, FactsAssumption
<1>9. all = {} <=> \A metric \in Metrics : DOMAIN ValuesByYear(metric) = {}
  BY <1>1
<1>10. CASE all = {}
  BY <1>4, <1>5, <1>7, <1>8, <1>9, <1>10
<1>11. CASE all # {}
  BY <1>4, <1>5, <1>6, <1>7, <1>8, <1>9, <1>11
<1> QED
  BY <1>10, <1>11

\* Trends, changes, shares and cards of the page hang together.
THEOREM TablesHangTogether == FactsSpec => []TablesCoherent
<1>1. ASSUME FactsInv PROVE TablesCoherent
  <2>1. PICK years : years = Years
    OBVIOUS
  <2>2. PICK page, sized, cards : /\ page = FinancialsPage("absolute", "none", TRUE)
                                  /\ sized = FinancialsPage("common-size", "none", TRUE)
                                  /\ cards = HeadlineCards(TRUE)
    OBVIOUS
  <2>3. SUFFICES IF page.unavailable THEN cards = NoValue
                 ELSE \A metric \in Metrics :
                        /\ RowCoherent(metric, page.rows[metric], sized.rows[metric].cells, page.years)
                        /\ CardCoherent(cards[metric], page.rows[metric], page.years)
    BY <2>2 DEF TablesCoherent
  <2>4. CASE years = {}
    <3>1. page = [unavailable |-> TRUE]
      BY <2>1, <2>2, <2>4 DEF FinancialsPage
    <3>2. cards = NoValue
      BY <1>1, <2>1, <2>2, <2>4, CardsShown
    <3> QED
      BY <3>1, <3>2
  <2>5. CASE years # {}
    <3>1. /\ page.unavailable = FALSE /\ page.years = years
          /\ page.rows = [metric \in Metrics |-> TableRow(FigureRow(metric, years), "absolute")]
          /\ sized.rows = [metric \in Metrics |-> TableRow(FigureRow(metric, years), "common-size")]
      BY <2>1, <2>2, <2>5 DEF FinancialsPage
    <3>2. cards = [metric \in Metrics |-> Headline(metric)]
      BY <1>1, <2>1, <2>2, <2>5, CardsShown
    <3>3. years \in SUBSET Int /\ IsFiniteSet(years)
      <4>1. PICK all : all = UNION {DOMAIN ValuesByYear(metric) : metric \in Metrics}
        OBVIOUS
      <4>2. all \in SUBSET Int /\ IsFiniteSet(all) /\ years \in SUBSET all
        BY <1>1, <2>1, <4>1, YearsFinite DEF Years
      <4> QED
        BY <4>2, FS_Subset
    <3>4. ASSUME NEW metric \in Metrics
          PROVE  /\ RowCoherent(metric, page.rows[metric], sized.rows[metric].cells, page.years)
                 /\ CardCoherent(cards[metric], page.rows[metric], page.years)
      <4>1. PICK row, other : /\ row = TableRow(FigureRow(metric, years), "absolute")
                              /\ other = TableRow(FigureRow(metric, years), "common-size")
        OBVIOUS
      <4>2. page.rows[metric] = row /\ sized.rows[metric] = other /\ cards[metric] = Headline(metric)
        BY <3>1, <3>2, <4>1
      <4>3. RowCoherent(metric, row, other.cells, years)
        BY <1>1, <2>5, <3>3, <4>1, RowsCohere
      <4>4. CardCoherent(Headline(metric), row, years)
        BY <1>1, <4>1, CardsCohere
      <4> QED
        BY <3>1, <4>2, <4>3, <4>4
    <3> QED
      BY <3>1, <3>4
  <2> QED
    BY <2>4, <2>5
<1> QED
  BY <1>1, FactsInvHolds, PTL

------------------------------------------------------------------------------
(* Filings: the walk through the pages and the views of one feed. *)

LEMMA CutIs ==
  ASSUME NEW A, NEW s \in Seq(A), NEW n \in Nat
  PROVE  /\ Cut(s, n) \in Seq(A)
         /\ Len(Cut(s, n)) = IF n < Len(s) THEN n ELSE Len(s)
         /\ \A i \in 1 .. Len(Cut(s, n)) : Cut(s, n)[i] = s[i]
<1>1. PICK m : m = IF n < Len(s) THEN n ELSE Len(s)
  OBVIOUS
<1>2. m \in 0 .. Len(s) /\ Cut(s, n) = SubSeq(s, 1, m)
  BY <1>1 DEF Cut
<1>3. SubSeq(s, 1, m) \in Seq(A) /\ Len(SubSeq(s, 1, m)) = m
      /\ \A i \in 1 .. m : SubSeq(s, 1, m)[i] = s[i]
  BY <1>2
<1> QED
  BY <1>1, <1>2, <1>3

\* The n elements of a list that follow those read.
After(s, read, n) ==
  SubSeq(s, read + 1, IF read + n < Len(s) THEN read + n ELSE Len(s))

LEMMA Pages ==
  ASSUME NEW s, NEW p \in Nat \ {0}, NEW n \in Nat \ {0}
  PROVE  \E read \in Nat :
           /\ read = (p - 1) * n /\ read + n = (p + 1 - 1) * n
           /\ Page(s, p, n) = After(s, read, n)
<1>1. PICK read : read = (p - 1) * n
  OBVIOUS
<1>2. p - 1 \in Nat /\ p * n = (p - 1) * n + n /\ p + 1 - 1 = p
  OBVIOUS
<1>3. read \in Nat /\ p * n = read + n
  BY <1>1, <1>2
<1>4. Page(s, p, n) = After(s, read, n)
  BY <1>1, <1>3 DEF Page, After
<1> QED
  BY <1>1, <1>2, <1>3, <1>4

\* What a page of size n adds to what has been read of a list.
LEMMA PageFollows ==
  ASSUME NEW A, NEW s \in Seq(A), NEW read \in Nat, NEW n \in Nat \ {0}, NEW page,
         page = After(s, read, n)
  PROVE  /\ page \in Seq(A) /\ Cut(s, read) \o page = Cut(s, read + n)
         /\ Len(page) # n => Len(s) < read + n
         /\ \A i \in DOMAIN s : read < i /\ i <= read + n => s[i] \in ToSet(page)
         /\ ToSet(page) \subseteq ToSet(s)
<1>1. read \in Nat /\ n \in Nat /\ n > 0
  OBVIOUS
<1>2. PICK last : last = IF read + n < Len(s) THEN read + n ELSE Len(s)
  OBVIOUS
<1>3. page = SubSeq(s, read + 1, last)
  BY <1>2 DEF After
<1>4. last \in 0 .. Len(s) /\ last <= read + n /\ Len(s) \in Nat
  BY <1>1, <1>2
<1>5. /\ page \in Seq(A)
      /\ Len(page) = IF read < last THEN last - read ELSE 0
      /\ \A i \in 1 .. Len(page) : page[i] = s[read + i]
  BY <1>1, <1>3, <1>4
<1>6. Len(page) # n => Len(s) < read + n
  BY <1>1, <1>2, <1>5
<1>7. ASSUME NEW i \in DOMAIN s, read < i, i <= read + n PROVE s[i] \in ToSet(page)
  <2>1. i - read \in 1 .. Len(page) /\ read + (i - read) = i
    BY <1>1, <1>2, <1>5, <1>7
  <2>2. page[i - read] = s[i]
    BY <1>5, <2>1
  <2> QED
    BY <1>5, <2>1, <2>2 DEF ToSet
<1>8. ToSet(page) \subseteq ToSet(s)
  <2> SUFFICES ASSUME NEW i \in DOMAIN page PROVE page[i] \in ToSet(s)
    BY DEF ToSet
  <2>1. read + i \in DOMAIN s /\ page[i] = s[read + i]
    BY <1>1, <1>4, <1>5
  <2> QED
    BY <2>1 DEF ToSet
<1>9. Cut(s, read) \o page = Cut(s, read + n)
  <2>1. PICK before, after : before = Cut(s, read) /\ after = Cut(s, read + n)
    OBVIOUS
  <2>2. /\ before \in Seq(A) /\ Len(before) = IF read < Len(s) THEN read ELSE Len(s)
        /\ \A i \in 1 .. Len(before) : before[i] = s[i]
    BY <1>1, <2>1, CutIs
  <2>3. /\ after \in Seq(A) /\ Len(after) = last
        /\ \A i \in 1 .. Len(after) : after[i] = s[i]
    BY <1>1, <1>2, <2>1, CutIs
  <2>4. PICK b \in Nat, g \in Nat : b = Len(before) /\ g = Len(page)
    BY <1>5, <2>2
  <2>5. /\ before \o page \in Seq(A) /\ Len(before \o page) = b + g
        /\ \A i \in 1 .. b + g :
             (before \o page)[i] = IF i <= b THEN before[i] ELSE page[i - b]
    <3>1. before \in Seq(A) /\ page \in Seq(A)
      BY <1>5, <2>2
    <3>2. /\ before \o page \in Seq(A) /\ Len(before \o page) = Len(before) + Len(page)
          /\ \A i \in 1 .. Len(before) + Len(page) :
               (before \o page)[i] = IF i <= Len(before) THEN before[i] ELSE page[i - Len(before)]
      BY <3>1, ConcatProperties
    <3> QED
      BY <2>4, <3>2, Zenon
  <2>6. b + g = last /\ (g > 0 => b = read)
    <3>1. b = IF read < Len(s) THEN read ELSE Len(s)
      BY <2>2, <2>4
    <3>2. g = IF read < last THEN last - read ELSE 0
      BY <1>5, <2>4
    <3>3. PICK l \in Nat : l = Len(s)
      BY <1>4
    <3>4. last = (IF read + n < l THEN read + n ELSE l) /\ b = (IF read < l THEN read ELSE l)
      BY <1>2, <3>1, <3>3
    <3>5. CASE l <= read
      <4>1. b = l /\ last = l /\ g = 0
        BY <1>1, <3>2, <3>3, <3>4, <3>5
      <4> QED
        BY <3>3, <4>1
    <3>6. CASE ~(l <= read)
      <4>1. b = read /\ read < last /\ last \in Nat /\ g = last - read
        BY <1>1, <3>2, <3>3, <3>4, <3>6
      <4> QED
        BY <1>1, <4>1
    <3> QED
      BY <3>5, <3>6
  <2>7. ASSUME NEW i \in 1 .. last PROVE (before \o page)[i] = after[i]
    <3>0. i \in Nat /\ i >= 1 /\ i <= last /\ after[i] = s[i]
      BY <1>4, <2>3
    <3>1. CASE i <= b
      <4>1. before[i] = s[i]
        BY <2>2, <2>4, <3>0, <3>1
      <4>2. (before \o page)[i] = before[i]
        BY <2>5, <2>6, <3>0, <3>1
      <4> QED
        BY <3>0, <4>1, <4>2
    <3>2. CASE ~(i <= b)
      <4>1. b = read /\ i - read \in 1 .. g /\ read + (i - read) = i
        BY <1>1, <1>4, <2>4, <2>6, <3>0, <3>2
      <4>2. (before \o page)[i] = page[i - read]
        BY <2>5, <2>6, <3>0, <3>2, <4>1
      <4>3. page[i - read] = s[read + (i - read)]
        BY <1>5, <2>4, <4>1
      <4> QED
        BY <3>0, <4>1, <4>2, <4>3
    <3> QED
      BY <3>1, <3>2
  <2>8. before \o page = after
    <3>1. PICK join : join = before \o page
      OBVIOUS
    <3>2. join \in Seq(A) /\ Len(join) = Len(after) /\ \A i \in 1 .. Len(join) : join[i] = after[i]
      BY <2>3, <2>5, <2>6, <2>7, <3>1
    <3>3. join = after
      BY <2>3, <3>2, SeqEqual
    <3> QED
      BY <3>1, <3>3
  <2> QED
    BY <2>1, <2>8
<1> QED
  BY <1>1, <1>5, <1>6, <1>7, <1>8, <1>9

\* What is true of every feed: one number for each filing, on its day.
FeedSound ==
  /\ feed \in [Ciks -> Seq(Filing)] /\ filed \in Nat
  /\ \A cik \in Ciks : \A filing \in ToSet(feed[cik]) :
       filing.date <= filed /\ filing.accession[2] = filing.date
  /\ \A cik \in Ciks : \A i, j \in DOMAIN feed[cik] :
       feed[cik][i].date = feed[cik][j].date => i = j

\* What is true of a walk w whose query lists L, on a day: the first of the list
\* it has read are in what it got, if they were listed when it began.
WalkQuery == [issuer : Ciks, formTypes : {{}, ANNUAL_FORMS}, dateFrom : {NoValue, 2},
              dateTo : {NoValue}, accession : {NoValue},
              page : Nat \ {0}, pageSize : Nat \ {0}]
Walk == [at : {"walking", "done"}, query : WalkQuery, got : Seq(Filing), listed : Seq(Filing)]

MatchesOf(s, q) == Where(s, LAMBDA filing : Matches(q, filing))
ListOf(s, q)    == Cut(MatchesOf(s, q), MaxRows)
HasRead(w, L) ==
  IF w.at = "walking" THEN (w.query.page - 1) * ClampPageSize(w.query.pageSize) ELSE Len(L)
OnWalk(w, L, day) ==
  /\ \A filing \in ToSet(w.listed) : filing.date <= day
  /\ \A i \in DOMAIN L :
       i <= HasRead(w, L) /\ L[i] \in ToSet(w.listed) => L[i] \in ToSet(w.got)
  /\ L = w.listed => w.got = Cut(L, HasRead(w, L))
  /\ \A filing \in ToSet(w.got) : Matches(w.query, filing)

WalkSound ==
  walk # NoWalk => /\ walk \in Walk
                   /\ OnWalk(walk, ListOf(feed[walk.query.issuer], walk.query), filed)

ReadsInv == FeedSound /\ WalkSound

\* A list of matching filings of the feed.
LEMMA ListIs ==
  ASSUME NEW s \in Seq(Filing), NEW q
  PROVE  LET those == MatchesOf(s, q)
         IN  /\ those \in Seq(Filing) /\ ToSet(those) = {filing \in ToSet(s) : Matches(q, filing)}
             /\ ListOf(s, q) = Cut(those, MaxRows) /\ ListOf(s, q) \in Seq(Filing)
             /\ \A filing \in ToSet(ListOf(s, q)) : filing \in ToSet(s) /\ Matches(q, filing)
<1> DEFINE E == {i \in DOMAIN s : Matches(q, s[i])}
           those == MatchesOf(s, q)
<1>1. PICK len \in Nat : len = Len(s)
  OBVIOUS
<1>2. E \in SUBSET (1 .. len) /\ those = AtPositions(s, E) /\ DOMAIN s = 1 .. len
  BY <1>1 DEF MatchesOf, Where
<1>3. /\ Cardinality(E) \in Nat /\ DOMAIN those = 1 .. Cardinality(E)
      /\ \A k \in 1 .. Cardinality(E) : Nth(E, k) \in E /\ those[k] = s[Nth(E, k)]
      /\ \A n \in E : \E k \in 1 .. Cardinality(E) : Nth(E, k) = n
  <2> HIDE DEF E, those
  <2> QED
    BY <1>2, Positions
<1>4. \A k \in 1 .. Cardinality(E) : those[k] \in Filing
  <2> SUFFICES ASSUME NEW k \in 1 .. Cardinality(E) PROVE those[k] \in Filing
    OBVIOUS
  <2>1. Nth(E, k) \in DOMAIN s
    BY <1>3
  <2> HIDE DEF E, those
  <2> QED
    BY <1>3, <2>1
<1>5. those \in Seq(Filing) /\ DOMAIN those = 1 .. Cardinality(E)
  <2> HIDE DEF E
  <2>1. those = [k \in 1 .. Cardinality(E) |-> those[k]]
    BY <1>2 DEF AtPositions
  <2> HIDE DEF those
  <2> QED
    BY <1>3, <1>4, <2>1
<1>6. ToSet(those) = {filing \in ToSet(s) : Matches(q, filing)}
  <2>1. ASSUME NEW k \in 1 .. Cardinality(E)
        PROVE  those[k] \in ToSet(s) /\ Matches(q, those[k])
    <3>1. Nth(E, k) \in DOMAIN s /\ Matches(q, s[Nth(E, k)])
      BY <1>3
    <3> HIDE DEF E, those
    <3> QED
      BY <1>3, <3>1 DEF ToSet
  <2>2. ASSUME NEW i \in DOMAIN s, Matches(q, s[i]) PROVE s[i] \in ToSet(those)
    <3>1. i \in E
      BY <2>2
    <3> HIDE DEF E, those
    <3> QED
      BY <1>3, <1>5, <3>1 DEF ToSet
  <2>3. ToSet(s) = {s[i] : i \in DOMAIN s} /\ ToSet(those) = {those[k] : k \in 1 .. Cardinality(E)}
    BY <1>5 DEF ToSet
  <2> HIDE DEF E, those
  <2> QED
    BY <2>1, <2>2, <2>3
<1>7. MaxRows \in Nat
  BY ReadsAssumption
<1> HIDE DEF those, E
<1>8. PICK list : list = Cut(those, MaxRows)
  OBVIOUS
<1>9. /\ list \in Seq(Filing) /\ Len(list) = IF MaxRows < Len(those) THEN MaxRows ELSE Len(those)
      /\ \A i \in 1 .. Len(list) : list[i] = those[i]
  BY <1>5, <1>7, <1>8, CutIs
<1>10. \A i \in DOMAIN list : i \in DOMAIN those /\ list[i] = those[i]
  <2>1. PICK n \in Nat : n = Len(those) /\ DOMAIN those = 1 .. n
    BY <1>5
  <2>2. DOMAIN list = 1 .. Len(list) /\ Len(list) \in Nat /\ Len(list) <= n
    BY <1>7, <1>9, <2>1
  <2> QED
    BY <1>9, <2>1, <2>2
<1>11. ToSet(list) \subseteq ToSet(those)
  BY <1>10 DEF ToSet
<1>12. ListOf(s, q) = list
  BY <1>8 DEF ListOf, those
<1> QED
  BY <1>5, <1>6, <1>8, <1>9, <1>11, <1>12 DEF those

\* A filing that arrives is the first of the list, or not in it.
LEMMA Arrives ==
  ASSUME NEW s \in Seq(Filing), NEW new \in Filing, NEW q
  PROVE  LET old == ListOf(s, q)
             L   == ListOf(<<new>> \o s, q)
         IN  \/ L = old
             \/ /\ new \in ToSet(L) /\ L[1] = new /\ Len(L) <= Len(old) + 1
                /\ \A i \in DOMAIN L \ {1} : i - 1 \in DOMAIN old /\ L[i] = old[i - 1]
<1> DEFINE E  == {i \in DOMAIN s : Matches(q, s[i])}
           E1 == {i \in DOMAIN (<<new>> \o s) : Matches(q, (<<new>> \o s)[i])}
           Up == {i + 1 : i \in E}
<1>1. PICK taken \in BOOLEAN : taken = Matches(q, new)
  BY DEF Matches
<1>2. E1 = (IF taken THEN {1} ELSE {}) \cup Up
  <2>1. PICK long : long = <<new>> \o s
    OBVIOUS
  <2>2. /\ long \in Seq(Filing) /\ DOMAIN long = 1 .. Len(s) + 1 /\ DOMAIN s = 1 .. Len(s)
        /\ long[1] = new /\ \A i \in 1 .. Len(s) : long[i + 1] = s[i]
    BY <2>1
  <2>3. E1 = {i \in 1 .. Len(s) + 1 : Matches(q, long[i])}
    BY <2>1, <2>2
  <2>4. E = {i \in 1 .. Len(s) : Matches(q, s[i])}
    OBVIOUS
  <2>5. \A i \in 1 .. Len(s) + 1 : i = 1 \/ (i - 1 \in 1 .. Len(s) /\ (i - 1) + 1 = i)
    OBVIOUS
  <2>6. \A i \in 1 .. Len(s) : i + 1 \in 1 .. Len(s) + 1 /\ i + 1 # 1
    OBVIOUS
  <2>7. 1 \in 1 .. Len(s) + 1
    OBVIOUS
  <2>8. ASSUME NEW i \in E1 PROVE i \in (IF taken THEN {1} ELSE {}) \cup Up
    <3>1. CASE i = 1
      BY <1>1, <2>2, <2>3, <2>8, <3>1
    <3>2. CASE i # 1
      <4>1. PICK j \in 1 .. Len(s) : j + 1 = i
        BY <2>3, <2>5, <2>8, <3>2
      <4>2. Matches(q, s[j])
        BY <2>2, <2>3, <2>8, <4>1
      <4> QED
        BY <2>4, <4>1, <4>2
    <3> QED
      BY <3>1, <3>2
  <2>9. ASSUME NEW i \in E PROVE i + 1 \in E1
    BY <2>2, <2>3, <2>4, <2>6, <2>9
  <2>10. taken => 1 \in E1
    BY <1>1, <2>2, <2>3, <2>7
  <2> HIDE DEF E1
  <2> QED
    BY <2>8, <2>9, <2>10
<1>3. PICK old, all : old = AtPositions(s, E) /\ all = AtPositions(<<new>> \o s, E1)
  OBVIOUS
<1>4. E \in SUBSET DOMAIN s
  OBVIOUS
<1>5. all = IF taken THEN <<new>> \o old ELSE old
  <2> HIDE DEF E, E1
  <2> QED
    BY <1>2, <1>3, <1>4, Prepended
<1>6. ListOf(s, q) = Cut(old, MaxRows) /\ ListOf(<<new>> \o s, q) = Cut(all, MaxRows)
  BY <1>3 DEF ListOf, MatchesOf, Where
<1>7. old \in Seq(Filing) /\ MaxRows \in Nat \ {0}
  <2>1. MatchesOf(s, q) = old
    BY <1>3 DEF MatchesOf, Where
  <2>2. MatchesOf(s, q) \in Seq(Filing)
    BY ListIs
  <2> HIDE DEF E
  <2> QED
    BY <2>1, <2>2, ReadsAssumption
<1> HIDE DEF E, E1
<1>8. CASE ~taken
  BY <1>5, <1>6, <1>8
<1>9. CASE taken
  <2>1. all = <<new>> \o old
    BY <1>5, <1>9
  <2>2. PICK l \in Nat : l = Len(old)
    BY <1>7
  <2>3. /\ all \in Seq(Filing) /\ Len(all) = l + 1 /\ all[1] = new
        /\ \A i \in 1 .. l : all[i + 1] = old[i]
    BY <1>7, <2>1, <2>2
  <2>4. PICK L, before : L = Cut(all, MaxRows) /\ before = Cut(old, MaxRows)
    OBVIOUS
  <2>5. /\ L \in Seq(Filing) /\ Len(L) = IF MaxRows < l + 1 THEN MaxRows ELSE l + 1
        /\ \A i \in 1 .. Len(L) : L[i] = all[i]
    BY <1>7, <2>3, <2>4, CutIs
  <2>6. /\ before \in Seq(Filing) /\ Len(before) = IF MaxRows < l THEN MaxRows ELSE l
        /\ \A i \in 1 .. Len(before) : before[i] = old[i]
    BY <1>7, <2>2, <2>4, CutIs
  <2>7. L[1] = new /\ new \in ToSet(L) /\ Len(L) <= Len(before) + 1
    <3>1. 1 \in DOMAIN L /\ 1 \in 1 .. Len(L) /\ Len(L) <= Len(before) + 1
      BY <1>7, <2>5, <2>6
    <3> QED
      BY <2>3, <2>5, <3>1 DEF ToSet
  <2>8. ASSUME NEW i \in DOMAIN L \ {1} PROVE i - 1 \in DOMAIN before /\ L[i] = before[i - 1]
    <3>1. /\ i - 1 \in 1 .. Len(before) /\ i - 1 \in 1 .. l /\ (i - 1) + 1 = i
          /\ i \in 1 .. Len(L) /\ DOMAIN before = 1 .. Len(before)
      BY <1>7, <2>5, <2>6, <2>8
    <3>2. all[(i - 1) + 1] = old[i - 1]
      BY <2>3, <3>1
    <3> QED
      BY <2>5, <2>6, <3>1, <3>2
  <2> QED
    BY <1>6, <2>4, <2>7, <2>8
<1> QED
  BY <1>8, <1>9

LEMMA WalkFilings ==
  ASSUME NEW w \in Walk, NEW s \in Seq(Filing), NEW day \in Nat, NEW new \in Filing,
         new.date = day + 1, OnWalk(w, ListOf(s, w.query), day)
  PROVE  OnWalk(w, ListOf(<<new>> \o s, w.query), day + 1)
<1>1. PICK old, L : old = ListOf(s, w.query) /\ L = ListOf(<<new>> \o s, w.query)
  OBVIOUS
<1>2. \/ L = old
      \/ /\ new \in ToSet(L) /\ L[1] = new /\ Len(L) <= Len(old) + 1
         /\ \A i \in DOMAIN L \ {1} : i - 1 \in DOMAIN old /\ L[i] = old[i - 1]
  <2>1. \/ ListOf(<<new>> \o s, w.query) = ListOf(s, w.query)
        \/ /\ new \in ToSet(ListOf(<<new>> \o s, w.query))
           /\ ListOf(<<new>> \o s, w.query)[1] = new
           /\ Len(ListOf(<<new>> \o s, w.query)) <= Len(ListOf(s, w.query)) + 1
           /\ \A i \in DOMAIN ListOf(<<new>> \o s, w.query) \ {1} :
                /\ i - 1 \in DOMAIN ListOf(s, w.query)
                /\ ListOf(<<new>> \o s, w.query)[i] = ListOf(s, w.query)[i - 1]
    BY Arrives
  <2> QED
    BY <1>1, <2>1
<1>3. old \in Seq(Filing) /\ L \in Seq(Filing)
  <2>1. <<new>> \o s \in Seq(Filing)
    OBVIOUS
  <2> QED
    BY <1>1, <2>1, ListIs
<1>4. /\ w.listed \in Seq(Filing) /\ \A filing \in ToSet(w.listed) : filing.date <= day
      /\ \A i \in DOMAIN old :
           i <= HasRead(w, old) /\ old[i] \in ToSet(w.listed) => old[i] \in ToSet(w.got)
      /\ old = w.listed => w.got = Cut(old, HasRead(w, old))
      /\ \A filing \in ToSet(w.got) : Matches(w.query, filing)
  BY <1>1 DEF OnWalk, Walk
<1>5. \A filing \in ToSet(w.listed) : filing.date \in Nat /\ filing.date <= day + 1
  <2>1. \A i \in DOMAIN w.listed : w.listed[i].date \in Nat
    <3>1. \A i \in DOMAIN w.listed : w.listed[i] \in Filing
      BY <1>4
    <3> QED
      BY <3>1 DEF Filing
  <2> QED
    BY <1>4, <2>1 DEF ToSet
<1>6. new \notin ToSet(w.listed)
  <2>1. ~(day + 1 <= day)
    OBVIOUS
  <2> QED
    BY <1>4, <2>1
<1>7. CASE L = old
  BY <1>1, <1>4, <1>5, <1>7 DEF OnWalk
<1>8. CASE L # old
  <2>1. /\ new \in ToSet(L) /\ L[1] = new /\ Len(L) <= Len(old) + 1
        /\ \A i \in DOMAIN L \ {1} : i - 1 \in DOMAIN old /\ L[i] = old[i - 1]
    BY <1>2, <1>8
  <2>2. L # w.listed
    BY <1>6, <2>1
  <2>3. ASSUME NEW i \in DOMAIN L, i <= HasRead(w, L), L[i] \in ToSet(w.listed)
        PROVE  L[i] \in ToSet(w.got)
    <3>1. i \in DOMAIN L \ {1}
      BY <1>6, <2>1, <2>3
    <3>2. i - 1 \in DOMAIN old /\ L[i] = old[i - 1] /\ i \in Nat
      BY <1>3, <2>1, <3>1
    <3>3. i - 1 <= HasRead(w, old)
      <4>1. CASE w.at = "walking"
        <5>1. HasRead(w, L) = HasRead(w, old)
          BY <4>1 DEF HasRead
        <5>2. PICK p \in Nat \ {0}, n \in Nat \ {0} :
                p = w.query.page /\ n = ClampPageSize(w.query.pageSize)
          <6>1. w.query.page \in Nat \ {0} /\ w.query.pageSize \in Nat \ {0}
            BY DEF Walk, WalkQuery
          <6> QED
            BY <6>1, ReadsAssumption DEF ClampPageSize
        <5>3. PICK read \in Nat : read = HasRead(w, old)
          <6>1. (p - 1) * n \in Nat
            OBVIOUS
          <6> QED
            BY <4>1, <5>2, <6>1 DEF HasRead
        <5> QED
          BY <2>3, <3>2, <5>1, <5>3
      <4>2. CASE w.at # "walking"
        <5>1. HasRead(w, old) = Len(old)
          BY <4>2 DEF HasRead
        <5> QED
          BY <1>3, <3>2, <5>1
      <4> QED
        BY <4>1, <4>2
    <3> QED
      BY <1>4, <2>3, <3>2, <3>3
  <2>4. L = w.listed => w.got = Cut(L, HasRead(w, L))
    BY <2>2
  <2> QED
    BY <1>1, <1>4, <1>5, <2>3, <2>4 DEF OnWalk
<1> QED
  BY <1>7, <1>8

LEMMA NextQuery ==
  ASSUME NEW q \in WalkQuery, NEW next, next = [q EXCEPT !.page = @ + 1]
  PROVE  /\ next \in WalkQuery /\ next.page = q.page + 1
         /\ next.issuer = q.issuer /\ next.pageSize = q.pageSize
         /\ \A filing : Matches(next, filing) <=> Matches(q, filing)
<1>1. q.page + 1 \in Nat \ {0}
  BY DEF WalkQuery
<1>2. next = [q EXCEPT !.page = q.page + 1]
  OBVIOUS
<1>3. next \in WalkQuery /\ next.page = q.page + 1
  BY <1>1, <1>2 DEF WalkQuery
<1>4. /\ next.issuer = q.issuer /\ next.pageSize = q.pageSize
      /\ next.formTypes = q.formTypes /\ next.dateFrom = q.dateFrom
      /\ next.dateTo = q.dateTo /\ next.accession = q.accession
  BY <1>2 DEF WalkQuery
<1> QED
  BY <1>2, <1>3, <1>4 DEF Matches

LEMMA WalkPages ==
  ASSUME NEW w \in Walk, NEW s \in Seq(Filing), NEW day \in Nat, w.at = "walking",
         OnWalk(w, ListOf(s, w.query), day),
         NEW page, page = Page(ListOf(s, w.query), w.query.page, ClampPageSize(w.query.pageSize)),
         NEW v, v.query = [w.query EXCEPT !.page = @ + 1],
         v.got = w.got \o page, v.listed = w.listed,
         v.at = IF Len(page) = ClampPageSize(w.query.pageSize) THEN "walking" ELSE "done"
  PROVE  /\ v.got \in Seq(Filing) /\ OnWalk(v, ListOf(s, v.query), day)
<1>1. PICK L : L = ListOf(s, w.query)
  OBVIOUS
<1>2. /\ L \in Seq(Filing)
      /\ \A filing \in ToSet(L) : filing \in ToSet(s) /\ Matches(w.query, filing)
  BY <1>1, ListIs
<1>3. w.query \in WalkQuery /\ w.got \in Seq(Filing)
  BY DEF Walk
<1>4. PICK p \in Nat \ {0}, n \in Nat \ {0} :
        p = w.query.page /\ n = ClampPageSize(w.query.pageSize)
  <2>1. w.query.page \in Nat \ {0} /\ w.query.pageSize \in Nat \ {0}
    BY <1>3 DEF WalkQuery
  <2> QED
    BY <2>1, ReadsAssumption DEF ClampPageSize
<1>5. PICK read \in Nat :
        /\ read = (p - 1) * n /\ read + n = (p + 1 - 1) * n
        /\ Page(L, p, n) = After(L, read, n)
  BY Pages
<1>6. /\ read \in Nat /\ page \in Seq(Filing) /\ (p + 1 - 1) * n = read + n
      /\ Cut(L, read) \o page = Cut(L, read + n)
      /\ Len(page) # n => Len(L) < read + n
      /\ \A i \in DOMAIN L : read < i /\ i <= read + n => L[i] \in ToSet(page)
      /\ ToSet(page) \subseteq ToSet(L)
  <2>1. page = After(L, read, n)
    BY <1>1, <1>4, <1>5
  <2>2. /\ page \in Seq(Filing) /\ Cut(L, read) \o page = Cut(L, read + n)
        /\ Len(page) # n => Len(L) < read + n
        /\ \A i \in DOMAIN L : read < i /\ i <= read + n => L[i] \in ToSet(page)
        /\ ToSet(page) \subseteq ToSet(L)
    <3>1. L \in Seq(Filing) /\ read \in Nat /\ n \in Nat \ {0}
      BY <1>2
    <3> QED
      BY <2>1, <3>1, PageFollows, Zenon
  <2> QED
    BY <1>5, <2>2
<1>7. PICK q : q = v.query
  OBVIOUS
<1>8. /\ q.page = p + 1 /\ q.pageSize = w.query.pageSize
      /\ \A filing : Matches(q, filing) <=> Matches(w.query, filing)
  <2>1. PICK before : before = w.query
    OBVIOUS
  <2>2. before \in WalkQuery /\ q = [before EXCEPT !.page = @ + 1]
    BY <1>3, <1>7, <2>1
  <2> HIDE DEF WalkQuery
  <2>3. /\ q.page = before.page + 1 /\ q.pageSize = before.pageSize
        /\ \A filing : Matches(q, filing) <=> Matches(before, filing)
    BY <2>2, NextQuery
  <2> QED
    BY <1>4, <2>1, <2>3
<1>9. PICK got : got = w.got \o page
  OBVIOUS
<1>10. /\ v.at = (IF Len(page) = n THEN "walking" ELSE "done") /\ v.query = q
       /\ v.got = got /\ v.listed = w.listed
  BY <1>4, <1>7, <1>9
<1>11. /\ got \in Seq(Filing) /\ ToSet(got) = ToSet(w.got) \cup ToSet(page)
  <2>1. got \in Seq(Filing)
    BY <1>3, <1>6, <1>9
  <2>2. Range(got) = Range(w.got) \cup Range(page)
    BY <1>3, <1>6, <1>9, RangeConcatenation
  <2>3. \A t : Range(t) = ToSet(t)
    BY DEF Range, ToSet
  <2> QED
    BY <2>1, <2>2, <2>3
<1>12. ListOf(s, q) = L
  <2>1. {i \in DOMAIN s : Matches(q, s[i])} = {i \in DOMAIN s : Matches(w.query, s[i])}
    BY <1>8
  <2> QED
    BY <1>1, <2>1 DEF ListOf, MatchesOf, Where
<1>13. PICK have : have = HasRead(v, L)
  OBVIOUS
<1>14. /\ \A i \in DOMAIN L : i <= have => i <= read + n
       /\ Cut(L, have) = Cut(L, read + n)
  <2>1. CASE Len(page) = n
    <3>1. have = read + n
      <4>1. ClampPageSize(q.pageSize) = n
        BY <1>4, <1>8
      <4> QED
        BY <1>6, <1>8, <1>10, <1>13, <2>1, <4>1 DEF HasRead
    <3> QED
      BY <3>1
  <2>2. CASE Len(page) # n
    <3>1. have = Len(L) /\ Len(L) \in Nat /\ Len(L) < read + n
      BY <1>2, <1>6, <1>10, <1>13, <2>2 DEF HasRead
    <3>2. Cut(L, have) = SubSeq(L, 1, Len(L)) /\ Cut(L, read + n) = SubSeq(L, 1, Len(L))
      BY <1>6, <3>1 DEF Cut
    <3> QED
      BY <1>2, <1>6, <3>1, <3>2
  <2> QED
    BY <2>1, <2>2
<1>15. /\ \A filing \in ToSet(w.listed) : filing.date <= day
       /\ \A i \in DOMAIN L : i <= read /\ L[i] \in ToSet(w.listed) => L[i] \in ToSet(w.got)
       /\ L = w.listed => w.got = Cut(L, read)
       /\ \A filing \in ToSet(w.got) : Matches(w.query, filing)
  <2>1. HasRead(w, L) = read
    BY <1>4, <1>5 DEF HasRead
  <2> QED
    BY <1>1, <2>1 DEF OnWalk
<1>16. ASSUME NEW i \in DOMAIN L, i <= have, L[i] \in ToSet(w.listed) PROVE L[i] \in ToSet(got)
  <2>1. i \in Nat /\ i <= read + n
    BY <1>2, <1>14, <1>16
  <2>2. CASE i <= read
    BY <1>11, <1>15, <1>16, <2>2
  <2>3. CASE ~(i <= read)
    BY <1>6, <1>11, <1>16, <2>1, <2>3
  <2> QED
    BY <2>2, <2>3
<1>17. L = w.listed => got = Cut(L, have)
  BY <1>6, <1>9, <1>14, <1>15
<1>18. \A filing \in ToSet(got) : Matches(q, filing)
  BY <1>2, <1>6, <1>8, <1>11, <1>15
<1>19. OnWalk(v, ListOf(s, v.query), day)
  BY <1>10, <1>12, <1>13, <1>15, <1>16, <1>17, <1>18 DEF OnWalk
<1> QED
  BY <1>10, <1>11, <1>19

LEMMA FeedGrows ==
  ASSUME FeedSound, NEW c \in Ciks, NEW by \in Ciks \cup Agents, NEW form \in Forms, File(c, by, form)
  PROVE  /\ FeedSound' /\ filed \in Nat /\ filed' = filed + 1 /\ walk' = walk
         /\ \A cik \in Ciks : feed[cik] \in Seq(Filing)
         /\ \E new \in Filing :
              /\ new.date = filed + 1 /\ feed'[c] = <<new>> \o feed[c]
              /\ \A cik \in Ciks : cik # c => feed'[cik] = feed[cik]
<1>1. PICK new : new = [accession |-> <<by, filed + 1>>, form |-> form, date |-> filed + 1]
  OBVIOUS
<1>2. /\ filed' = filed + 1 /\ walk' = walk /\ feed' = [feed EXCEPT ![c] = <<new>> \o feed[c]]
  BY <1>1 DEF File
<1>3. feed \in [Ciks -> Seq(Filing)] /\ filed \in Nat
  BY DEF FeedSound
<1>4. new \in Filing /\ new.date = filed + 1 /\ new.accession[2] = new.date
  BY <1>1, <1>3 DEF Filing
<1>5. /\ feed'[c] = <<new>> \o feed[c]
      /\ \A cik \in Ciks : cik # c => feed'[cik] = feed[cik]
      /\ feed' \in [Ciks -> Seq(Filing)]
  <2>1. <<new>> \o feed[c] \in Seq(Filing)
    BY <1>3, <1>4
  <2> QED
    BY <1>2, <1>3, <2>1
<1>6. ASSUME NEW cik \in Ciks
      PROVE  /\ \A filing \in ToSet(feed'[cik]) :
                  filing.date <= filed + 1 /\ filing.accession[2] = filing.date
             /\ \A i, j \in DOMAIN feed'[cik] : feed'[cik][i].date = feed'[cik][j].date => i = j
  <2>1. PICK s \in Seq(Filing), l \in Seq(Filing) : s = feed[cik] /\ l = feed'[cik]
    BY <1>3, <1>5
  <2>2. /\ \A filing \in ToSet(s) : filing.date <= filed /\ filing.accession[2] = filing.date
        /\ \A i, j \in DOMAIN s : s[i].date = s[j].date => i = j
    BY <2>1 DEF FeedSound
  <2>3. \A i \in DOMAIN s : /\ s[i].date \in Nat /\ s[i].date <= filed
                            /\ s[i].accession[2] = s[i].date
    <3>1. \A i \in DOMAIN s : s[i] \in Filing /\ s[i] \in ToSet(s)
      BY DEF ToSet
    <3> QED
      BY <2>2, <3>1 DEF Filing
  <2>4. CASE cik # c
    <3>1. l = s
      BY <1>5, <2>1, <2>4
    <3>2. \A filing \in ToSet(s) : filing.date <= filed + 1 /\ filing.accession[2] = filing.date
      BY <1>3, <2>3 DEF ToSet
    <3> QED
      BY <2>1, <2>2, <3>1, <3>2
  <2>5. CASE cik = c
    <3>1. l = <<new>> \o s
      BY <1>5, <2>1, <2>5
    <3>2. /\ DOMAIN l = 1 .. Len(s) + 1 /\ DOMAIN s = 1 .. Len(s) /\ Len(s) \in Nat
          /\ l[1] = new /\ \A i \in 1 .. Len(s) : l[i + 1] = s[i]
      BY <1>4, <3>1
    <3>3. \A i \in 1 .. Len(s) + 1 : i # 1 => i - 1 \in 1 .. Len(s) /\ l[i] = s[i - 1]
      <4>1. \A i \in 1 .. Len(s) + 1 : i # 1 => i - 1 \in 1 .. Len(s) /\ (i - 1) + 1 = i
        BY <3>2
      <4> QED
        BY <3>2, <4>1
    <3>4. \A i \in DOMAIN l : /\ l[i].date <= filed + 1 /\ l[i].accession[2] = l[i].date
                              /\ i # 1 => l[i].date < filed + 1
      <4> SUFFICES ASSUME NEW i \in DOMAIN l
                   PROVE  /\ l[i].date <= filed + 1 /\ l[i].accession[2] = l[i].date
                          /\ i # 1 => l[i].date < filed + 1
        OBVIOUS
      <4>1. CASE i = 1
        BY <1>3, <1>4, <3>2, <4>1
      <4>2. CASE i # 1
        <5>1. i - 1 \in DOMAIN s /\ l[i] = s[i - 1]
          BY <3>2, <3>3, <4>2
        <5> QED
          BY <1>3, <2>3, <5>1
      <4> QED
        BY <4>1, <4>2
    <3>5. ASSUME NEW i \in DOMAIN l, NEW j \in DOMAIN l, l[i].date = l[j].date PROVE i = j
      <4>1. CASE i = 1 \/ j = 1
        <5>1. l[1].date = filed + 1 /\ ~(filed + 1 < filed + 1)
          BY <1>3, <1>4, <3>2
        <5> QED
          BY <3>4, <3>5, <4>1, <5>1
      <4>2. CASE i # 1 /\ j # 1
        <5>1. i - 1 \in DOMAIN s /\ j - 1 \in DOMAIN s /\ l[i] = s[i - 1] /\ l[j] = s[j - 1]
          BY <3>2, <3>3, <4>2
        <5>2. i - 1 = j - 1
          BY <2>2, <3>5, <5>1
        <5> QED
          BY <3>2, <5>2
      <4> QED
        BY <4>1, <4>2
    <3>6. \A filing \in ToSet(l) : filing.date <= filed + 1 /\ filing.accession[2] = filing.date
      BY <3>4 DEF ToSet
    <3> QED
      BY <2>1, <3>5, <3>6
  <2> QED
    BY <2>4, <2>5
<1>7. FeedSound'
  <2>1. filed' \in Nat
    BY <1>2, <1>3
  <2> QED
    BY <1>2, <1>5, <1>6, <2>1 DEF FeedSound
<1> QED
  BY <1>2, <1>3, <1>4, <1>5, <1>7

LEMMA ReadsInvHolds == ReadsSpec => []ReadsInv
<1>1. ReadsInit => ReadsInv
  <2> SUFFICES ASSUME ReadsInit PROVE ReadsInv
    OBVIOUS
  <2>1. \A cik \in Ciks : feed[cik] = << >> /\ ToSet(feed[cik]) = {}
    BY DEF ReadsInit, ToSet
  <2>2. feed \in [Ciks -> Seq(Filing)] /\ filed \in Nat /\ walk = NoWalk
    BY DEF ReadsInit
  <2> QED
    BY <2>1, <2>2 DEF ReadsInv, FeedSound, WalkSound
<1>2. ASSUME ReadsInv, UNCHANGED readsVars PROVE ReadsInv'
  BY <1>2 DEF ReadsInv, FeedSound, WalkSound, readsVars
<1>3. ASSUME ReadsInv, ReadsNext PROVE ReadsInv'
  <2>0. /\ FeedSound /\ feed \in [Ciks -> Seq(Filing)] /\ filed \in Nat
        /\ walk # NoWalk => /\ walk \in Walk
                            /\ OnWalk(walk, ListOf(feed[walk.query.issuer], walk.query), filed)
    BY <1>3 DEF ReadsInv, FeedSound, WalkSound
  <2>1. ASSUME NEW c \in Ciks, NEW form \in Forms, NEW by \in Ciks \cup Agents, File(c, by, form)
        PROVE  ReadsInv'
    <3>1. /\ FeedSound' /\ filed' = filed + 1 /\ walk' = walk
          /\ \E new \in Filing :
               /\ new.date = filed + 1 /\ feed'[c] = <<new>> \o feed[c]
               /\ \A cik \in Ciks : cik # c => feed'[cik] = feed[cik]
      BY <2>0, <2>1, FeedGrows
    <3>2. PICK new \in Filing : /\ new.date = filed + 1 /\ feed'[c] = <<new>> \o feed[c]
                                /\ \A cik \in Ciks : cik # c => feed'[cik] = feed[cik]
      BY <3>1
    <3>3. ASSUME walk # NoWalk
          PROVE  OnWalk(walk, ListOf(feed'[walk.query.issuer], walk.query), filed + 1)
      <4>1. PICK w \in Walk : w = walk
        BY <2>0, <3>3
      <4>2. PICK cik \in Ciks : cik = w.query.issuer
        BY DEF Walk, WalkQuery
      <4>3. PICK s \in Seq(Filing) : s = feed[cik]
        BY <2>0
      <4>4. OnWalk(w, ListOf(s, w.query), filed)
        BY <2>0, <3>3, <4>1, <4>2, <4>3
      <4>5. OnWalk(w, ListOf(<<new>> \o s, w.query), filed + 1)
        BY <2>0, <3>2, <4>4, WalkFilings
      <4>6. CASE cik = c
        BY <3>2, <4>1, <4>2, <4>3, <4>5, <4>6
      <4>7. CASE cik # c
        <5>1. \A filing \in ToSet(w.listed) : filing.date <= filed + 1
          BY <4>5 DEF OnWalk
        <5>2. OnWalk(w, ListOf(s, w.query), filed + 1)
          BY <4>4, <5>1 DEF OnWalk
        <5> QED
          BY <3>2, <4>1, <4>2, <4>3, <4>7, <5>2
      <4> QED
        BY <4>6, <4>7
    <3> QED
      BY <2>0, <3>1, <3>3 DEF ReadsInv, WalkSound
  <2>2. ASSUME NEW c \in Ciks, NEW size \in 1 .. MaxPageSize + 1, NEW forms \in {{}, ANNUAL_FORMS},
               NEW from \in {NoValue, 2}, BeginWalk(c, forms, from, size)
        PROVE  ReadsInv'
    <3>1. PICK q : q = [issuer |-> c, formTypes |-> forms, dateFrom |-> from, dateTo |-> NoValue,
                        accession |-> NoValue, page |-> 1, pageSize |-> size]
      OBVIOUS
    <3>2. [First(c, size) EXCEPT !.formTypes = forms, !.dateFrom = from] = q
      <4>1. PICK f : f = [issuer |-> c, formTypes |-> {}, dateFrom |-> NoValue, dateTo |-> NoValue,
                          accession |-> NoValue, page |-> 1, pageSize |-> size]
        OBVIOUS
      <4>2. First(c, size) = f
        BY <4>1 DEF First
      <4>3. PICK g : g = [issuer |-> c, formTypes |-> forms, dateFrom |-> NoValue,
                          dateTo |-> NoValue, accession |-> NoValue, page |-> 1, pageSize |-> size]
        OBVIOUS
      <4>4. [f EXCEPT !.formTypes = forms] = g
        BY <4>1, <4>3
      <4>5. [g EXCEPT !.dateFrom = from] = q
        BY <3>1, <4>3
      <4>6. [[f EXCEPT !.formTypes = forms] EXCEPT !.dateFrom = from] = q
        BY <4>4, <4>5
      <4> QED
        BY <4>2, <4>6
    <3>3. q \in WalkQuery /\ q.issuer = c /\ q.page = 1 /\ q.pageSize \in Nat \ {0}
      BY <3>1, ReadsAssumption DEF WalkQuery
    <3>4. PICK L : L = QueryFilings(q)
      OBVIOUS
    <3>5. L = ListOf(feed[c], q)
      BY <3>3, <3>4 DEF QueryFilings, AllMatching, ListOf, MatchesOf
    <3>6. /\ walk' = [at |-> "walking", query |-> q, got |-> << >>, listed |-> L]
          /\ feed' = feed /\ filed' = filed
      BY <2>2, <3>2, <3>4 DEF BeginWalk
    <3>7. L \in Seq(Filing) /\ \A filing \in ToSet(L) : filing \in ToSet(feed[c])
      BY <2>0, <3>5, ListIs
    <3>8. PICK w : w = [at |-> "walking", query |-> q, got |-> << >>, listed |-> L]
      OBVIOUS
    <3>9. w \in Walk
      BY <3>3, <3>7, <3>8 DEF Walk
    <3>10. w.at = "walking" /\ w.query = q /\ w.got = << >> /\ w.listed = L
      BY <3>8
    <3>11. HasRead(w, L) = 0
      <4>1. ClampPageSize(q.pageSize) \in Nat
        BY <3>3, ReadsAssumption DEF ClampPageSize
      <4>2. (1 - 1) * ClampPageSize(q.pageSize) = 0
        BY <4>1
      <4> QED
        BY <3>3, <3>10, <4>2 DEF HasRead
    <3>12. Cut(L, 0) = << >>
      BY <3>7 DEF Cut
    <3>13. /\ \A filing \in ToSet(L) : filing.date <= filed
           /\ \A i \in DOMAIN L : ~(i <= 0)
      BY <2>0, <3>7 DEF FeedSound
    <3>14. OnWalk(w, L, filed)
      <4>1. ToSet(w.got) = {}
        BY <3>10 DEF ToSet
      <4> QED
        BY <3>10, <3>11, <3>12, <3>13, <4>1 DEF OnWalk
    <3>15. walk' \in Walk /\ OnWalk(walk', ListOf(feed'[walk'.query.issuer], walk'.query), filed')
      BY <3>3, <3>5, <3>6, <3>8, <3>9, <3>10, <3>14
    <3>16. FeedSound'
      BY <2>0, <3>6 DEF FeedSound
    <3> QED
      BY <3>15, <3>16 DEF ReadsInv, WalkSound
  <2>3. ASSUME NEW up \in BOOLEAN, NextPage(up) PROVE ReadsInv'
    <3>1. PICK answer : answer = GetFilings(walk.query, up)
      OBVIOUS
    <3>2. /\ walk.at = "walking" /\ feed' = feed /\ filed' = filed
          /\ walk' = IF answer.status # 200 THEN walk
                     ELSE [walk EXCEPT !.got = @ \o answer.filings, !.query.page = @ + 1,
                             !.at = IF Len(answer.filings) = ClampPageSize(walk.query.pageSize)
                                    THEN "walking" ELSE "done"]
      BY <2>3, <3>1 DEF NextPage
    <3>3. walk # NoWalk
      BY <3>2 DEF NoWalk
    <3>4. CASE answer.status # 200
      <4>1. walk' = walk
        BY <3>2, <3>4
      <4> QED
        BY <1>2, <1>3, <3>2, <4>1 DEF readsVars
    <3>5. CASE answer.status = 200
      <4>1. PICK w \in Walk : w = walk
        BY <2>0, <3>3
      <4>2. PICK cik \in Ciks : cik = w.query.issuer
        BY DEF Walk, WalkQuery
      <4>3. PICK s \in Seq(Filing) : s = feed[cik]
        BY <2>0
      <4>4. OnWalk(w, ListOf(s, w.query), filed) /\ w.at = "walking"
        BY <2>0, <3>2, <3>3, <4>1, <4>2, <4>3
      <4>5. PICK page : page = answer.filings
        OBVIOUS
      <4>6. page = Page(ListOf(s, w.query), w.query.page, ClampPageSize(w.query.pageSize))
        <5>1. QueryFilings(w.query) = ListOf(s, w.query)
          BY <4>2, <4>3 DEF QueryFilings, AllMatching, ListOf, MatchesOf
        <5>2. answer = [status |-> 200, filings |->
                          Page(QueryFilings(w.query), w.query.page, ClampPageSize(w.query.pageSize))]
          BY <3>1, <3>5, <4>1 DEF GetFilings
        <5> QED
          BY <4>5, <5>1, <5>2
      <4>7. PICK v : v = [w EXCEPT !.got = w.got \o page, !.query.page = @ + 1,
                            !.at = IF Len(page) = ClampPageSize(w.query.pageSize)
                                   THEN "walking" ELSE "done"]
        OBVIOUS
      <4>8. walk' = v
        BY <3>2, <3>5, <4>1, <4>5, <4>7
      <4>9. /\ v.query = [w.query EXCEPT !.page = @ + 1] /\ v.got = w.got \o page
            /\ v.listed = w.listed
            /\ v.at = IF Len(page) = ClampPageSize(w.query.pageSize) THEN "walking" ELSE "done"
            /\ v = [at |-> v.at, query |-> v.query, got |-> v.got, listed |-> v.listed]
        BY <4>7 DEF Walk
      <4>10. v.got \in Seq(Filing) /\ OnWalk(v, ListOf(s, v.query), filed)
        BY <2>0, <4>4, <4>6, <4>9, WalkPages
      <4>11. v.query \in WalkQuery /\ v.query.issuer = cik
        <5>1. w.query \in WalkQuery
          BY DEF Walk
        <5> QED
          BY <4>2, <4>9, <5>1, NextQuery
      <4>12. v \in Walk
        BY <4>9, <4>10, <4>11 DEF Walk
      <4>13. walk' \in Walk /\ OnWalk(walk', ListOf(feed'[walk'.query.issuer], walk'.query), filed')
        BY <3>2, <4>3, <4>8, <4>10, <4>11, <4>12
      <4>14. FeedSound'
        BY <2>0, <3>2 DEF FeedSound
      <4> QED
        BY <4>13, <4>14 DEF ReadsInv, WalkSound
    <3> QED
      BY <3>4, <3>5
  <2>4. CASE EndWalk
    <3>1. walk' = NoWalk /\ feed' = feed /\ filed' = filed
      BY <2>4 DEF EndWalk
    <3> QED
      BY <2>0, <3>1 DEF ReadsInv, FeedSound, WalkSound
  <2> QED
    BY <1>3, <2>1, <2>2, <2>3, <2>4 DEF ReadsNext
<1> QED
  BY <1>1, <1>2, <1>3, PTL DEF ReadsSpec

\* A client that walks the pages of GET /api/v1/filings while filings arrive has,
\* at the last page, every filing that was listed when it began and still is.
THEOREM WalkIsComplete == ReadsSpec => []WalkMissesNothing
<1>1. ASSUME ReadsInv, walk.at = "done"
      PROVE  /\ ToSet(walk.listed) \cap ToSet(QueryFilings(walk.query)) \subseteq ToSet(walk.got)
             /\ walk.listed = QueryFilings(walk.query) => walk.got = walk.listed
             /\ \A filing \in ToSet(walk.got) : Matches(walk.query, filing)
  <2>1. walk # NoWalk
    BY <1>1 DEF NoWalk
  <2>2. PICK w \in Walk : w = walk
    BY <1>1, <2>1 DEF ReadsInv, WalkSound
  <2>3. PICK cik \in Ciks : cik = w.query.issuer
    BY DEF Walk, WalkQuery
  <2>4. PICK L : L = ListOf(feed[cik], w.query)
    OBVIOUS
  <2>5. OnWalk(w, L, filed) /\ L \in Seq(Filing)
    <3>1. feed[cik] \in Seq(Filing)
      BY <1>1 DEF ReadsInv, FeedSound
    <3> QED
      BY <1>1, <2>1, <2>2, <2>3, <2>4, <3>1, ListIs DEF ReadsInv, WalkSound
  <2>6. QueryFilings(w.query) = L
    BY <2>3, <2>4 DEF QueryFilings, AllMatching, ListOf, MatchesOf
  <2>7. HasRead(w, L) = Len(L)
    BY <1>1, <2>2 DEF HasRead
  <2>8. Cut(L, Len(L)) = L
    BY <2>5 DEF Cut
  <2>9. \A i \in DOMAIN L : i <= Len(L)
    BY <2>5
  <2>10. /\ \A i \in DOMAIN L : L[i] \in ToSet(w.listed) => L[i] \in ToSet(w.got)
         /\ L = w.listed => w.got = L
         /\ \A filing \in ToSet(w.got) : Matches(w.query, filing)
    BY <2>5, <2>7, <2>8, <2>9 DEF OnWalk
  <2>11. ToSet(w.listed) \cap ToSet(L) \subseteq ToSet(w.got)
    <3>1. \A filing \in ToSet(L) : \E i \in DOMAIN L : filing = L[i]
      BY DEF ToSet
    <3> QED
      BY <2>10, <3>1
  <2> QED
    BY <2>2, <2>6, <2>10, <2>11
<1>2. ReadsInv => WalkMissesNothing
  BY <1>1 DEF WalkMissesNothing
<1> QED
  BY <1>2, ReadsInvHolds, PTL

\* The filings of a kind, of a feed and of its latest.
OfKind(s, forms) == AtPositions(s, {i \in DOMAIN s : s[i].form \in forms})

LEMMA KindsOf ==
  ASSUME NEW s \in Seq(Filing), NEW n \in Nat, NEW latest, latest = Cut(s, n), NEW forms
  PROVE  /\ Len(OfKind(latest, forms)) <= Len(OfKind(s, forms))
         /\ OfKind(latest, forms) # << >> =>
              /\ OfKind(latest, forms)[1] \in Filing
              /\ OfKind(latest, forms)[1] = OfKind(s, forms)[1]
         /\ OfKind(latest, forms) = << >> /\ OfKind(s, forms) # << >> =>
              OfKind(s, forms)[1] \notin ToSet(latest)
<1>1. PICK len \in Nat, cut \in Nat : len = Len(s) /\ cut = Len(latest)
  BY CutIs
<1>2. /\ latest \in Seq(Filing) /\ cut <= len /\ DOMAIN s = 1 .. len /\ DOMAIN latest = 1 .. cut
      /\ \A i \in 1 .. cut : latest[i] = s[i]
  <2>1. /\ latest \in Seq(Filing) /\ Len(latest) = (IF n < Len(s) THEN n ELSE Len(s))
        /\ \A i \in 1 .. Len(latest) : latest[i] = s[i]
    BY CutIs
  <2> QED
    BY <1>1, <2>1
<1>3. PICK E, F : E = {i \in DOMAIN s : s[i].form \in forms}
                  /\ F = {i \in DOMAIN latest : latest[i].form \in forms}
  OBVIOUS
<1>4. /\ OfKind(s, forms) = AtPositions(s, E) /\ OfKind(latest, forms) = AtPositions(latest, F)
      /\ E \in SUBSET (1 .. len) /\ F \in SUBSET (1 .. cut)
  BY <1>2, <1>3 DEF OfKind
<1>5. \A i \in 1 .. cut : i \in 1 .. len
  BY <1>2
<1>6. F \subseteq E /\ \A i \in E : i <= cut => i \in F
  <2>1. \A i \in 1 .. len : i <= cut => i \in 1 .. cut
    OBVIOUS
  <2> QED
    BY <1>2, <1>3, <1>5, <2>1
<1>7. Len(OfKind(latest, forms)) <= Len(OfKind(s, forms))
  <2>1. IsFiniteSet(E) /\ Cardinality(E) \in Nat /\ Cardinality(F) \in Nat
    <3>1. IsFiniteSet(E) /\ Cardinality(E) \in 0 .. len
      BY <1>4, RankGrows
    <3>2. IsFiniteSet(F) /\ Cardinality(F) \in 0 .. cut
      BY <1>4, RankGrows
    <3> QED
      BY <3>1, <3>2
  <2>2. Cardinality(F) <= Cardinality(E)
    BY <1>6, <2>1, FS_Subset
  <2>3. Len(AtPositions(s, E)) = Cardinality(E) /\ Len(AtPositions(latest, F)) = Cardinality(F)
    BY <2>1 DEF AtPositions
  <2> QED
    BY <1>4, <2>2, <2>3
<1>8. /\ F = {} => AtPositions(latest, F) = << >>
      /\ F # {} => /\ AtPositions(latest, F) # << >>
                   /\ \E i \in F : (\A m \in F : i <= m) /\ AtPositions(latest, F)[1] = latest[i]
  BY <1>4, FirstOfSelected
<1>9. /\ E = {} => AtPositions(s, E) = << >>
      /\ E # {} => /\ AtPositions(s, E) # << >>
                   /\ \E i \in E : (\A m \in E : i <= m) /\ AtPositions(s, E)[1] = s[i]
  BY <1>4, FirstOfSelected
<1>10. ASSUME F # {}
       PROVE  /\ AtPositions(latest, F)[1] \in Filing
              /\ AtPositions(latest, F)[1] = AtPositions(s, E)[1]
  <2>1. PICK i \in F : (\A m \in F : i <= m) /\ AtPositions(latest, F)[1] = latest[i]
    BY <1>8, <1>10
  <2>2. PICK j \in E : (\A m \in E : j <= m) /\ AtPositions(s, E)[1] = s[j]
    BY <1>6, <1>9, <1>10
  <2>3. i \in Nat /\ j \in Nat /\ j <= i /\ i <= cut
    BY <1>4, <1>6, <2>1, <2>2
  <2>4. j \in F
    BY <1>1, <1>6, <2>2, <2>3
  <2>5. i <= j
    BY <2>1, <2>4
  <2>6. i = j
    BY <2>3, <2>5
  <2>7. latest[i] = s[i] /\ s[i] \in Filing
    BY <1>2, <1>4, <1>5, <2>1
  <2> QED
    BY <2>1, <2>2, <2>6, <2>7
<1>11. ASSUME F = {}, E # {} PROVE AtPositions(s, E)[1] \notin ToSet(latest)
  <2>1. PICK j \in E : AtPositions(s, E)[1] = s[j]
    BY <1>9, <1>11
  <2>2. s[j].form \in forms
    BY <1>3
  <2>3. \A i \in DOMAIN latest : latest[i] # s[j]
    BY <1>3, <1>11, <2>2
  <2> QED
    BY <2>1, <2>3 DEF ToSet
<1> QED
  BY <1>4, <1>7, <1>8, <1>9, <1>10, <1>11

\* What the queries of the views ask of a feed.
LEMMA QueriesAnswered ==
  ASSUME NEW cik \in Ciks, NEW s \in Seq(Filing), s = feed[cik],
         NEW all, all = First(cik, MaxPageSize)
  PROVE  /\ QueryValid(all) /\ FiltersValid(all) /\ all.issuer = cik
         /\ all.page = 1 /\ all.pageSize = MaxPageSize
         /\ AllMatching(all) = s
         /\ \A forms : forms # {} => AllMatching([all EXCEPT !.formTypes = forms]) = OfKind(s, forms)
<1>1. all = [issuer |-> cik, formTypes |-> {}, dateFrom |-> NoValue, dateTo |-> NoValue,
             accession |-> NoValue, page |-> 1, pageSize |-> MaxPageSize]
  BY DEF First
<1>2. /\ all.issuer = cik /\ all.formTypes = {} /\ all.dateFrom = NoValue /\ all.dateTo = NoValue
      /\ all.accession = NoValue /\ all.page = 1 /\ all.pageSize = MaxPageSize
  BY <1>1
<1>3. FiltersValid(all) /\ QueryValid(all)
  <2>1. NoValue # 0 /\ MaxPageSize \in Nat \ {0}
    BY ReadsAssumption
  <2>2. FiltersValid(all)
    BY <1>2, <2>1 DEF FiltersValid
  <2> QED
    BY <1>2, <2>1, <2>2 DEF QueryValid
<1>4. AllMatching(all) = s
  <2>1. \A filing : Matches(all, filing)
    BY <1>2 DEF Matches
  <2>2. {i \in DOMAIN s : Matches(all, s[i])} = DOMAIN s
    BY <2>1
  <2>3. AllMatching(all) = AtPositions(s, DOMAIN s)
    BY <1>2, <2>2 DEF AllMatching, Where
  <2> QED
    BY <2>3, AllSelected
<1>5. ASSUME NEW forms, forms # {}
      PROVE  AllMatching([all EXCEPT !.formTypes = forms]) = OfKind(s, forms)
  <2>1. PICK q : q = [all EXCEPT !.formTypes = forms]
    OBVIOUS
  <2>2. /\ q.issuer = cik /\ q.formTypes = forms /\ q.dateFrom = NoValue /\ q.dateTo = NoValue
        /\ q.accession = NoValue
    BY <1>1, <2>1
  <2>3. \A filing : Matches(q, filing) <=> filing.form \in forms
    BY <1>5, <2>2 DEF Matches
  <2>4. {i \in DOMAIN s : Matches(q, s[i])} = {i \in DOMAIN s : s[i].form \in forms}
    BY <2>3
  <2> QED
    BY <2>1, <2>2, <2>4 DEF AllMatching, Where, OfKind
<1> QED
  BY <1>2, <1>3, <1>4, <1>5

LEMMA CutTwice ==
  ASSUME NEW A, NEW s \in Seq(A), NEW m \in Nat, NEW n \in Nat
  PROVE  Cut(Cut(s, m), n) = Cut(s, IF m < n THEN m ELSE n)
<1>1. PICK a, b, c : a = Cut(s, m) /\ b = Cut(a, n) /\ c = Cut(s, IF m < n THEN m ELSE n)
  OBVIOUS
<1>2. /\ a \in Seq(A) /\ Len(a) = (IF m < Len(s) THEN m ELSE Len(s))
      /\ \A i \in 1 .. Len(a) : a[i] = s[i]
  BY <1>1, CutIs
<1>3. /\ b \in Seq(A) /\ Len(b) = (IF n < Len(a) THEN n ELSE Len(a))
      /\ \A i \in 1 .. Len(b) : b[i] = a[i]
  BY <1>1, <1>2, CutIs
<1>4. PICK k \in Nat : k = IF m < n THEN m ELSE n
  OBVIOUS
<1>5. /\ c \in Seq(A) /\ Len(c) = (IF k < Len(s) THEN k ELSE Len(s))
      /\ \A i \in 1 .. Len(c) : c[i] = s[i]
  BY <1>1, <1>4, CutIs
<1>6. Len(b) = Len(c) /\ Len(b) \in Nat /\ Len(b) <= Len(a) /\ Len(a) \in Nat
  <2>1. PICK l \in Nat : l = Len(s)
    OBVIOUS
  <2> QED
    BY <1>2, <1>3, <1>4, <1>5, <2>1
<1>7. \A i \in 1 .. Len(b) : b[i] = c[i]
  BY <1>2, <1>3, <1>5, <1>6
<1>8. b = c
  BY <1>3, <1>5, <1>6, <1>7, SeqEqual
<1> QED
  BY <1>1, <1>8

\* A filing opens with its number, if the account that filed it is the issuer.
LEMMA FilingOpens ==
  ASSUME FeedSound, NEW cik \in Ciks, NEW filing \in ToSet(feed[cik]), filing.accession[1] = cik,
         NEW index \in BOOLEAN
  PROVE  FilingDetailPage(filing.accession, TRUE, index) =
           [shows |-> "filing", cik |-> cik, filing |-> filing, documents |-> index,
            sections |-> filing.form \in SECTIONED_FORMS]
<1>1. PICK s \in Seq(Filing) : s = feed[cik]
  BY DEF FeedSound
<1>2. /\ \A f \in ToSet(s) : f.accession[2] = f.date
      /\ \A i, j \in DOMAIN s : s[i].date = s[j].date => i = j
  BY <1>1 DEF FeedSound
<1>3. PICK E : E = {i \in DOMAIN s : s[i].accession = filing.accession}
  OBVIOUS
<1>4. PICK n \in DOMAIN s : filing = s[n]
  BY <1>1 DEF ToSet
<1>5. \A i \in E : i = n
  <2>1. \A i \in DOMAIN s : s[i] \in ToSet(s)
    BY DEF ToSet
  <2>2. \A i \in E : s[i].date = s[n].date
    BY <1>2, <1>3, <1>4, <2>1
  <2> QED
    BY <1>2, <1>3, <2>2
<1>6. E = {n}
  BY <1>3, <1>4, <1>5
<1>7. PICK row : row = Where(s, LAMBDA f : f.accession = filing.accession)
  OBVIOUS
<1>8. row = AtPositions(s, E)
  BY <1>3, <1>7 DEF Where
<1>9. row # << >> /\ row[1] = filing
  <2>1. PICK len \in Nat : len = Len(s)
    OBVIOUS
  <2>2. E \in SUBSET (1 .. len) /\ E # {}
    BY <1>6, <2>1
  <2>3. /\ AtPositions(s, E) # << >>
        /\ \E i \in E : (\A m \in E : i <= m) /\ AtPositions(s, E)[1] = s[i]
    BY <2>1, <2>2, FirstOfSelected
  <2> QED
    BY <1>4, <1>5, <1>8, <2>3
<1>10. Answers(cik, TRUE)
  BY DEF Answers
<1>11. PICK detail : detail = GetFilingDetail(filing.accession, TRUE, index)
  OBVIOUS
<1>12. detail = [found |-> TRUE, cik |-> cik, filing |-> filing, documents |-> index,
                 sections |-> filing.form \in SECTIONED_FORMS]
  BY <1>1, <1>7, <1>9, <1>10, <1>11 DEF GetFilingDetail
<1>13. /\ detail.found /\ detail.cik = cik /\ detail.filing = filing /\ detail.documents = index
       /\ detail.sections = (filing.form \in SECTIONED_FORMS)
  BY <1>12
<1> QED
  BY <1>11, <1>13 DEF FilingDetailPage

\* The company page, the filings page, the page of a filing and the two public
\* endpoints show one feed.
THEOREM ViewsShowOneFeed == ReadsSpec => []ViewsAgree
<1>1. ASSUME FeedSound, NEW cik \in Ciks
      PROVE  LET all    == First(cik, MaxPageSize)
                 page   == CompanyPage(cik, TRUE).sections
                 latest == page.latest
                 proxy  == page.cards.governance
                 api    == GetCompanies(cik, 1, MaxPageSize, TRUE)
                 Kind(forms) == AllMatching([all EXCEPT !.formTypes = forms])
             IN
             /\ Cut(latest, MaxPageSize) = api.recentFilings
             /\ Cut(GetFilings(all, TRUE).filings, MaxRecent) = Cut(latest, MaxRows)
             /\ FilingsPage(all, TRUE).rows = Cut(feed[cik], MaxRows)
             /\ api.footprint.annual = Len(Kind(ANNUAL_FORMS))
             /\ page.footprint = GetCompanies(cik, 1, 1, TRUE).footprint
             /\ page.cards.compensation.filings <= Len(Kind(PROXY_FORMS))
             /\ proxy # NoValue => proxy = Kind(PROXY_FORMS)[1]
             /\ proxy = NoValue /\ Kind(PROXY_FORMS) # <<>> =>
                  Kind(PROXY_FORMS)[1] \notin ToSet(latest)
  <2> DEFINE Kind(forms) == AllMatching([First(cik, MaxPageSize) EXCEPT !.formTypes = forms])
  <2>1. PICK s \in Seq(Filing) : s = feed[cik]
    BY <1>1 DEF FeedSound
  <2>2. PICK all : all = First(cik, MaxPageSize)
    OBVIOUS
  <2>3. PICK latest : latest = Cut(s, MaxRecent)
    OBVIOUS
  <2>4. /\ {MaxRows, MaxRecent, MaxPageSize} \subseteq Nat \ {0} /\ MaxRecent <= MaxPageSize
        /\ cik \notin DOMAIN Tickers /\ NoValue \notin Filing
    BY ReadsAssumption
  <2>5. /\ QueryValid(all) /\ FiltersValid(all) /\ all.issuer = cik
        /\ all.page = 1 /\ all.pageSize = MaxPageSize /\ AllMatching(all) = s
        /\ \A forms : forms # {} => AllMatching([all EXCEPT !.formTypes = forms]) = OfKind(s, forms)
    BY <2>1, <2>2, QueriesAnswered
  <2>6. Kind(ANNUAL_FORMS) = OfKind(s, ANNUAL_FORMS) /\ Kind(PROXY_FORMS) = OfKind(s, PROXY_FORMS)
    <3>1. ANNUAL_FORMS # {} /\ PROXY_FORMS # {}
      BY DEF ANNUAL_FORMS, PROXY_FORMS
    <3> QED
      BY <2>2, <2>5, <3>1
  <2> HIDE DEF Kind
  <2>7. Answers(cik, TRUE) /\ ClampPageSize(MaxPageSize) = MaxPageSize
    BY <2>4 DEF Answers, ClampPageSize
  <2>8. /\ CompanyPage(cik, TRUE).sections = OverviewSections(cik)
    BY <2>4, <2>7 DEF CompanyPage
  <2>9. PICK print : print = Overview(cik).footprint
    OBVIOUS
  <2>10. Overview(cik).latest = latest /\ print.annual = Len(OfKind(s, ANNUAL_FORMS))
    BY <2>1, <2>3, <2>9 DEF Overview, Where, OfKind
  <2>11. PICK cards : cards = GovernanceCards(cik)
    OBVIOUS
  <2>12. /\ OverviewSections(cik).footprint = print /\ OverviewSections(cik).latest = latest
         /\ OverviewSections(cik).cards = cards
    BY <2>9, <2>10, <2>11 DEF OverviewSections
  <2>13. PICK shown : shown = OfKind(latest, PROXY_FORMS)
    OBVIOUS
  <2>14. /\ cards.governance = IF shown = << >> THEN NoValue ELSE shown[1]
         /\ cards.compensation.filings = Len(shown)
    <3>1. PICK g : g = SummarizeGovernance(latest)
      OBVIOUS
    <3>2. g.latestProxy = (IF shown = << >> THEN NoValue ELSE shown[1]) /\ g.proxies = Len(shown)
      BY <2>13, <3>1 DEF SummarizeGovernance, Where, OfKind
    <3>3. cards.governance = g.latestProxy /\ cards.compensation.filings = g.proxies
      BY <2>10, <2>11, <3>1 DEF GovernanceCards
    <3> QED
      BY <3>2, <3>3
  <2>15. \A n \in Nat \ {0} :
           /\ GetCompanies(cik, 1, n, TRUE).footprint = print
           /\ GetCompanies(cik, 1, n, TRUE).recentFilings = Page(latest, 1, ClampPageSize(n))
    <3> SUFFICES ASSUME NEW n \in Nat \ {0}
                 PROVE  /\ GetCompanies(cik, 1, n, TRUE).footprint = print
                        /\ GetCompanies(cik, 1, n, TRUE).recentFilings = Page(latest, 1, ClampPageSize(n))
      OBVIOUS
    <3>1. ~(cik \notin Ciks \cup Agents \/ 1 < 1 \/ n < 1)
      OBVIOUS
    <3>2. GetCompanies(cik, 1, n, TRUE) =
            [status |-> 200, footprint |-> Overview(cik).footprint,
             recentFilings |-> Page(Overview(cik).latest, 1, ClampPageSize(n))]
      BY <2>7, <3>1 DEF GetCompanies
    <3>3. PICK api : api = GetCompanies(cik, 1, n, TRUE)
      OBVIOUS
    <3>4. api.footprint = print /\ api.recentFilings = Page(latest, 1, ClampPageSize(n))
      <4>1. api = [status |-> 200, footprint |-> print,
                   recentFilings |-> Page(latest, 1, ClampPageSize(n))]
        BY <2>9, <2>10, <3>2, <3>3
      <4> QED
        BY <4>1
    <3> QED
      BY <3>3, <3>4
  <2>16. \A t, n : n \in Nat => Page(t, 1, n) = Cut(t, n)
    <3> SUFFICES ASSUME NEW t, NEW n \in Nat PROVE Page(t, 1, n) = Cut(t, n)
      OBVIOUS
    <3>1. (1 - 1) * n + 1 = 1 /\ 1 * n = n
      OBVIOUS
    <3> QED
      BY <3>1 DEF Page, Cut
  <2>17. QueryFilings(all) = Cut(s, MaxRows)
    BY <2>5 DEF QueryFilings
  <2>18. Cut(latest, MaxPageSize) = GetCompanies(cik, 1, MaxPageSize, TRUE).recentFilings
    BY <2>4, <2>7, <2>15, <2>16
  <2>19. Cut(GetFilings(all, TRUE).filings, MaxRecent) = Cut(latest, MaxRows)
    <3>1. GetFilings(all, TRUE) = [status |-> 200, filings |-> Page(Cut(s, MaxRows), 1, MaxPageSize)]
      BY <2>5, <2>7, <2>17 DEF GetFilings
    <3>2. GetFilings(all, TRUE).filings = Cut(Cut(s, MaxRows), MaxPageSize)
      <4>1. PICK answer, rows : answer = GetFilings(all, TRUE) /\ rows = Page(Cut(s, MaxRows), 1, MaxPageSize)
        OBVIOUS
      <4>2. answer = [status |-> 200, filings |-> rows]
        BY <3>1, <4>1
      <4>3. answer.filings = rows
        BY <4>2
      <4>4. rows = Cut(Cut(s, MaxRows), MaxPageSize)
        <5>1. MaxPageSize \in Nat
          BY <2>4
        <5> QED
          BY <2>16, <4>1, <5>1
      <4> QED
        BY <4>1, <4>3, <4>4
    <3>3. PICK m \in Nat, n \in Nat, p \in Nat : m = MaxRows /\ n = MaxRecent /\ p = MaxPageSize
      BY <2>4
    <3>4. PICK few \in Nat : few = IF m < p THEN m ELSE p
      OBVIOUS
    <3>5. Cut(Cut(s, m), p) = Cut(s, few)
      BY <3>4, CutTwice
    <3>6. Cut(Cut(s, few), n) = Cut(s, IF few < n THEN few ELSE n)
      BY CutTwice
    <3>7. Cut(Cut(s, n), m) = Cut(s, IF n < m THEN n ELSE m)
      BY CutTwice
    <3>8. (IF few < n THEN few ELSE n) = (IF n < m THEN n ELSE m)
      BY <2>4, <3>3, <3>4
    <3> QED
      BY <2>3, <3>2, <3>3, <3>5, <3>6, <3>7, <3>8
  <2>20. FilingsPage(all, TRUE).rows = Cut(feed[cik], MaxRows)
    BY <2>1, <2>5, <2>7, <2>17 DEF FilingsPage
  <2>21. /\ Len(shown) <= Len(OfKind(s, PROXY_FORMS))
         /\ shown # << >> => shown[1] \in Filing /\ shown[1] = OfKind(s, PROXY_FORMS)[1]
         /\ shown = << >> /\ OfKind(s, PROXY_FORMS) # << >> =>
              OfKind(s, PROXY_FORMS)[1] \notin ToSet(latest)
    <3>1. MaxRecent \in Nat
      BY <2>4
    <3>2. /\ Len(OfKind(latest, PROXY_FORMS)) <= Len(OfKind(s, PROXY_FORMS))
          /\ OfKind(latest, PROXY_FORMS) # << >> =>
               /\ OfKind(latest, PROXY_FORMS)[1] \in Filing
               /\ OfKind(latest, PROXY_FORMS)[1] = OfKind(s, PROXY_FORMS)[1]
          /\ OfKind(latest, PROXY_FORMS) = << >> /\ OfKind(s, PROXY_FORMS) # << >> =>
               OfKind(s, PROXY_FORMS)[1] \notin ToSet(latest)
      BY <2>3, <3>1, KindsOf, Zenon
    <3> QED
      BY <2>13, <3>2
  <2>22. PICK proxies : proxies = OfKind(s, PROXY_FORMS)
    OBVIOUS
  <2>23. /\ cards.compensation.filings <= Len(proxies)
         /\ cards.governance # NoValue => cards.governance = proxies[1]
         /\ cards.governance = NoValue /\ proxies # << >> => proxies[1] \notin ToSet(latest)
    BY <2>4, <2>14, <2>21, <2>22
  <2>24. /\ GetCompanies(cik, 1, MaxPageSize, TRUE).footprint.annual = Len(Kind(ANNUAL_FORMS))
         /\ GetCompanies(cik, 1, 1, TRUE).footprint = print
    <3>1. MaxPageSize \in Nat \ {0} /\ 1 \in Nat \ {0}
      BY <2>4
    <3>2. /\ GetCompanies(cik, 1, MaxPageSize, TRUE).footprint = print
          /\ GetCompanies(cik, 1, 1, TRUE).footprint = print
      BY <2>15, <3>1
    <3> QED
      BY <2>6, <2>10, <3>2, Zenon
  <2> QED
    BY <2>2, <2>6, <2>8, <2>12, <2>18, <2>19, <2>20, <2>22, <2>23, <2>24 DEF Kind
<1>2. ReadsInv => ViewsAgree
  <2> SUFFICES ASSUME ReadsInv PROVE ViewsAgree
    OBVIOUS
  <2>1. FeedSound
    BY DEF ReadsInv
  <2> QED
    BY <1>1, <2>1, FilingOpens DEF ViewsAgree
<1> QED
  BY <1>2, ReadsInvHolds, PTL
=============================================================================
