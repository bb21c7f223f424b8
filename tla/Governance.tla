----------------------------- MODULE Governance -----------------------------
(***************************************************************************)
(* Executive pay and insider activity of an issuer, read from the proxies  *)
(* and the ownership forms of its submissions feed (lib/api/compensation.ts*)
(* and lib/api/insiders.ts of apps/web), as the company's two pages and    *)
(* GET /api/v1/compensation and /insiders return them.  The feed and the   *)
(* documents are external.  A table row stands for what the expressions of *)
(* the parser find in its cells; titles and addresses follow the name and  *)
(* the filing and are left out.  A date is a year.                         *)
(***************************************************************************)
EXTENDS WebLists

CONSTANTS ProxyTables,      \* the rows a proxy may hold
          OwnershipReports, \* the contents an ownership form may have
          Names, Noise,     \* what reads as a person's name, and the labels that only look like one
          Roles,            \* what a reporter may be to the issuer, but for "all"
          MinTotal,         \* 10,000: a smaller amount is not a total
          MaxProxies, MaxPayRows,    \* 6 and 60
          MaxForms, MaxActivityRows, \* 25 and 200
          FirstYear,
          MaxFilings        \* bound: filings in the feed

\* What a row of a proxy's table holds; a header starts a table, of pay or not.
HeaderRows == [header: {TRUE}, summary: BOOLEAN, name: {"label"}]
PayRows    == [header: {FALSE}, summary: BOOLEAN, name: Names \cup {"blank", "label"},
               yearColumn: Int \cup {NoValue}, years: Seq(Int),
               totalColumn: Int \cup {NoValue}, amounts: SUBSET Int]

\* What a form tells of a transaction, and of an owner.
Transactions == [date: Int \cup {NoValue}, code: STRING \cup {NoValue}, side: {"A", "D", NoValue},
                 shares: Int \cup {NoValue}, derivative: BOOLEAN]
Owners == [name: STRING \cup {NoValue}, roles: SUBSET Roles]

PROXY_CANDIDATES == {"DEF 14A", "DEFA14A"}
INSIDER_FORMS    == {"3", "3/A", "4", "4/A", "5", "5/A"}

Filings == [accession: Nat, date: Int, form: PROXY_CANDIDATES \cup INSIDER_FORMS,
            body: ProxyTables \cup OwnershipReports]

ASSUME GovernanceAssumption ==
  /\ Noise \subseteq Names /\ NoValue \notin Names /\ "all" \notin Roles /\ FirstYear \in Int
  /\ OwnershipReports \subseteq [xml: BOOLEAN, owners: Seq(Owners), transactions: Seq(Transactions)]
  /\ NoValue \notin Int \cup Filings /\ MinTotal \in Nat
  /\ \A table \in ProxyTables :
       table \in Seq(HeaderRows \cup PayRows)
       /\ \A row \in ToSet(table) : row.header \/ IsFiniteSet(row.amounts)
  /\ {MaxProxies, MaxPayRows, MaxForms, MaxActivityRows} \subseteq Nat \ {0}

VARIABLES submissions \* the issuer's filings, the newest first

governanceVars == <<submissions>>

GovernanceInit == submissions = <<>>

\* Filings come in order, several a year; a document is what it was when filed.
FileDocument(form, body) ==
  /\ Len(submissions) < MaxFilings
  /\ LET last == IF submissions = <<>> THEN FirstYear ELSE submissions[1].date
     IN  \E date \in {last, last + 1} :
           submissions' = <<[accession |-> Len(submissions) + 1, date |-> date,
                             form |-> form, body |-> body]>> \o submissions

GovernanceNext ==
  \/ \E form \in PROXY_CANDIDATES, table \in ProxyTables : FileDocument(form, table)
  \/ \E form \in {"4"}, report \in OwnershipReports : FileDocument(form, report)

GovernanceSpec == GovernanceInit /\ [][GovernanceNext]_governanceVars

Latest(forms, max) == Cut(Where(submissions, LAMBDA f : f.form \in forms), max)

------------------------------------------------------------------------------
\* parseYearFromCells: the year's column if it names one of the six years before
\* the filing, or else the first such year of the row.
ParseYear(row, filed) ==
  LET Of(y) == y \in filed - 6 .. filed - 1
  IN  IF row.yearColumn # NoValue /\ Of(row.yearColumn) THEN row.yearColumn
      ELSE FirstWhere(row.years, Of)

\* parseMoneyFromCells: the total's column, or else the largest amount.
ParseMoney(row) ==
  LET large == {a \in row.amounts : a > MinTotal}
  IN  IF row.totalColumn # NoValue /\ row.totalColumn > MinTotal THEN row.totalColumn
      ELSE IF large = {} THEN NoValue ELSE CHOOSE a \in large : \A b \in large : b <= a

\* A name cell may hold a name, with or without a title, be blank, or hold
\* another label; what reads as a name may still be a label of the table.
ExtractLikelyPersonName(row) == IF row.name \in Names THEN row.name ELSE NoValue
LooksLikeExecutiveName(name) == name \in Names \ Noise

\* Variant: a header keeps the name of the table above it.
ReadRowKeepingName(filing, state, row) ==
  LET found == ExtractLikelyPersonName(row)
      named == [state EXCEPT !.name = IF found # NoValue THEN found ELSE @]
      name  == IF row.name = "label" THEN NoValue ELSE named.name
      year  == ParseYear(row, filing.date)
      total == ParseMoney(row)
  IN  IF row.header THEN [state EXCEPT !.summary = row.summary]
      ELSE IF ~state.summary \/ ~LooksLikeExecutiveName(name) \/ NoValue \in {year, total} THEN named
      ELSE [named EXCEPT !.out = Append(@, [name |-> name, year |-> year, total |-> total,
                                             accession |-> filing.accession, date |-> filing.date])]

\* parseCompensationRowsFromTables: a header starts a table and forgets the name,
\* a name stands for the blank cells below it, any other label is passed over.
ReadRow(filing, state, row) ==
  LET found == ExtractLikelyPersonName(row)
      named == [state EXCEPT !.name = IF found # NoValue THEN found ELSE @]
      name  == IF row.name = "label" THEN NoValue ELSE named.name
      year  == ParseYear(row, filing.date)
      total == ParseMoney(row)
  IN  IF row.header THEN [state EXCEPT !.summary = row.summary, !.name = NoValue]
      ELSE IF ~state.summary THEN state
      ELSE IF ~LooksLikeExecutiveName(name) \/ NoValue \in {year, total} THEN named
      ELSE [named EXCEPT !.out = Append(@, [name |-> name, year |-> year, total |-> total,
                                             accession |-> filing.accession, date |-> filing.date])]

\* The rest of a row follows from its key.
UniqueRows(rows) ==
  FirstOfEach(rows, LAMBDA row : <<row.name, row.year, row.total, row.accession>>)

ParseProxy(filing) ==
  LET read[n \in 0 .. Len(filing.body)] ==
        IF n = 0 THEN [summary |-> FALSE, name |-> NoValue, out |-> <<>>]
        ELSE ReadRow(filing, read[n - 1], filing.body[n])
  IN  UniqueRows(read[Len(filing.body)].out)

\* buildHistory: the latest filing's row, the first of those of one date.
History(rows) ==
  LET Point(e) == Kept(rows, {i \in DOMAIN rows : <<rows[i].name, rows[i].year>> = e},
                       LAMBDA best, row : IF row.date > best.date THEN row ELSE best)
  IN  {Point(<<row.name, row.year>>) : row \in ToSet(rows)}

\* getCompanyCompensation: proxies whose document fails are passed over.
Compensation(failing) ==
  LET candidates == Latest(PROXY_CANDIDATES, MaxProxies)
      parsed == Flat(Mapped(Where(candidates, LAMBDA f : f.accession \notin failing), ParseProxy))
      Higher(a, b) == a.year > b.year \/ (a.year = b.year /\ a.total > b.total)
      rows == Cut(StableSort(parsed, Higher), MaxPayRows)
  IN  [rows |-> rows, history |-> History(rows), sources |-> candidates]

\* The API adds the form to a row and the date to a point, from the sources.
SourceOf(answer, accession) ==
  FirstWhere(answer.sources, LAMBDA source : source.accession = accession)

NoDate == ""

GetCompensation(company, up, failing) ==
  LET answer == Compensation(failing)
      Form(row)   == LET s == SourceOf(answer, row.accession) IN IF s = NoValue THEN "DEF 14A" ELSE s.form
      Date(point) == LET s == SourceOf(answer, point.accession) IN IF s = NoValue THEN NoDate ELSE s.date
  IN  IF ~company THEN [status |-> 400] ELSE IF ~up THEN [status |-> 502]
      ELSE [status |-> 200,
            rows |-> Mapped(answer.rows, LAMBDA row : Spread(row, [form |-> Form(row)])),
            history |-> {[point EXCEPT !.date = Date(point)] : point \in answer.history}]

CompensationPage(up, failing) ==
  IF ~up THEN [unavailable |-> TRUE] ELSE Spread(Compensation(failing), [unavailable |-> FALSE])

------------------------------------------------------------------------------
\* Of several owners the first is the reporter; one without a name is none.
ParseReporter(report) ==
  IF report.owners = <<>> THEN NoValue
  ELSE IF report.owners[1].name = NoValue THEN NoValue ELSE report.owners[1]

\* parseInsiderActivityFromXml: a form without transactions is a row of its own.
ParseReport(filing) ==
  LET report   == filing.body
      reporter == ParseReporter(report)
      Row(t) == Spread([t EXCEPT !.date = IF @ = NoValue THEN filing.date ELSE @],
                       [reporter |-> reporter.name, roles |-> reporter.roles,
                        accession |-> filing.accession, filed |-> filing.date])
      holdings == [date |-> NoValue, code |-> NoValue, side |-> NoValue,
                   shares |-> NoValue, derivative |-> FALSE]
  IN  IF reporter = NoValue THEN <<>>
      ELSE Mapped(IF report.transactions = <<>> THEN <<holdings>> ELSE report.transactions, Row)

NormalizeRole(role) == IF role \in Roles THEN role ELSE "all"

RolesMatch(roles, role) == role = "all" \/ role \in roles
FilterRows(rows, role)  == Where(rows, LAMBDA row : RolesMatch(row.roles, role))

\* compareInsiderRowsChronologically; one accession has one reporter.
Newer(a, b) ==
  \/ a.date > b.date
  \/ a.date = b.date /\ a.filed > b.filed
  \/ a.date = b.date /\ a.filed = b.filed /\ a.accession > b.accession

\* getCompanyInsiders
InsiderSources ==
  Cut(StableSort(Where(submissions, LAMBDA f : f.form \in INSIDER_FORMS),
                 LAMBDA a, b : a.date > b.date), MaxForms)

ParsedReports(failing) ==
  Flat(Mapped(Where(InsiderSources, LAMBDA f : f.body.xml /\ f.accession \notin failing),
                    ParseReport))

\* Variant: the role is looked at after the cut.
InsidersCutFirst(role, failing) ==
  LET shown == Cut(StableSort(ParsedReports(failing), Newer), MaxActivityRows)
  IN  [role |-> role, rows |-> FilterRows(shown, role),
       sources |-> InsiderSources]

Insiders(role, failing) ==
  LET ofRole == FilterRows(ParsedReports(failing), role)
  IN  [role |-> role, rows |-> Cut(StableSort(ofRole, Newer), MaxActivityRows),
       sources |-> InsiderSources]

ClassifyTransaction(row) ==
  CASE row.derivative -> "derivative_event"
    [] ~row.derivative /\ row.code = NoValue /\ row.shares = NoValue /\ row.side = NoValue -> "holdings_change"
    [] ~row.derivative /\ row.side = "A" /\ row.code \in {"A", "M", "X", "G"} -> "grant"
    [] ~row.derivative /\ row.side = "A" /\ row.code = "P" -> "buy"
    [] ~row.derivative /\ row.side = "D" /\ row.code = "S" -> "sell"
    [] OTHER -> "ambiguous"

GetInsiders(company, role, up, failing) ==
  LET answer == Insiders(NormalizeRole(role), failing)
  IN  IF ~company THEN [status |-> 400] ELSE IF ~up THEN [status |-> 502]
      ELSE [status |-> 200, role |-> answer.role,
            rows |-> Mapped(answer.rows, LAMBDA row : Spread(row, [class |-> ClassifyTransaction(row)]))]

InsidersPage(role, up, failing) ==
  IF ~up THEN [unavailable |-> TRUE]
  ELSE Spread(Insiders(NormalizeRole(role), failing), [unavailable |-> FALSE])

------------------------------------------------------------------------------
Accessions == {f.accession : f \in ToSet(submissions)}

\* The rows of a table as far as one of them, the header above, and the person
\* whose name stands in it or was the last above it.
InTable(rows, i) == {j \in 1 .. i : \A k \in j .. i : ~rows[k].header}
TopOf(rows, i) ==
  IF Cardinality(InTable(rows, i)) = i THEN 0 ELSE i - Cardinality(InTable(rows, i))
Named(rows, i) == {j \in InTable(rows, i) : rows[j].name \in Names}
Person(rows, i) ==
  IF Named(rows, i) = {} THEN NoValue
  ELSE rows[CHOOSE j \in Named(rows, i) : \A k \in Named(rows, i) : k <= j].name

OfSummary(rows, i) ==
  ~rows[i].header /\ TopOf(rows, i) # 0 /\ rows[TopOf(rows, i)].summary /\ rows[i].name # "label"
PayOf(filing, i) ==
  [name |-> Person(filing.body, i), year |-> ParseYear(filing.body[i], filing.date),
   total |-> ParseMoney(filing.body[i]), accession |-> filing.accession, date |-> filing.date]

\* A pay row belongs to the person of its own table, however tables, labels and
\* blank cells follow each other, and every such row of a summary table with a
\* year and a total is read.
PayRowsAttributed ==
  \A filing \in ToSet(Latest(PROXY_CANDIDATES, MaxProxies)) :
    ToSet(ParseProxy(filing)) =
      {row \in {PayOf(filing, i) : i \in {j \in DOMAIN filing.body : OfSummary(filing.body, j)}} :
         row.name \in Names \ Noise /\ NoValue \notin {row.year, row.total}}

\* The history has one point for each executive and year of the table, from the
\* latest filing shown for it.
HistoryOf(rows, history) ==
  /\ \A row \in ToSet(rows) :
       Cardinality({p \in history : p.name = row.name /\ p.year = row.year}) = 1
  /\ \A p \in history :
       p \in ToSet(rows)
       /\ \A row \in ToSet(rows) : row.name = p.name /\ row.year = p.year => row.date <= p.date

\* A row or a point is of a filing that was read.
Filed(row, failing) ==
  \E f \in ToSet(submissions) :
    /\ row.accession = f.accession /\ row.date = f.date /\ f.accession \notin failing
    /\ "form" \in DOMAIN row => row.form = f.form

\* Whatever documents fail, rows are attributed as above, the history is that of
\* the table; the API ties each row and point to its own filing; and a failed
\* document changes a figure only if it is the one the figure came from (the table
\* being shorter than its cut).
PayAnswersSound ==
  /\ PayRowsAttributed
  /\ \A failing \in SUBSET Accessions :
       LET page  == CompensationPage(TRUE, failing)
           api   == GetCompensation(TRUE, TRUE, failing)
           whole == Compensation({})
       IN
       /\ HistoryOf(page.rows, page.history)
       /\ \A row \in ToSet(api.rows) \cup api.history : Filed(row, failing)
       /\ Len(whole.rows) < MaxPayRows =>
            \A p \in whole.history : p.accession \notin failing => p \in page.history

\* A role's answer and the unfiltered one tell the same: what the latter shows of
\* a role the former shows too, in the same order, the cut counts rows of the role
\* only, page and API answer alike, and failed documents hide but their own rows.
RoleAnswersConsistent ==
  \A role \in Roles \cup {"all", ""}, failing \in SUBSET Accessions :
    LET page == InsidersPage(role, TRUE, failing).rows
        api  == GetInsiders(TRUE, role, TRUE, failing).rows
        all  == InsidersPage("all", TRUE, failing).rows
        Of(row) == role \notin Roles \/ role \in row.roles
    IN
    /\ IsPrefix(Where(all, Of), page)
    /\ \A i \in DOMAIN page : page[i].accession = api[i].accession /\ Of(api[i])
    /\ Len(page) = Len(api)
    /\ Len(page) < MaxActivityRows =>
         Len(page) = Len(Where(ParsedReports({}), LAMBDA row : Of(row) /\ row.accession \notin failing))
=============================================================================
