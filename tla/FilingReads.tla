---------------------------- MODULE FilingReads -----------------------------
(***************************************************************************)
(* What is read from SEC's submissions of an issuer: the filings list, its *)
(* public API and the page of one filing (lib/api/filings.ts,              *)
(* filing-detail.ts, app/filings, api/v1/filings), the company page with   *)
(* its governance cards and GET /api/v1/companies (lib/api/company.ts).    *)
(* The feeds are external: the newest filing first, one number per filing  *)
(* after the account that filed it.  A client walks the pages of the API   *)
(* while filings arrive.  Dates are days; documents and names are left out.*)
(***************************************************************************)
EXTENDS WebLists

CONSTANTS Ciks,      \* accounts with a submissions feed
          Agents,    \* accounts without one, who file for others
          Forms,
          MaxRows,   \* 200: the filings a query returns
          MaxRecent, \* 8: the filings of a company overview
          DefaultPageSize, MaxPageSize,
          Tickers,   \* FEATURED_ISSUERS: ticker -> CIK
          MaxFiled   \* bound: filings in all feeds

Filing == [accession : (Ciks \cup Agents) \X Nat, form : Forms, date : Nat]

ASSUME ReadsAssumption ==
  /\ Ciks \cap Agents = {} /\ DOMAIN Tickers \cap (Ciks \cup Agents) = {}
  /\ \A t \in DOMAIN Tickers : Tickers[t] \in Ciks
  /\ {MaxRows, MaxRecent, DefaultPageSize, MaxPageSize, MaxFiled} \subseteq Nat \ {0}
  /\ MaxRecent <= MaxPageSize /\ NoValue \notin Nat \cup Filing

VARIABLES feed,  \* CIK -> its filings, the newest first
          filed, \* filings so far, the day of the last one
          walk   \* a client's walk through the pages of a query

readsVars == <<feed, filed, walk>>

ANNUAL_FORMS    == {"10-K", "20-F"}
PROXY_FORMS     == {"DEF 14A", "DEFA14A", "PRE 14A"}
INSIDER_CARD_FORMS   == {"3", "3/A", "4", "4/A", "5", "5/A", "SC 13D", "SC 13D/A", "SC 13G", "SC 13G/A"}
CURRENT_REPORTS == {"8-K", "6-K"}
SECTIONED_FORMS == {"10-K", "10-Q", "20-F"}

\* The number of a filing begins with the account of the one who files it.
File(cik, by, form) ==
  /\ filed < MaxFiled
  /\ filed' = filed + 1
  /\ feed' = [feed EXCEPT ![cik] =
       <<[accession |-> <<by, filed + 1>>, form |-> form, date |-> filed + 1]>> \o @]
  /\ UNCHANGED walk

------------------------------------------------------------------------------
\* normalizeFilingQueryFilters and normalizeFilingsQuery: what is well formed is a
\* query, what is missing or is not of its form is an error.
First(issuer, size) ==
  [issuer |-> issuer, formTypes |-> {}, dateFrom |-> NoValue, dateTo |-> NoValue,
   accession |-> NoValue, page |-> 1, pageSize |-> size]

FiltersValid(q) ==
  /\ q.issuer \in Ciks \cup Agents
  /\ 0 \notin {q.dateFrom, q.dateTo}   \* 0 stands for what is not a date
  /\ NoValue \notin {q.dateFrom, q.dateTo} => q.dateFrom <= q.dateTo

QueryValid(q) == FiltersValid(q) /\ q.page >= 1 /\ q.pageSize >= 1

ClampPageSize(size) == IF size > MaxPageSize THEN MaxPageSize ELSE size

Matches(q, filing) ==
  /\ q.formTypes # {} => filing.form \in q.formTypes
  /\ q.dateFrom # NoValue => filing.date >= q.dateFrom
  /\ q.dateTo # NoValue => filing.date <= q.dateTo
  /\ q.accession # NoValue => filing.accession = q.accession

AllMatching(q) == Where(feed[q.issuer], LAMBDA filing : Matches(q, filing))

\* queryFilings rejects when the feed does not answer.
Answers(cik, up)  == up /\ cik \in Ciks
QueryFilings(q)   == Cut(AllMatching(q), MaxRows)

\* Variant: pages are counted from zero.
GetFilingsFromZero(q, up) ==
  IF ~QueryValid(q) THEN [status |-> 400]
  ELSE IF ~Answers(q.issuer, up) THEN [status |-> 502]
  ELSE [status |-> 200, filings |-> Page(QueryFilings(q), q.page + 1, ClampPageSize(q.pageSize))]

GetFilings(q, up) ==
  IF ~QueryValid(q) THEN [status |-> 400]
  ELSE IF ~Answers(q.issuer, up) THEN [status |-> 502]
  ELSE [status |-> 200, filings |-> Page(QueryFilings(q), q.page, ClampPageSize(q.pageSize))]

\* The filings page: what queryFilings throws is left to the error boundary.
FilingsPage(q, up) ==
  IF ~FiltersValid(q) \/ ~Answers(q.issuer, up) THEN [failed |-> TRUE]
  ELSE [failed |-> FALSE, rows |-> QueryFilings(q)]

\* getFilingDetail: the feed asked is that of the account the number begins with;
\* an index that does not answer leaves the documents empty.
GetFilingDetail(accession, up, index) ==
  LET cik == accession[1]
      row == Where(feed[cik], LAMBDA filing : filing.accession = accession)
  IN
  IF ~Answers(cik, up) THEN [found |-> FALSE]
  ELSE IF row = <<>> THEN [found |-> FALSE]
  ELSE [found |-> TRUE, cik |-> cik, filing |-> row[1], documents |-> index,
        sections |-> row[1].form \in SECTIONED_FORMS]

FilingDetailPage(accession, up, index) ==
  LET detail == GetFilingDetail(accession, up, index)
  IN  IF detail.found THEN [shows |-> "filing", cik |-> detail.cik, filing |-> detail.filing,
                            documents |-> detail.documents, sections |-> detail.sections]
      ELSE [shows |-> "unavailable"]

------------------------------------------------------------------------------
\* Variant: the footprint counts the filings that are shown.
OverviewOfLatest(cik) ==
  LET latest == Cut(feed[cik], MaxRecent)
      Count(forms) == Len(Where(latest, LAMBDA filing : filing.form \in forms))
  IN  [latest |-> latest,
       footprint |-> [recent |-> Len(feed[cik]),
                      forms |-> Cardinality({filing.form : filing \in ToSet(latest)}),
                      annual |-> Count(ANNUAL_FORMS), quarterly |-> Count({"10-Q"}),
                      current |-> Count(CURRENT_REPORTS)]]

\* getCompanyOverview
Overview(cik) ==
  LET Count(forms) == Len(Where(feed[cik], LAMBDA filing : filing.form \in forms))
  IN  [latest |-> Cut(feed[cik], MaxRecent),
       footprint |-> [recent |-> Len(feed[cik]),
                      forms |-> Cardinality({filing.form : filing \in ToSet(feed[cik])}),
                      annual |-> Count(ANNUAL_FORMS), quarterly |-> Count({"10-Q"}),
                      current |-> Count(CURRENT_REPORTS)]]

\* summarizeGovernance
SummarizeGovernance(latest) ==
  LET Of(forms) == Where(latest, LAMBDA filing : filing.form \in forms)
      FirstOf(s) == IF s = <<>> THEN NoValue ELSE s[1]
  IN  [sampleSize |-> Len(latest),
       latestProxy |-> FirstOf(Of(PROXY_FORMS)), proxies |-> Len(Of(PROXY_FORMS)),
       latestInsider |-> FirstOf(Of(INSIDER_CARD_FORMS)), insiders |-> Len(Of(INSIDER_CARD_FORMS))]

\* The cards name the newest filings of a kind and count the sampled ones.
GovernanceCards(cik) ==
  LET g == SummarizeGovernance(Overview(cik).latest)
  IN  [governance |-> g.latestProxy,
       ownership |-> [filings |-> g.insiders, of |-> g.sampleSize, newest |-> g.latestInsider],
       compensation |-> [filings |-> g.proxies, of |-> g.sampleSize, newest |-> g.latestProxy]]

\* The sections below the headline: footprint, governance cards, latest filings.
OverviewSections(cik) ==
  [footprint |-> Overview(cik).footprint, cards |-> GovernanceCards(cik),
   latest |-> Overview(cik).latest]

\* The company page takes a CIK or one of the featured tickers.
CompanyPage(id, up) ==
  LET cik == IF id \in DOMAIN Tickers THEN Tickers[id] ELSE id
  IN
  IF id \notin DOMAIN Tickers \cup Ciks \cup Agents THEN [shows |-> "not found"]
  ELSE IF ~Answers(cik, up) THEN [shows |-> "unavailable"]
  ELSE [shows |-> "company", sections |-> OverviewSections(cik)]

GetCompanies(id, page, size, up) ==
  IF id \notin Ciks \cup Agents \/ page < 1 \/ size < 1 THEN [status |-> 400]
  ELSE IF ~Answers(id, up) THEN [status |-> 502]
  ELSE [status |-> 200, footprint |-> Overview(id).footprint,
        recentFilings |-> Page(Overview(id).latest, page, ClampPageSize(size))]

------------------------------------------------------------------------------
NoWalk == [at |-> "idle"]

ReadsInit ==
  /\ feed = [cik \in Ciks |-> <<>>]
  /\ filed = 0
  /\ walk = NoWalk

\* The walk remembers what the list held when it began.
BeginWalk(cik, forms, from, size) ==
  /\ walk.at = "idle"
  /\ LET q == [First(cik, size) EXCEPT !.formTypes = forms, !.dateFrom = from]
     IN  walk' = [at |-> "walking", query |-> q, got |-> <<>>, listed |-> QueryFilings(q)]
  /\ UNCHANGED <<feed, filed>>

\* A page that is not full is the last one; one that fails is asked for again.
NextPage(up) ==
  /\ walk.at = "walking"
  /\ LET answer == GetFilings(walk.query, up)
         full   == Len(answer.filings) = ClampPageSize(walk.query.pageSize)
     IN  walk' = IF answer.status # 200 THEN walk
                 ELSE [walk EXCEPT !.got = @ \o answer.filings, !.query.page = @ + 1,
                                   !.at = IF full THEN "walking" ELSE "done"]
  /\ UNCHANGED <<feed, filed>>

EndWalk ==
  /\ walk.at = "done"
  /\ walk' = NoWalk
  /\ UNCHANGED <<feed, filed>>

ReadsNext ==
  \/ \E cik \in Ciks, form \in Forms, by \in Ciks \cup Agents : File(cik, by, form)
  \/ \E cik \in Ciks, size \in 1 .. MaxPageSize + 1, forms \in {{}, ANNUAL_FORMS},
        from \in {NoValue, 2} : BeginWalk(cik, forms, from, size)
  \/ NextPage(TRUE) \/ NextPage(FALSE)
  \/ EndWalk

ReadsSpec == ReadsInit /\ [][ReadsNext]_readsVars

------------------------------------------------------------------------------
\* A walk through the pages misses nothing, although filings that arrive push
\* others down: what was listed when it began, and is not beyond the cut when it
\* ends, has been returned, and newer before older but for what a page repeats.
WalkMissesNothing ==
  walk.at = "done" =>
    /\ ToSet(walk.listed) \cap ToSet(QueryFilings(walk.query)) \subseteq ToSet(walk.got)
    /\ walk.listed = QueryFilings(walk.query) => walk.got = walk.listed
    /\ \A filing \in ToSet(walk.got) : Matches(walk.query, filing)

\* One feed, many views: the company page, the two public endpoints and the
\* filings page show the same filings in the same order, the footprint counts
\* what the filings filter finds, a card names the newest filing of its kind if it
\* is among the filings the page shows, and a filing of the issuer's own account
\* opens with its number, whether or not its index answers.
ViewsAgree ==
  \A cik \in Ciks :
    LET all    == First(cik, MaxPageSize)
        page   == CompanyPage(cik, TRUE).sections
        latest == page.latest
        proxy  == page.cards.governance
        api    == GetCompanies(cik, 1, MaxPageSize, TRUE)
        Kind(forms) == AllMatching([all EXCEPT !.formTypes = forms])
    IN
    /\ Cut(latest, MaxPageSize) = api.recentFilings
    /\ Cut(GetFilings(all, TRUE).filings, MaxRecent) = Cut(latest, MaxRows)
    /\ FilingsPage(all, TRUE).rows = Cut(feed[cik], MaxRows)
    /\ api.footprint.annual = Len(Kind(ANNUAL_FORMS))
    /\ page.footprint = GetCompanies(cik, 1, 1, TRUE).footprint
    /\ page.cards.compensation.filings <= Len(Kind(PROXY_FORMS))
    /\ proxy # NoValue => proxy = Kind(PROXY_FORMS)[1]
    /\ proxy = NoValue /\ Kind(PROXY_FORMS) # <<>> => Kind(PROXY_FORMS)[1] \notin ToSet(latest)
    /\ \A filing \in ToSet(feed[cik]), index \in BOOLEAN :
         filing.accession[1] = cik =>
           FilingDetailPage(filing.accession, TRUE, index) =
             [shows |-> "filing", cik |-> cik, filing |-> filing, documents |-> index,
              sections |-> filing.form \in SECTIONED_FORMS]

\* The page of a filing that is listed shows it: a listed filing can be opened
\* with its own number.
ListedFilingsOpen ==
  \A cik \in Ciks :
    \A filing \in ToSet(feed[cik]) :
      LET page == FilingDetailPage(filing.accession, TRUE, TRUE)
      IN  IF page.shows = "filing" THEN page.cik = cik ELSE FALSE
=============================================================================
