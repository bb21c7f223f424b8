# Verification of Data Dogs

TLA+ models of the parts of this repository whose correctness depends on order,
interleaving, failure or boundaries, the TLC runs that check them on small
instances, and theorems that TLAPS proves for every instance. The code is
quoted as `path:line` below `src/`.

## The system

Data Dogs is a monorepo: Python services that ingest SEC filings and build
identities, facts and statements from them, and a TypeScript web application
that serves the results.

| part | state it keeps | operations | talks to |
| --- | --- | --- | --- |
| job store (`services/ingest-sec/src/storage/job_store.py`) | one record per job: state, checkpoint, retries | create_or_get, mark_running, mark_progress, mark_failed, mark_finished, each under one lock | called by the jobs |
| raw store (`.../storage/raw_store.py`) | raw artifacts by checksum, staged filing headers and their keys, committed units | store_raw_artifact, stage_filing_headers, persist_checkpoint | called by the jobs |
| ingestion jobs (`.../jobs/*.py`) | a run's list of units and index | run, with load_units and process_unit per kind of job | both stores, the SEC client |
| SEC client (`.../client.py`) | the next allowed time, under a lock | get (throttle, send, retry, back off), get_json, download_file | the network |
| listing history (`services/id-master/src/listing_history.py`) | effective-dated rows per security | add_record, transition_listing, get_listing_as_of | callers |
| issuer, security, identifier masters (`services/id-master/src/`) | names, CIKs, mappings, effective-dated | upserts and point-in-time reads | callers |
| fact store, restatements (`services/parse-xbrl/src/fact_models.py`, `restatement_resolution.py`) | facts and chains of versions | store, resolve, read | dataset ingests |
| dataset ingests (`fs_dataset_ingest.py`, `notes_ingest.py`, `services/market-data/src/insider_ingest.py`) | staged rows and their keys | ingest a batch | stores |
| mapper, ratios, statement builders (`services/parse-xbrl/src/`) | none between calls | pure functions of facts | |
| peer benchmark (`apps/web/lib/api/peer-benchmark.ts`, `peer-benchmark-metrics.ts`, `app/peers/`) | the promise of SEC's ticker map; on the page, excluded peers and a sorted column | resolve a ticker, benchmark it, rank, chart, exclude, sort | SEC, the visitor |
| financials (`app/company/[companyId]/financials/`, `app/api/v1/financials/`, `lib/financials/analytics.ts`, `lib/sec/fundamentals.ts`) | none: SEC's company facts are read at each request | statement tables, growth, trends, margins, balance check, headline figures | SEC, the notes of `lib/api/notes.ts` |
| filings and companies (`lib/api/filings.ts`, `filing-detail.ts`, `company.ts`, their routes and pages) | none: SEC's submissions are read at each request | list, filter, page, open a filing, sum up a company | SEC |
| pay and insiders (`lib/api/compensation.ts`, `insiders.ts`, their routes and pages) | none | read tables out of proxies and ownership forms | SEC |
| screener (`lib/api/screener.ts`, its route and page) | a corpus in the source | normalise a query, filter, cut | |
| admin and status pages (`lib/api/admin.ts`, `comp-qa.ts`, `lib/status/snapshot.ts`) | a snapshot kept for a minute | fold the provenance ledger, compare raw and parsed pay, tell ages | the ledger of the pipeline |
| charts (`lib/charts/`, `packages/ui/src/components/charts/`) | none | validate, sum up, scale, draw | the pages |
| API keys (`lib/auth/apiKeys.ts`) | none: keys and log are tables | extract, verify, decide, log | the API (not wired yet) |
| proxy parsing (`services/parse-proxy/src/`) | none | text to tables and votes | |
| rate limiter (`apps/web/lib/auth/rateLimits.ts`) | a counter and window per bucket | check, peek, reset, sweep | the API (not wired yet) |
| signup and contact intake (`apps/web/lib/storage/`, `apps/web/app/api/v1/{signup,contact}`) | two JSONL files, a memory fallback | append, read, notify a webhook | file system, webhook |
| marketing pages, navigation, schema, infrastructure | none | | |

The components of `PROJECT.json` list all of these with their status. Two
processes hardly share anything: a store is an object in one Python process
whose threads share it, the web application is one JavaScript thread per
process.

### What is hard, and what makes each part correct

* **Jobs and stores.** Every store call is atomic, nothing is atomic across two
  calls, and a run can fail between any two of them or be interrupted past its
  handlers. Correct means: a checkpoint never runs ahead of committed work, a
  unit counts as committed only when all of it is staged, reprocessing stages
  nothing twice, runs resume and end.
* **SEC client.** Threads sleep in a shared lock. Correct means: the request
  budget holds under every interleaving, a call makes exactly the attempts it
  may, every call returns.
* **Identity history.** Records come out of order, late and twice, and answers
  carry a date of knowledge. Correct means: the past never changes and nobody
  is told what was not known yet.
* **Rate limiter.** Windows open at requests, not on a grid, and a sweep forgets
  windows. Correct means: a known bound on bursts, no refusal of a bucket under
  its budget, and a sweep nobody notices.
* **Fact stores and ingests.** Readers take no lock, recorders are interrupted
  between writes, a batch fails half way while others stage the same rows.
  Correct means: a chain of versions stays one chain, what a reader finds fits
  together, every staged row can be traced and a call that returned left none out.
* **Statement builders.** Rows come in any order, repeated and with gaps. Correct
  means: a trailing sum is of four consecutive quarters, as last reported.
* **Peer benchmark.** Requests overlap at every await and share one promise.
  Correct means: a failure is charged to those it concerns and to no one else.
* **Intake.** A line may be written in part, handlers and the admin page
  interleave at each await, a restart empties the fallback, a timer races the
  webhook's answer. Correct means: an answered lead is kept, the page shows each
  once, no delivery is claimed that did not happen, nobody is left waiting.

* **What the web app shows.** The same feed is read by several pages and
  endpoints, each with its own copy of the code, its own filters and its own cut,
  while the feed grows, restates earlier years and has documents that cannot be
  fetched. Correct means: the readers agree, the latest report counts, a
  figure is credited to whom it belongs, a walk over pages misses nothing, asking
  for more never finds more, and what is drawn adds up to the data.
* **Operators' pages and keys.** A ledger is folded row by row, three ways. Correct
  means: no failure is lost on the way, and the request log can be audited against
  the keys.

`PROJECT.json` lists the hazards one by one at their lines, with the property
that covers each or the reason none does.

## Modules

| module | models | used by |
| --- | --- | --- |
| `JobStore` | the job store | `RawStore` |
| `RawStore` | the raw store | `IngestJob` |
| `IngestJob` | `BaseIngestionJob.run` and process_unit over both stores | `MCIngestJob`, `MCIngestPartitions` |
| `ResumableJob` | abstract: what a job promises its operator | `IngestJob` (refinement) |
| `IngestJobProofs` | theorems about `IngestJob` | |
| `Selections` | the elements of a sequence at a set of positions, in order; the sum of a sequence | `IngestJob`, `DatasetIngest`, `PeerBenchmark`, `WebLists` |
| `SelectionProofs` | lemmas about positions of a sequence, sums and flattened lists | the proofs below |
| `SECClient` | `SECClient.get`, its throttle and its retry loop | `MCSECClient` |
| `SECClientProofs` | theorems about `SECClient` | |
| `ListingHistory` | the listing history and its point-in-time read | `MCRecords`, `MCListingHistory` |
| `RateLimiter` | the fixed-window limiter | `MCRecords` |
| `FunnelIntake` | the signup form, route handler, JSONL store with memory fallback, webhook and admin page | `MCFunnelIntake` |
| `FunnelIntakeProofs` | theorems about `FunnelIntake` | |
| `RestatementResolver` | chains of versions of a fact, their readers | `MCRecords` |
| `DatasetIngest` | ingest of insider filings and of statement datasets | `MCRecords` |
| `NotesStore` | ingest of a filing's notes and the counts it reports | `MCRecords` |
| `StatementBuilders` | the quarterly and the annual statement builder | `MCRecords`, `MCAnnualStatements` |
| `PeerBenchmark` | ticker resolution and the benchmark's parallel fetches | `MCRecords` |
| `RecordsProofs` | theorems about `RateLimiter`, `RestatementResolver`, `ListingHistory`, `DatasetIngest`, `NotesStore`, `StatementBuilders`, `PeerBenchmark` and the run `records` | |
| `WebLists` | the list operations of JavaScript (external) | the modules below |
| `CompanyFacts` | financials page, financials API, headline figures over SEC's company facts | `MCWeb` |
| `PeerView` | metrics, ranks, radar, table and insights of a benchmark, peers switched on and off | `MCWeb` |
| `FilingReads` | filings list, API and detail, company page and API over SEC's submissions | `MCWeb` |
| `Governance` | executive pay and insider activity, pages and API | `MCWeb` |
| `Screener` | screener page, API and query layer | `MCWeb` |
| `Operations` | admin pages, pay comparison, ingest status | `MCWeb` |
| `Charts` | the data behind the charts and their geometry | `MCWeb` |
| `ApiKeys` | authentication against keys that are issued and revoked, with its log | `MCWeb` |
| `WebProofs` | theorems about `Screener`, `ApiKeys`, `CompanyFacts`, `FilingReads` | |
| `AnswerProofs` | theorems about `Governance` and `Operations` | |
| `PeerProofs` | theorems about `PeerView` and `Charts` | |

`MCRecords` and `MCWeb` each check modules that share nothing in one run: a
behaviour examines one of them (`under`), so their states add up and do not
multiply.

Operators whose comment starts with "Variant:" are plausible bugs. No
specification uses them; they exist so that each property can be seen to fail
when the code is changed that way (`PROJECT.json`, "mutants").

### Ingestion: `JobStore`, `RawStore`, `IngestJob`

`records`, `artifacts`, `header_keys`, `headers`, `checkpoints` are the fields of
the two stores, one operator per method. A runner is a thread calling `run()` on
a job instance; `run[r]` holds its place between two store calls, its units, its
index and the payloads still to process. `Start` is create_or_get with the early
return, `BeginRun` is mark_running and the read of the checkpoint, `LoadUnits`
and `RejectCheckpoint` the list and the check against it, `StoreLatest`,
`StagePayload`, `StoreArchive`, `SkipUnnamed` and `CommitUnit` the statements of
the bulk job's process_unit (the plain submissions job is the case without
archives), `Progress`, `Finish` and `RecordFailure` the rest of the loop.
`ProcessRaises` is an exception of a fetch or a parse and `Interrupt` a
BaseException anywhere. A payload stands for its checksum, a timestamp for
whether it is set. `_parsed_payload_cache` and log calls are left out.

Bounds: `MaxRetryCount` limits how often a unit may fail. Overlap needs two
runners; two units and a list of one show positions beyond a list; three payloads
make a latest payload with an archive, a blank archive name, a payload served for
two units and one that changes between fetches.

Fairness: weak fairness of each runner's own steps. A thread that holds no lock
and waits for no one goes on; fetches end because the client bounds its timeouts
and attempts. Nobody has to call `run()`, and `Interrupt` and `ProcessRaises`
are never forced.

### SEC client: `SECClient`

`next_allowed` and `holder` are `_next_allowed_time` and `_rate_lock`; each
thread has a place in `get`, its attempt and the clock value `_throttle` last
read (`seen`), because the clock moves between reading it and using it. The
request goes out (`Send`) after the lock is released, as in the code. Leaving the
throttle's loop (`LeaveLoop`) and moving the next slot (`Permit`) are two steps,
so that without the lock a second thread could leave on the same slot. `permits`
and `requests` are history. Sleeps may end at any time: the throttle's loop
re-reads the clock, and a backoff's length matters to no property. A dropped
connection is an answer of its own since urllib raises it as a different
exception.

Bounds: `MaxCalls` calls per thread, `Slack` ticks of clock beyond the throttle.
The run has one call per thread: the two calls overlap, and `CallsReturn` is about
each of them, not about a thread that calls again. Two retries and an interval of
two ticks let a thread be overtaken between its permit and its request and fail at
each attempt. Fairness: the clock
and each thread; the lock picks any waiter.

### Listing history: `ListingHistory`

`listings[s]` is the list of rows of one security. `Added` is add_record with its
test for duplicates and its stable sort, `OpenClosed` and `TransitionListing` are
transition_listing, `ListingAsOf` the read. Dates are numbers; `MaxListings` bounds
the rows. Three dates and two listings allow late, repeated and out-of-order
calls and a security that returns to an earlier listing.

### Rate limiter: `RateLimiter`

`windows` is the map from bucket to window, `admitted` the history of admission
times since the last reset. A bucket has one tier, as one API key has. `MaxTime`
bounds the clock: seven ticks hold three windows of the larger quota.

### Signup intake: `FunnelIntake`

A record is a visitor's n-th submission. `form` is what the visitor sees,
`handler[r]` the await at which the route handler of a record stands. `file` is a
list of lines, each a sequence of fragments: a write may be whole, fail, or stop
short and leave a part of the line without its newline, which the next write then
continues (`unended`). A part that lacks only its newline still parses until
something follows it. `Rows` is readJsonLines: one bad line, or a failed read,
and the readers answer as if the file were empty. `memory` is the fallback; a
`Restart` empties it and ends the handlers and the page. `configured` says
whether a webhook URL is set. The receiver may get a POST after the timer ended
the wait. The route's 500 is unreachable, since neither the store nor the webhook
call throws; the contact route is the same code on another file. `answered`,
`lost` and `short` are history.

A short write hides every record of the file from the page as soon as a line is
not one whole record, including records written later with success. Their text is
kept, which is what `AnsweredKept` says; `PageComplete` is claimed only while no
write stopped short. The run checks the two and `ReportedReceived` as `AnswersTrue`.

Bounds: `MaxAttempts` submissions per visitor, `MaxRestarts` restarts. One
visitor with two submissions already has two handlers at once (the form allows
another try after an error while the first request still runs), which is all the
interleaving the store and the page can tell apart. Fairness: each handler, since
file operations end and the timer fires; none of the receiver, the visitor or
the network.

### Fact stores: `RestatementResolver`, `DatasetIngest`, `NotesStore`

In `RestatementResolver` a fact stands for its version id, a hash of its filing,
key and value. `versions`, `history` and `current` are the resolver's three maps;
`record_fact` writes them one after the other under its lock (`SaveVersion`,
`AppendHistory`, `ResolveCurrent`), so a reader, who takes no lock, may run
between any two, and walks the live list (`ReadVersion`) while it grows. An
interrupt releases the lock and leaves the writes done so far. A recorder
interrupted after it saved a version leaves it out of the history for good, since
a rerun returns the saved version: `ChainUnbroken` is claimed while that has not
happened (`torn`), `ReadsCoherent` always.

In `DatasetIngest` a dataset stands for its checksum. A call stores the raw
payload, records the insider, then stages rows under natural keys: insiders' rows
one by one, each under the lock, statement rows all under one. A malformed row
raises and leaves what was staged before it; a call may be interrupted between two
calls of the store. In `NotesStore` a call counts the store before and after
its notes without the lock.

Bounds: one key with three versions (the last restates the first value) beside
another key, two threads per store and one reader give every order of two
recorders around a reader. The datasets have a malformed row in the middle, a
correction that also changes an earlier value, a repeated key and an insider
without a name. No liveness is claimed of these stores.

### Statements: `StatementBuilders`

`ReadRow` is one round of `_build_series`'s loop, `grouped` its dictionary; `Build`
is `_compute_ttm` together with build_annual_statements on the same rows.
`TtmOfLastReports` defines the sum anew, from the rows and with quarters counted
from year zero. Amounts are integers: the rounding of floats is left out.
`MaxRows` bounds a build: five rows hold a chain of four across the year's end
and a fifth row that repeats, breaks or pretends to fill it.

### Peer benchmark: `PeerBenchmark`

`ticker_map` is the state of the promise in `cachedTickerMap`; a request awaits it
only for a ticker outside the bundle. What follows the settling of a promise runs
before anything else in the process, so `MapArrives` and `MapFails` move every
waiting request in one step. `SettledFacts` is the Promise.all of the target and
its peers. SEC's list is a constant: the map is fetched once per process, and a
ticker listed later stays unknown until a restart. Two requests, three bundled
companies of one industry with at most two compared, and companies that are listed
only, without an industry, or unknown, show each way through the code.

### Company facts: `CompanyFacts`

`facts[c]` is the list of points of a concept as SEC serves it, by the end of the
period and then by filing; `FileAnnual` and `FileQuarter` are what an issuer may
add: an annual report, original or amended, may repeat the year before with another
amount, name the year in `fy` or not, and move its revenue to another concept; a
quarterly report must not be taken for an annual one. The page's reading
(`ConceptUsed`, `ValuesByYear`, `Years`, `Consistency`) and the API's own copy of it
(`CollectMetricValues`, `SelectYears`, `SummarizeConsistency`, `RestrictToYears`)
are two sets of operators, as they are two pieces of code: `ApiMirrorsPage` compares
what comes out. `FinancialsPage` is the page with each view, `HeadlineCards` the
company page's figures. A filing date is the count of reports, so no two share one.
Two reports of two years with amounts for a page of two columns and an API of three
show restatement, a change of concept, a gap between years and a base of zero.

### Filings: `FilingReads`

`feed[cik]` is SEC's submissions list, the newest first; `File` adds to it, by the
issuer or by an agent whose number the accession then starts with. A client's walk
through the pages of the API (`BeginWalk`, `NextPage`, `EndWalk`) interleaves with
filings; a failed request repeats. `GetFilings` is the query with the lists' filter
and cut, `FilingsPage`, `FilingDetailPage`, `CompanyPage` and `GetCompanies` what the
pages and routes make of it. `MaxRows`, `MaxRecent` and the page sizes are the
code's constants made small. The run files one filing more than the list may hold
(`MaxFiled` is `MaxRows` and one), so that the list and the overview of a company
leave one out, and a walk in pages of one has two to read; a page of the largest
size holds the whole list there. The theorems (`WalkIsComplete`,
`ViewsShowOneFeed`) are for any values.

### Pay and insiders: `Governance`

A table row is what the parser's expressions find in its cells: whether it is a
header and of which table, the text of the name cell, years, amounts. `ReadRow` is
the loop of the proxy parser with the name it carries from row to row; `Compensation`
and `Insiders` go over the newest documents, of which any may fail, and order, filter
and cut. The tables of the run have blank name cells, labels in place of names, a
second table below the first, two years in a row, an amount in two rows. Of several
reporting owners the code reads the first, and so does the model.

### Screener: `Screener`

`params` is the text of an address's parameters: missing, a figure, blanks, or no
number. The page reads them by `ParseActiveFilters`, the API by
`NormalizeScreenerQuery`, which refuses what the page overlooks; both filter with
`MatchesScreenerFilters`. The corpus has rows with zero and with nothing in a field.

A blank text (`?minMarketCap=%20`) is where the two differ on an address that both
accept: the API trims it and sets no limit (`screener/helpers.ts:67`), the page reads it
by `Number` as a limit of zero (`screener/page.tsx:137`), although the comment above it
(line 135) has it return "`undefined` for empty/invalid values". `PageMirrorsScreenerApi`
covers these addresses and says exactly this: the page applies the API's filters and a
zero for each blank, so that it may leave out rows the API serves and never adds one.

### Admin, comparison, status: `Operations`

`ledger` is the provenance table, written by nobody in this repository yet, in any
order of times; `Folded` is a round of getAdminJobs. `qa` is the sample of the pay
comparison, or one shifted or inconsistent; `snapshot` the cached status, whose
figures are the sample the code holds, at their distance from the clock; banner, tables and
badge read that one value, so the substance of `OperatorsSeeAll` is the fold of the ledger. Three rows
let a job fail, run and complete in any order.

### Charts: `Charts`

A dataset grows entry by entry; each chart's validator says from when on it is fit
to be drawn, and `ChartsTellTheData` speaks of those. Lengths are shares of the plot
as pairs of integers and percentages are rounded as the code rounds them. A bridge is
measured in pixels, since its bars are at least one pixel high
(`MarginBridgeWaterfall.tsx:163`).

Two figures are not drawn as large as they are, and `DrawnToScale` says so in place of
claiming the contrary. A step of a bridge that is less than a pixel is drawn one
pixel high; at the foot of the plot, as a step of zero on the base line is, it passes the
foot by that pixel, which no other bar does. A negative figure of a small multiple gets a
rectangle of negative height (`FundamentalsSmallMultiples.tsx:162`), which is not drawn:
those panels' bars lie within the plot whose figures are not negative, and no others. Its
validator (`validateFundamentalSeries`) does not refuse such a series, and nothing in the
repository says how it should look. The run has steps of zero, of less than a pixel and
of more, up and down, and a series with a negative figure.

### API keys: `ApiKeys`

`GenerateApiKey`, `Revoke` and `Request` take a tick of the clock each, so that the
log orders requests against issue and revocation. A request may carry a bearer token,
an `x-api-key`, both or neither, and either may not have the shape of a key.

### Peer page: `PeerView`

`Load` renders a benchmark: the target, its peers in order and the size of the
universe; `TogglePeer` and `ToggleSort` are the visitor's. `DeriveMetricsFromFacts`
computes a company's metrics from its points, `Rank`, `Radar`, `PeerTable`,
`Insights` and `QuickTake` what is shown. Ratios are pairs of integers and compared
exactly. The companies of the run have negative equity, debt under two concepts, a
prior year of zero, quarters without a year, equal figures and missing ones.

## Runs

| run | checks | shows |
| --- | --- | --- |
| `ingest_jobs` | TypeOK, CheckpointSound, FinishedComplete, StagingSound, RunsEnd | two overlapping runs of one job, failures, interrupts, lists that shrink and grow, a payload that changes |
| `ingest_partitions` | PartitionsSound, ExclusiveJobsResume | a bulk backfill split by hash over two jobs with one instance each: each implements `ResumableJob`, and together they cover the issuers. Two overlapping runs of one job are the matter of `ingest_jobs` |
| `ingest_reopened` | FinishedIsFinal, violated | see Findings |
| `sec_client` | TypeOK, RateBudget, RetriesExhausted, PermitsSpaced, CallsReturn | two threads sharing a client |
| `sec_client_network` | NetworkErrorsRetried, violated | see Findings |
| `funnel_intake` | TypeOK, AnswersTrue, SubmissionsAnswered | overlapping submissions, short writes, a late receiver, a restart |
| `records` | TypeOK; BurstBound, RefusedOnlyOverBudget, SweepHarmless (limiter); ChainUnbroken, ReadsCoherent (restatements); RowsAccountedFor, RerunsStageNothing (ingests and notes); AnswersStand (listings); TtmOfLastReports; PeersAccounted, EarlierFailuresForgotten (benchmark) | threads on each store, interrupts, malformed rows, lock-free readers, every sequence of up to three listings and five quarterly rows, two overlapping benchmarks with failing fetches, two buckets under all timings |
| `listing_lookahead` | TransitionKeepsKnowledge, violated | see Findings |
| `annual_statements` | AnnualRowsShown, violated | see Findings |
| `web` | LatestReportShown, ApiMirrorsPage, TablesCoherent (facts); OneStory (peers); WalkMissesNothing, ViewsAgree (filings); PayAnswersSound, RoleAnswersConsistent (governance); PageMirrorsScreenerApi, TighteningNarrows (screener); OperatorsSeeAll; ChartsTellTheData; LogMatchesKeys | pages and endpoints over the same feeds, whichever way they are read |
| `listed_filings` | ListedFilingsOpen, violated | see Findings |
| `headline` | HeadlineMostRecent, violated | see Findings |

A property that is a conjunction (`StagingSound`, `AnswersTrue`, `AnswersStand`,
`RowsAccountedFor`, `OneStory`, `OperatorsSeeAll`, `ChartsTellTheData`, ...) names
its parts in its module, each with a comment of its own.

`MCWeb*.cfg` turn the deadlock check off: feeds, ledgers and datasets are bounded,
nothing waits for anything else, and a behaviour ends where its bound is reached. No
other run does: a runner can always be started, a client that has made its calls
stutters by `Done`, a history can always be read, a bucket can always be reset, the
admin page can always be opened, a store, a builder and a benchmark can always be
called again.

## Findings

* **A finished job can be reopened** (`ingest_reopened`). `run()` takes the lock
  twice, in `create_or_get` and in `mark_running`, and the second does not look at
  the state it overwrites (`services/ingest-sec/src/jobs/base.py:41`). A run that
  saw the job unfinished reopens it after another run finished it, against the
  comment at `base.py:37` and `docs/architecture/ingestion-jobs.md:44`. The
  data stay sound: CheckpointSound and FinishedComplete hold all the same.
* **Dropped connections are not retried** (`sec_client_network`). A connection
  that is dropped while the answer is awaited or read is not a `URLError`
  (`services/ingest-sec/src/client.py:95`), against
  `docs/operations/sec-client.md:38`.
* **A transition leaks into the past** (`listing_lookahead`). The open row is
  closed in place with its old recorded_at
  (`services/id-master/src/listing_history.py:80`), so an answer with an earlier
  date of knowledge changes once a transition is recorded, against
  `docs/daily/day-19.md:27`.
* **Annual statements are always empty** (`annual_statements`). `as_number` ends
  after its docstring, and its body landed in a function that a later definition
  replaces (`services/parse-xbrl/src/statement_builder_annual.py:144`), so the
  filter of line 71 drops every row, against the docstring of line 55 and
  `docs/daily/day-35.md:16`. The quarterly builder overwrites the result with its
  own parser's and works.
* **Listed filings that do not open** (`listed_filings`). The detail page takes the
  first ten digits of an accession number for the issuer
  (`apps/web/lib/api/filing-detail.ts:143`, with the comment at line 138); they are
  the account that submitted the filing. A filing submitted by a filing agent is
  listed with a link to a page that cannot find it.
* **An old figure in the headline** (`headline`). The first concept with any annual
  fact wins (`apps/web/lib/sec/fundamentals.ts:138`), so an issuer that moved to a
  later concept of the list keeps its figure of the year before, against line 49,
  "Most-recent annual value in USD".

## Proofs

Each theorem below is `Spec => []Property`, or `Spec => Property` for an action
property, with the specification of the component and for every value of its
constants. Properties that are not inductive follow from an invariant that is; the
paragraphs name it and say why it is needed.

| module | proves |
| --- | --- |
| `IngestJobProofs` | TypeOK, CheckpointSound, FinishedComplete, StagingSound, PartitionsSound, ExclusiveJobsResume |
| `SECClientProofs` | TypeOK, RateBudget, PermitsSpaced, RetriesExhausted |
| `FunnelIntakeProofs` | TypeOK, AnswersTrue |
| `RecordsProofs` | LimiterTypeOK, BurstBound, RefusedOnlyOverBudget, SweepHarmless, TypeOK, ResolverTypeOK, ReadsCoherent, ChainUnbroken, AnswersStand, RowsAccountedFor, RerunsStageNothing, TtmOfLastReports, PeersAccounted, EarlierFailuresForgotten |
| `WebProofs` | LatestReportShown, ApiMirrorsPage, TablesCoherent, WalkMissesNothing, ViewsAgree, PageMirrorsScreenerApi, TighteningNarrows, LogMatchesKeys |
| `AnswerProofs` | PayAnswersSound, RoleAnswersConsistent, OperatorsSeeAll |
| `PeerProofs` | OneStory, ChartsTellTheData |

**Ingestion.** A checkpoint is written from a run's index, so `IInv` also says of
every run that the units before its index are committed, that a run past its commit
has committed the unit in hand, and that the index lies within the run's list. Lists
that disagree on a position would break it, which is what the assumption `ListsAgree`
rules out: a checkpoint is a position, and the code relies on it to mean the same unit
in every instance of a job. `StagingSound` needs `StagingInv`: whatever a unit's payload
asks for is in the store or still owed by the run that has the unit in hand, and a
header is staged only under a key that the store knows. `ResumeInv` says that a job which
one instance runs is at its stored checkpoint at every place of `run()`; from it come
the first part of `PartitionsSound` and, action by action, the refinement of
`ResumableJob` (`ExclusiveJobsResume`): every step moves the abstract job or leaves it.
The second part of `PartitionsSound` is about the jobs of a bulk backfill, so its theorem
has a hypothesis, `Partitioned`: the jobs have the partitions of one list of issuers, one
index each and no index without a job. For any issuers and any hash of them, every unit
is then on the list of one job and of no other (`PartitionsDivide`); the jobs of the run
`ingest_partitions` are of this kind, with two partitions.

**Rate limiter.** Two facts carry the proof: the requests a window counted are the last
ones admitted, and a window opens only a whole window after the request `limit` places
before its first one. Given both, a request and the one 2 * limit - 1 places later cannot
lie in less than a window: between them lies the first request of a window and the one
`limit` places before it. A sweep keeps the second fact because a window closed for every
tier is closed for the bucket's own.

**SEC client.** The budget is not inductive. Its invariant says that a thread inside the
throttle holds the lock, so only one moves `next_allowed`; that the clock value which
let it out of the loop is still past the slot it waited for; that each permit took an
interval off the time up to `next_allowed`; and that the permits are the requests sent
plus the threads about to send. The retry bound needs that a call has no result before
it returns.

**Restatements.** Three invariants build on each other. A recorder at work holds the
lock. The history names only versions that are there and holds whatever is current, and
what a reader has read is the beginning of the history: recorders only add, so their
steps leave this standing. And while no write was cut off, what a recorder looked up
still ends the history, so the version it saves continues the chain.

**Intake.** `KeptInv`: a handler past its append has its record in the file, in memory,
or among those a restart lost. `ReportInv`: nothing is reported of a delivery that was
not posted. While no write stopped short, `StoreInv` says that the file is whole lines
of one record, each written once, by its own handler, in the file or in memory; and
`PageInv` that what the admin page read of the file is still there and what it has yet to
show is in the memory it reads next. The page reads the file before the memory, and a
record goes to one of them once, so it finds no record twice and misses none that was
answered before.

**Listings.** `HistoryInv` is the order of the rows: a sort of sorted rows and one more
puts that row behind all that do not begin later (`SortedInInserts`, `PlaceInOrder`), so
an insert shifts the later rows by one and the answer to a question is the same row as
before unless the new one is known and in force (`InsertedUnseen`, and `ClosedAt` for
the row a transition closes).

**Dataset and note ingest.** `IngestInv` says of each call under way that its dataset is
stored and that the rows it has gone through are staged under their keys, and of the
store that a row staged stands in a stored dataset. Then a call that returns has left no
row out, and one that comes later finds every key. `NotesInv` keeps the links in step
with the notes stored, and says of a call that the store grew since it read the sizes by
what it added itself at least, and by that alone if no other call ran beside it.

**Benchmark.** `BenchmarkInv` ties a request to its fetches: each company it asked for is
pending, fetched or failed, an answer comes only with its own company fetched, and its
two lists together are as long as the list of peers and name every one of them. That
nobody is named twice follows from the companies of the universe being different.

**Statement builders.** `BuilderInv` ties each series to the rows read so far: the amount
of a period is that of the last row that reported it. Numbering the quarters without
gaps then makes the four quarters of a trailing year the four numbers up to its own.

**Web app.** `SameFilter`: the page and the API read the same limits from an address that
both take as it is. `KeysInv` has each entry of the log true of the keys as they were at
its request; a key issued or revoked later has a later time. `FactsInv` says of a feed
that no point was filed after the last report, that a concept has one point per report
and period, and that the years are finitely many, so that the page and the API, which
choose by different rules, choose the same point. `ReadsInv` is about a walk over the
pages of filings while new ones are filed: of the list as it is now, those the client has
gone past and that were listed when it began are among those it got. A filing that
arrives moves the others down by one, so a page boundary may repeat a filing and cannot
drop one. Each filing of a feed has a number of its own, which is why its page finds it.
For `TablesCoherent`, a trend is the years that have a figure in their order, so that
neighbours in it are neighbours among those years; if there is no gap the changes
telescope (`ChangesAddUp`). The card of a company page and the table may choose different
points of a year, and the table's is the one filed last.

**Pay and insiders.** Each reader takes the same rows and selects, orders, flattens and
cuts them, so the proof is about these four. `StableSort` is the bijection of positions
that keeps equals as they were: a filter may be applied before it or after it
(`SortSelected`), and the cut then counts what the filter left. In a flattened list each
element has a place in one part, and the places of a part are in order
(`FlatPart`): what a document adds is there as it was, and what a failed one would have
added is all that is missing. The name of a row of pay is that of the last row above it
that has one. `ParseProxy` goes through a table row by row, and what it holds after n
rows is proved by induction on n. The history takes the latest row of a person and year,
the first of them if there are several; a selection that keeps that row keeps it first.

**Operators.** `OperationsInv` types the ledger. A job is folded from its rows, and by
induction over them it has failed if one of them did, started no later than any, and is
finished exactly if its state says so (`JobTells`). The failures by parser are counts
by key of a list, which add up to its length (`CountsAddUp`), in whatever order they
are shown.

**Peer page.** A ratio is a pair with a positive denominator, and of two figures one is
below the other exactly if their cross products say so; that this is an order
(`FiguresOrdered`) is where the products of three unknowns are cancelled, once. A group
then splits into the figures below one, those equal to it and those above, so that a
better figure has more of them below it and its rank is higher. That the ranks of a group
add up to half its ordered pairs is double counting: the pairs with the first below the
second, counted by either (`CountBothWays`), once for each figure and once for the ranks.
A median is a figure of the sorted list or the average of two neighbours in it, hence
between figures of the list; ranks, rounding and the clamping to the ring keep an order,
so that the median drawn is between ranks drawn. A table sorted by a metric is its peers
rearranged in that order (`StableSort`). `ViewInv` types the page: the metrics of at most
one company more than the universe has, and none but peers excluded.

**Charts.** `ChartsInv` says only that a dataset is made of what its chart may be made
of; the rest is about what is drawn of it, chart by chart. A rounded share misses its
exact one by half a unit at most, and these halves are summed along the stack
(`SharesAddUp`); that the stacks' totals and the components' totals are one sum is
double counting again (`SumSwap`). A heatmap adds up because each cell of a role has one
place in that role's row and every other place shows zero (`LineAddsUp`), which is where
the validator's refusal of a second cell for one place is needed. Of the largest change
of a restatement, as of the levels of a bridge, the code's loop is taken step by step
(`MaxesTell`, `PositionsAre`). The peers' multiples are sorted, so those below the median
are found among the places before the middle and those above it among the places after
(`FoundWithin`). A bridge's bars and a sparkline lie in the plot since the scale's ends
are the extremes of what is drawn (`BarFacts` has what the least height of a pixel adds),
and a panel's bars of figures that are not negative do since rounding its top up does not
lower it (`NiceMaxIs`).

`SelectionProofs` holds what these proofs share: the least and the last number of a set
of positions, how many positions lie below another, what `AtPositions` returns, in
which order and how many, what sums and flattened lists are, and that a relation counted row
by row and column by column gives one number. Filters are written with `AtPositions`
where a theorem is about them, since `SelectSeq` has no definition that the provers can use.

The assumptions are those the modules name: `RunnersAssumption`, `ListsAgree`,
`HeadersInAssumption`, `ConfigAssumption`, `QuotaAssumption`, `ResolverAssumption`,
`IntakeAssumption`, `TimesAssumption`, `IngestAssumption`, `NotesAssumption`,
`BuildersAssumption`, `BenchmarkAssumption`, `KeysAssumption`, `FactsAssumption`,
`ReadsAssumption`, `ScreenerAssumption`, `GovernanceAssumption`,
`OperationsAssumption`, `ViewAssumption`, `ChartsAssumption`. TLC evaluates each in a passing run. They give
the constants their types, say what is finite and keep the values that stand for nothing
apart from the others. Those that say more are about constants of the code:
`ListsAgree`, explained above; in `FactsAssumption`, that the page shows no more years
than the API and that assets, liabilities and equity are on the balance sheet; in
`ReadsAssumption`, that the company page lists no more filings than a page of the API may
(8 and 100) and that tickers, issuers and agents have no identifier in common; in
`ScreenerAssumption`, that the page offers one bound of each figure; in
`BenchmarkAssumption`, that no company is in the universe twice; in `ViewAssumption`, that
the peers of a page are no more than its universe counts, which they are taken from
(peer-benchmark.ts:228); in `ChartsAssumption`, that no role is twice in the heatmap's
order of roles (insiderHeatmap.ts:38) and that the threshold of materiality is positive (5
per cent, and no caller asks for another). Besides them only `Partitioned` is assumed, by
one theorem.

Only model-checked:

* Liveness (RunsEnd, CallsReturn, SubmissionsAnswered), which is out of the prover's
  reach. Every other property of the passing runs is a theorem.

What a fold computes is proved where it is written as a function of the number of
elements read, f[n] by f[n - 1], by induction over 0 .. n (`UpTo`). The library's
folds and `SelectSeq` are defined by recursion that the provers do not unfold, which is
why the modules with theorems write their own loops and filters this way.

The properties of the runs that expect a violation are not theorems: the code breaks
them.

## Plan

1. Done: ingestion core with its abstraction, SEC client, rate limiter, listing
   history, signup intake, fact stores, statement builders, peer benchmark, the web
   app's pages and endpoints over their feeds; theorems for every safety property that
   a passing run checks.
2. The rest of id-master (issuers, securities, identifier map) and the XBRL fact
   store (`fact_models.py`), with the check outside its lock; download_file and the
   metadata of the companyfacts and frames jobs.
3. Vote outcomes of proxy statements and insider transaction codes of the services.

## Not modelled

* Declarations and plumbing: the SQL schema (no code writes it yet), logging,
  health checks, infrastructure, request and response types.
* Presentation: marketing, pricing, overview and documentation pages, navigation and
  footer, the share image, colours, labels, number formats. The colour of a peer's
  polygon is by its place among the peers switched on and that of its swatch in the
  table by its place among all; nothing in the repository says that they match.
* Text extraction: the expressions that find cells in the HTML of a proxy and
  elements in the XML of an ownership form, and the parsing of proxy statements in
  `services/parse-proxy`. Their outcome is an input of the models.
* Code no page or route uses: `getQaFactView`, `buildPeerComparison`.
* Small remainders of modelled parts: `get_json` and `download_file` of the SEC
  client, the metadata of the companyfacts and frames jobs, the search of issuers by
  name, the contact form's twin of the signup code, the order and the cut of the
  signups page, hashing and formatting of API keys.
* The issuer, security and identifier masters and the XBRL fact store, which have the
  shape of the listing history and of the restatement resolver.
* Floats: amounts are integers and ratios exact; rounding is modelled where a
  property is about it.

Crashes of a whole Python process lose every in-memory store at once, so there is no
state for a restart to find; the interrupt of a run is the crash that matters.
