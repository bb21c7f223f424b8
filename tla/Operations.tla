----------------------------- MODULE Operations -----------------------------
(***************************************************************************)
(* What operators and visitors are told of the pipeline: the admin pages   *)
(* over the provenance ledger (apps/web/lib/api/admin.ts, app/admin), the  *)
(* comparison of raw and parsed pay (lib/api/comp-qa.ts, app/admin/qa) and *)
(* the ingest status (lib/status/snapshot.ts, app/status, app/layout).     *)
(* The ledger is external (lib/db/provenance.ts stands in for the          *)
(* database): rows are added as jobs fetch, of which each reader makes its *)
(* own picture.  A status or parser version is the set of the words the    *)
(* readers look for in it.  Times are seconds.                             *)
(***************************************************************************)
EXTENDS WebLists

CONSTANTS JobIds, Statuses, ParserVersions, Times,
          QaSamples, \* raw and parsed pay rows that may be compared
          Clock,     \* when the status is asked for
          MaxLedger  \* bound: rows in the ledger

ASSUME OperationsAssumption ==
  /\ Times \subseteq Int /\ NoValue \notin Int \cup JobIds
  /\ \A sample \in QaSamples : /\ sample.raw \in Seq(ToSet(sample.raw))
                               /\ sample.parsed \in Seq(ToSet(sample.parsed))

VARIABLES ledger,  \* rows in the order they were written
          qa,      \* the pay rows behind the comparison
          snapshot \* the cached ingest status

operationsVars == <<ledger, qa, snapshot>>

OperationsInit == ledger = <<>> /\ qa \in QaSamples /\ snapshot = NoValue

WriteLedger(row) ==
  /\ Len(ledger) < MaxLedger
  /\ ledger' = Append(ledger, row)
  /\ UNCHANGED <<qa, snapshot>>

------------------------------------------------------------------------------
MapParser(version) ==
  IF "proxy" \in version THEN "proxy" ELSE IF "xbrl" \in version THEN "xbrl" ELSE "sec"

MapJobState(status) ==
  IF {"fail", "error"} \cap status # {} THEN "failed"
  ELSE IF {"run", "process"} \cap status # {} THEN "running"
  ELSE IF {"queue", "pending"} \cap status # {} THEN "queued" ELSE "completed"

Unfinished == {"running", "queued"}
Earlier(s, t) == IF s < t THEN s ELSE t

\* Variant: a row still under way reopens a failed job.
FoldedReopening(job, row) ==
  LET state == MapJobState(row.status)
      seen  == [job EXCEPT !.startedAt = Earlier(@, row.fetchTimestamp), !.state = state]
  IN  [seen EXCEPT !.finishedAt = IF state \in Unfinished THEN NoValue ELSE row.fetchTimestamp]

\* A job's next row: a failure sticks, a row still under way reopens the job.
Folded(job, row) ==
  LET state == MapJobState(row.status)
      seen  == [job EXCEPT !.startedAt = Earlier(@, row.fetchTimestamp)]
      later == job.finishedAt = NoValue \/ row.fetchTimestamp > job.finishedAt
  IN  IF state = "failed" THEN [seen EXCEPT !.state = state, !.finishedAt = row.fetchTimestamp]
      ELSE IF job.state = "failed" THEN seen
      ELSE IF state \in Unfinished THEN [seen EXCEPT !.state = state, !.finishedAt = NoValue]
      ELSE [seen EXCEPT !.state = state,
                        !.finishedAt = IF later THEN row.fetchTimestamp ELSE @]

FirstSeen(row) ==
  LET state == MapJobState(row.status)
  IN  [id |-> row.jobId, state |-> state, parser |-> MapParser(row.parserVersion),
       startedAt |-> row.fetchTimestamp,
       finishedAt |-> IF state \in Unfinished THEN NoValue ELSE row.fetchTimestamp]

RowsOfJob(id) == Where(ledger, LAMBDA row : row.jobId = id)

JobOf(rows) ==
  LET job[n \in 1 .. Len(rows)] ==
        IF n = 1 THEN FirstSeen(rows[1]) ELSE Folded(job[n - 1], rows[n])
  IN  job[Len(rows)]

\* getAdminJobs, the rows of the jobs page.
GetAdminJobs ==
  LET Job(row) == JobOf(RowsOfJob(row.jobId))
  IN  StableSort(Mapped(FirstOfEach(ledger, LAMBDA row : row.jobId), Job),
                 LAMBDA a, b : a.startedAt > b.startedAt)

\* getFailedArtifacts: NoValue filters nothing.
GetFailedArtifacts(job, parser) ==
  LET Artifact(row) == [jobId |-> row.jobId, parser |-> MapParser(row.parserVersion),
                        fetchTimestamp |-> row.fetchTimestamp]
      failed == Where(ledger, LAMBDA row :
                  /\ MapJobState(row.status) = "failed"
                  /\ job \in {NoValue, row.jobId}
                  /\ parser \in {NoValue, MapParser(row.parserVersion)})
  IN  StableSort(Mapped(failed, Artifact), LAMBDA a, b : a.fetchTimestamp > b.fetchTimestamp)

GetParserFailureSummary(job, parser) ==
  LET failed == GetFailedArtifacts(job, parser)
      One(a) == [parser |-> a.parser,
                 failures |-> Cardinality({i \in DOMAIN failed : failed[i].parser = a.parser})]
  IN  StableSort(Mapped(FirstOfEach(failed, LAMBDA a : a.parser), One),
                 LAMBDA a, b : a.failures > b.failures)

AdminJobsPage(admin)      == IF admin THEN GetAdminJobs ELSE NoValue
AdminArtifactsPage(admin) == IF admin THEN ledger ELSE NoValue

------------------------------------------------------------------------------
\* getCompQaView: a parsed row against the raw row it names, sums and totals.
Total(row) == row.salary + row.bonus + row.equity

Discrepancies ==
  LET RawOf(p) == Where(qa.raw, LAMBDA r : r.rowId = p.trace)
      Issues(p) ==
        LET raw == RawOf(p)[1]
            Issue(if, issue) == IF if THEN <<[rowId |-> p.rowId, issue |-> issue]>> ELSE <<>>
        IN  IF RawOf(p) = <<>> THEN Issue(TRUE, "missing_trace")
            ELSE Issue(Total(raw) # raw.total \/ Total(p) # p.total, "component_mismatch")
                   \o Issue(raw.total # p.total, "total_mismatch")
  IN  Flat(Mapped(qa.parsed, Issues))

\* Both tables mark the rows whose id is listed.
AdminQaPage(admin) ==
  LET listed == {d.rowId : d \in ToSet(Discrepancies)}
      Marked(rows) == {row.rowId : row \in ToSet(rows)} \cap listed
  IN  IF ~admin THEN NoValue
      ELSE [raw |-> Marked(qa.raw), parsed |-> Marked(qa.parsed), list |-> Discrepancies]

------------------------------------------------------------------------------
\* computeSnapshot, a sample anchored to the clock: how long ago each form was
\* ingested last, and the ten latest jobs.
ComputeSnapshot(now) ==
  [generatedAt |-> now, latestIngestAt |-> now - 240,
   jobsLast24h |-> [total |-> 312, finished |-> 305, failed |-> 7],
   formTypeFreshness |-> [form \in {"10-K", "10-Q", "8-K", "DEF 14A", "4", "S-1"} |->
      now - CASE form = "10-K" -> 720 [] form = "10-Q" -> 420 [] form = "8-K" -> 240
              [] form = "DEF 14A" -> 2280 [] form = "4" -> 120 [] form = "S-1" -> 14400],
   recentJobs |-> [i \in 0 .. 9 |->
      [startedAt |-> now - ((i + 1) * 660 + (i % 3) * 7),
       state |-> IF i = 4 THEN "failed" ELSE IF i = 0 THEN "running" ELSE "finished"]]]

\* getStatusSnapshot: good for a minute, for every page that shows it.
GetStatusSnapshot(now) ==
  /\ snapshot = NoValue \/ (snapshot # NoValue /\ now - snapshot.generatedAt >= 60)
  /\ snapshot' = ComputeSnapshot(now)
  /\ UNCHANGED <<ledger, qa>>

\* formatLatestIngest: seconds, minutes, or from an hour on the time of day.
FormatLatestIngest(at, now) ==
  LET age == IF now > at THEN now - at ELSE 0
  IN  IF age < 90 THEN <<"seconds", age>> ELSE IF age < 3600 THEN <<"minutes", age \div 60>>
      ELSE <<"time", at>>

FormatRelative(at, now) ==
  LET age == IF now > at THEN now - at ELSE 0
  IN  IF age < 60 THEN <<"seconds", age>> ELSE IF age < 3600 THEN <<"minutes", age \div 60>>
      ELSE IF age < 86400 THEN <<"hours", age \div 3600>> ELSE <<"days", age \div 86400>>

\* Ages are those at the time of the snapshot; every page has the badge.
StatusBanner ==
  [healthy |-> snapshot.jobsLast24h.failed = 0,
   latest  |-> FormatLatestIngest(snapshot.latestIngestAt, snapshot.generatedAt),
   finishedShare |-> IF snapshot.jobsLast24h.total = 0 THEN 0
                     ELSE (2000 * snapshot.jobsLast24h.finished + snapshot.jobsLast24h.total)
                            \div (2 * snapshot.jobsLast24h.total)]

StatusTables ==
  LET Age(at) == FormatRelative(at, snapshot.generatedAt)
      forms == snapshot.formTypeFreshness
      jobs  == snapshot.recentJobs
  IN  [forms |-> [form \in DOMAIN forms |-> Age(forms[form])],
       jobs  |-> [i \in DOMAIN jobs |-> <<jobs[i].state, Age(jobs[i].startedAt)>>]]

Badge == FormatLatestIngest(snapshot.latestIngestAt, snapshot.generatedAt)

------------------------------------------------------------------------------
OperationsNext ==
  \/ \E job \in JobIds, status \in Statuses, version \in ParserVersions, time \in Times :
       WriteLedger([jobId |-> job, status |-> status, parserVersion |-> version, fetchTimestamp |-> time])
  \/ \E now \in Clock : GetStatusSnapshot(now)

OperationsSpec == OperationsInit /\ [][OperationsNext]_operationsVars

------------------------------------------------------------------------------
JobsListed ==
  LET jobs == AdminJobsPage(TRUE)
  IN  /\ {job.id : job \in ToSet(jobs)} = {row.jobId : row \in ToSet(ledger)}
      /\ \A i, j \in DOMAIN jobs : i < j => jobs[i].id # jobs[j].id /\ jobs[i].startedAt >= jobs[j].startedAt

JobTold(job) ==
  /\ IF GetFailedArtifacts(job.id, NoValue) # <<>> THEN job.state = "failed"
     ELSE job.state = MapJobState(Last(RowsOfJob(job.id)).status)
  /\ (job.finishedAt = NoValue) = (job.state \in Unfinished)
  /\ job.finishedAt # NoValue => job.startedAt <= job.finishedAt
  /\ \A row \in ToSet(RowsOfJob(job.id)) : job.startedAt <= row.fetchTimestamp

FailuresTraced(id, parser) ==
  /\ SumOf(Mapped(GetParserFailureSummary(id, parser), LAMBDA s : s.failures))
       = Len(GetFailedArtifacts(id, parser))
  /\ \A failed \in ToSet(GetFailedArtifacts(id, parser)) :
       \E row \in ToSet(AdminArtifactsPage(TRUE)) :
         row.jobId = failed.jobId /\ row.fetchTimestamp = failed.fetchTimestamp

\* The admin pages fold one ledger in three ways and agree: a job is shown once,
\* as failed exactly if there is a failed artifact to inspect for it and otherwise
\* as its last row says, finished unless under way and never before it started;
\* the parsers' failures add up to the artifacts listed, whatever the filter, and
\* each of these is a row of the artifacts page.
AdminViewsAgree ==
  /\ JobsListed
  /\ \A job \in ToSet(AdminJobsPage(TRUE)) : JobTold(job)
  /\ \A id \in JobIds \cup {NoValue}, parser \in {"xbrl", "proxy", "sec", NoValue} :
       FailuresTraced(id, parser)

\* "Rows with mismatches are emphasized in both tables and listed below for fast
\* triage" (app/admin/qa/page.tsx:171): a parsed row that is not emphasised repeats
\* a raw row's total, both add up, and a listed one is marked in the raw table too
\* if that has its row.
MismatchesEmphasized ==
  LET page == AdminQaPage(TRUE)
  IN
  \A p \in ToSet(qa.parsed) :
    IF p.rowId \in page.parsed
    THEN /\ \E d \in ToSet(page.list) : d.rowId = p.rowId
         /\ p.rowId \in {r.rowId : r \in ToSet(qa.raw)} => p.rowId \in page.raw
    ELSE \E r \in ToSet(qa.raw) : r.rowId = p.trace /\ r.total = p.total
                                  /\ Total(r) = r.total /\ Total(p) = p.total

\* Operators see the ledger and the comparison as they are, and the banner warns
\* whenever the status page lists a failed job; it tells the age of the badge.
OperatorsSeeAll ==
  /\ AdminViewsAgree /\ MismatchesEmphasized
  /\ snapshot # NoValue =>
       /\ StatusBanner.healthy =>
            \A i \in DOMAIN StatusTables.jobs : StatusTables.jobs[i][1] # "failed"
       /\ StatusBanner.latest = Badge
=============================================================================
