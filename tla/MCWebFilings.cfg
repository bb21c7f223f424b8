SPECIFICATION Spec
CONSTANTS
  NoValue = NoValue
  StatementMetrics <- MCMetrics
  Candidates <- MCCandidates
  NotesOf <- MCNotesOf
  FiscalYears = {2, 3}
  Contents <- MCContents
  Comparatives = {1}
  PageYears = 2
  MaxYears = 3
  MaxReports = 2
  Benchmarks <- MCBench
  Ciks = {"c1"}
  Agents = {"g"}
  Forms = {"10-K", "DEF 14A"}
  MaxRows = 2
  MaxRecent = 2
  DefaultPageSize = 2
  MaxPageSize = 2
  Tickers <- MCTickers
  MaxFiled = 3
  ProxyTables <- MCTables
  OwnershipReports <- MCReports
  Names = {"ann", "bob", "fees"}
  Noise = {"fees"}
  Roles = {"director", "officer"}
  MinTotal = 10
  MaxProxies = 2
  MaxPayRows = 4
  MaxForms = 2
  MaxActivityRows = 2
  FirstYear = 8
  MaxFilings = 3
  Fields <- MCFields
  PageParams <- MCParams
  Corpus <- MCCorpus
  MAX_RESULTS = 3
  Figures = {0, 1}
  JobIds = {1, 2}
  Statuses = {{}, {"run"}, {"fail", "process"}}
  ParserVersions = {{"xbrl"}, {"xbrl", "proxy"}}
  Times = {1, 2}
  QaSamples <- MCQa
  Clock = {86400, 86460}
  MaxLedger = 3
  Components <- MCComponents
  HeatRoles <- MCHeatRoles
  HeatMonths <- MCHeatMonths
  Entries <- MCEntries
  MaterialityPct = 5
  MaxEntries = 3
  Keys = {k1, k2}
  NotAKey = NotAKey
  MaxTime = 3
CHECK_DEADLOCK FALSE
INVARIANTS
  ListedFilingsOpen
