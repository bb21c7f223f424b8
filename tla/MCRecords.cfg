SPECIFICATION Spec
CONSTANTS
  Recorders = {w1, w2}
  Readers = {r1}
  Nobody = Nobody
  NoFact = NoFact
  Facts <- MCFacts
  Ingesters = {i1, i2}
  Datasets <- MCDatasets
  NoDataset = NoDataset
  NoteThreads = {t1, t2}
  Notes <- MCNotes
  Batches <- MCBatches
  Open = Open
  NoListing = NoListing
  Securities = {s1}
  Listings = {nyse, nasdaq}
  Times = {1, 2, 3}
  MaxListings = 3
  FlowMetrics = {"revenue"}
  StockMetrics = {"assets"}
  AnnualMetrics <- MCAnnualMetrics
  NormalizedRows <- MCRows
  NoAmount = NoAmount
  YearCount = 1
  MaxRows = 5
  Requests = {r1, r2}
  Universe <- MCUniverse
  Listed = {"a", "b", "c", "l", "m"}
  Companies <- MCCompanies
  Sic <- MCSic
  NoSic = NoSic
  NoCompany = NoCompany
  MaxPeers = 2
  Buckets = {"b1", "b2"}
  Tiers = {"beta", "standard"}
  TierOf <- MCTierOf
  Quotas <- MCQuotas
  MaxTime = 7
INVARIANTS
  TypeOK
  BurstBound
  RefusedOnlyOverBudget
  ChainUnbroken
  ReadsCoherent
  RowsAccountedFor
  TtmOfLastReports
  PeersAccounted
PROPERTIES
  SweepHarmless
  AnswersStand
  RerunsStageNothing
  EarlierFailuresForgotten
