CONSTANTS
  r1 = r1
  r2 = r2
  j1 = j1
  c1 = c1
  c2 = c2
  p1 = p1
  p2 = p2
  p3 = p3
  a1 = a1
  a2 = a2
  NoName = NoName
  Runners = {r1, r2}
  JobIds = {j1}
  JobOf <- MCJobOf
  Units = {c1, c2}
  Payloads = {p1, p2, p3}
  Accessions = {a1, a2}
  UnitLists <- MCUnitLists
  Latest <- MCLatest
  ArchivesOf <- MCArchivesOf
  HeadersIn <- MCHeadersIn
  MaxRetryCount = 2
SPECIFICATION FairSpec
INVARIANT TypeOK
INVARIANT CheckpointSound
INVARIANT FinishedComplete
INVARIANT StagingSound
PROPERTY RunsEnd
