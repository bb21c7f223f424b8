CONSTANTS
  r1 = r1
  r2 = r2
  j1 = j1
  j2 = j2
  c1 = c1
  c2 = c2
  c3 = c3
  p1 = p1
  p2 = p2
  a1 = a1
  NoName = NoName
  Runners = {r1, r2}
  JobIds = {j1, j2}
  JobOf <- MCJobOf
  Units = {c1, c2, c3}
  Payloads = {p1, p2}
  Accessions = {a1}
  UnitLists <- MCUnitLists
  Latest <- MCLatest
  ArchivesOf <- MCArchivesOf
  HeadersIn <- MCHeadersIn
  MaxRetryCount = 2
SPECIFICATION Spec
INVARIANT PartitionsSound
PROPERTY ExclusiveJobsResume
