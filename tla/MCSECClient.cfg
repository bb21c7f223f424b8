CONSTANTS
  t1 = t1
  t2 = t2
  NoThread = NoThread
  Threads = {t1, t2}
  Interval = 2
  MaxRetries = 2
  MaxCalls = 1
  Slack = 2
SPECIFICATION FairSpec
INVARIANT TypeOK
INVARIANT RateBudget
INVARIANT RetriesExhausted
PROPERTY PermitsSpaced
PROPERTY CallsReturn
