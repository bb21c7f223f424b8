CONSTANTS
  t1 = t1
  t2 = t2
  NoThread = NoThread
  Threads = {t1, t2}
  Interval = 2
  MaxRetries = 2
  MaxCalls = 1
  Slack = 1
SPECIFICATION Spec
INVARIANT NetworkErrorsRetried
