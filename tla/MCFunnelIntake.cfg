CONSTANTS
  v1 = v1
  Visitors = {v1}
  MaxAttempts = 2
  MaxRestarts = 1
SPECIFICATION FairSpec
INVARIANT TypeOK
INVARIANT AnswersTrue
PROPERTY SubmissionsAnswered
