CONSTANTS
  Tasks = {t1, t2}
  Workers = {w1, w2}
  MaxAttempts = 2
  MaxFailures = 1
  MaxStalls = 1
  NoTask = NoTask
SPECIFICATION FairSpec
INVARIANTS DoneMeansGone GivenUpForAReason OneCallPerAttempt
PROPERTIES TasksSettle
