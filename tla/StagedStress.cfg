CHECK_DEADLOCK FALSE
CONSTANTS
  Plans <- MCPlans
  MaxErrorPercent = 50
  ConsecutiveFailed = 2
  MaxTotalRequests = 6
  MaxSoak = 3
  MaxOutages = 1
  MaxPressure = 1
  MaxInterrupts = 2
SPECIFICATION FairSpec
INVARIANTS TrafficAccounted VerdictIsTrue
PROPERTY SuiteEnds
