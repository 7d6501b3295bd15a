CONSTANTS
  Files = {f1, f2}
  Workers = {w1}
  Clients = {}
  MaxJobs = 2
  MaxAttempts = 2
  BatchSize = 5
  RunSlots = {r1}
  MaxVersion = 1
  SchemaJobStatuses <- JobStatus
  NoWorker = NoWorker
  NoFile = NoFile
  NoRun = NoRun
SPECIFICATION FairSpec
CHECK_DEADLOCK FALSE
PROPERTY JobsSettle
