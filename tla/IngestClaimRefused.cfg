CONSTANTS
  Files = {f1}
  Workers = {w1}
  Clients = {}
  MaxJobs = 1
  MaxAttempts = 2
  BatchSize = 5
  RunSlots = {r1}
  MaxVersion = 1
  SchemaJobStatuses <- JobStatus
  NoWorker = NoWorker
  NoFile = NoFile
  NoRun = NoRun
SPECIFICATION Spec
SYMMETRY Symmetry
CHECK_DEADLOCK FALSE
INVARIANTS NoClaimRefused
