CONSTANTS
  Files = {f1}
  Workers = {w1}
  Clients = {c1}
  MaxJobs = 2
  MaxAttempts = 2
  BatchSize = 5
  RunSlots = {r1}
  MaxVersion = 2
  SchemaJobStatuses <- JobStatus
  NoWorker = NoWorker
  NoFile = NoFile
  NoRun = NoRun
SPECIFICATION Spec
SYMMETRY Symmetry
CHECK_DEADLOCK FALSE
INVARIANTS ReadyHasChunks PurgeLeavesNothing
