CONSTANTS
  Files = {f1}
  Workers = {w1, w2}
  Clients = {}
  MaxJobs = 1
  MaxAttempts = 2
  BatchSize = 5
  RunSlots = {r1, r2}
  MaxVersion = 2
  SchemaJobStatuses <- JobStatus
  NoWorker = NoWorker
  NoFile = NoFile
  NoRun = NoRun
SPECIFICATION Spec
SYMMETRY Symmetry
CHECK_DEADLOCK FALSE
INVARIANTS IInv SuccessHasChunks
PROPERTIES ImplementsPublished
