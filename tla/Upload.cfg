CONSTANTS
  r1 = r1
  r2 = r2
  f1 = f1
  f2 = f2
  f3 = f3
  i1 = i1
  i2 = i2
  Requests = {r1, r2}
  Files = {f1, f2, f3}
  Instances = {i1, i2}
  Reconcilers = {i2}
  FilesOf <- MCFilesOf
  Size <- MCSize
  Keys = {1, 2}
  Sent <- MCSent
  Quota = 2
  MaxFaults = 1
  MaxActs = 1
  NoRequest = NoRequest
SPECIFICATION FairSpec
CHECK_DEADLOCK FALSE
INVARIANTS CompletedHasObjects FailedLeavesNothing NoOrphans QuotaPerInstance UploadedOnce
PROPERTIES BatchesSettle
