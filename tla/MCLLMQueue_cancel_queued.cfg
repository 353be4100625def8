SPECIFICATION Spec
CONSTANTS
  j1 = j1
  j2 = j2
  j3 = j3
  NoJob = NoJob
  Jobs = {j1}
  Streaming = {}
  Structured = {j1}
  Cancellable = {j1}
  MaxRetries = 0
  MaxQueueSize = 1
  MaxChunks = 1
  MaxCrashes = 0
  Aborts = FALSE
  Timeouts = FALSE
  ResultVisible = FALSE
CHECK_DEADLOCK FALSE
INVARIANTS
  CancelledNeverCompletes
