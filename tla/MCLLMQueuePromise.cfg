SPECIFICATION Spec
CONSTANTS
  j1 = j1
  j2 = j2
  NoJob = NoJob
  Jobs = {j1, j2}
  Streaming = {}
  Structured = {j2}
  Cancellable = {j1}
  MaxRetries = 1
  MaxQueueSize = 1
  MaxChunks = 1
  MaxCrashes = 1
  Aborts = FALSE
  Timeouts = TRUE
  ResultVisible = FALSE
CHECK_DEADLOCK FALSE
INVARIANTS
  OneHolder
PROPERTIES
  PromiseKept
