SPECIFICATION Spec
CONSTANTS
  j1 = j1
  j2 = j2
  j3 = j3
  NoJob = NoJob
  Jobs = {j1, j2, j3}
  Streaming = {}
  Structured = {j1, j2, j3}
  Cancellable = {}
  MaxRetries = 1
  MaxQueueSize = 1
  MaxChunks = 0
  MaxCrashes = 1
  Aborts = TRUE
  Timeouts = FALSE
  ResultVisible = FALSE
CHECK_DEADLOCK FALSE
INVARIANTS
  BacklogBounded
SYMMETRY
  JobSymmetry
