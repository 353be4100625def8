SPECIFICATION ReadSpec
CONSTANTS
  j1 = j1
  NoJob = NoJob
  Jobs = {j1}
  Streaming = {j1}
  Structured = {}
  Cancellable = {j1}
  MaxRetries = 1
  MaxQueueSize = 1
  MaxChunks = 1
  MaxCrashes = 0
  Aborts = FALSE
  Timeouts = TRUE
  ResultVisible = TRUE
  Deadlines = TRUE
CHECK_DEADLOCK FALSE
INVARIANTS
  StreamEndIsAnEnd
  ReaderNeverMissesEnd
