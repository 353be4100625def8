SPECIFICATION FairReadSpec
CONSTANTS
  j1 = j1
  NoJob = NoJob
  Jobs = {j1}
  Streaming = {}
  Structured = {j1}
  Cancellable = {j1}
  MaxRetries = 1
  MaxQueueSize = 1
  MaxChunks = 1
  MaxCrashes = 1
  Aborts = FALSE
  Timeouts = TRUE
  ResultVisible = FALSE
  Deadlines = TRUE
CHECK_DEADLOCK FALSE
INVARIANTS
  WaiterGetsOutcome
PROPERTIES
  EveryJobSettles
  WaiterAnswered
