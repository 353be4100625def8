SPECIFICATION Spec
CONSTANTS
  j1 = j1
  j2 = j2
  j3 = j3
  NoJob = NoJob
  Jobs = {j1}
  Streaming = {j1}
  Structured = {}
  Cancellable = {j1}
  MaxRetries = 1
  MaxQueueSize = 1
  MaxChunks = 1
  MaxCrashes = 1
  Aborts = TRUE
  Timeouts = TRUE
  ResultVisible = TRUE
CHECK_DEADLOCK FALSE
INVARIANTS
  TypeOK
  ExecutionsBounded
  ExhaustedNeverReruns
  ResultIsAnnounced
  CompletedTextWasStreamed
  CompletedNeverCarriesCancel
  StatusKeepsTrack
PROPERTIES
  GoneForGood
