SPECIFICATION Spec
CONSTANTS
  r1 = r1
  r2 = r2
  r3 = r3
  translation = translation
  learning = learning
  General = General
  NoMode = NoMode
  Nobody = Nobody
  Requests = {r1, r2, r3}
  Streamed = {r3}
  Handlers = {translation, learning}
  Supplied <- OneSupplied
  MaxTurns = 2
  MaxEvents = 1
CHECK_DEADLOCK FALSE
INVARIANTS
  RepliesInResolvedMode
  AnswersFromFreshState
  MemoryIsWindow
  OnlyAnswersRemembered
