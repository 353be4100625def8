SPECIFICATION Spec
CONSTANTS
  r1 = r1
  r2 = r2
  r3 = r3
  translation = translation
  learning = learning
  General = General
  NoMode = NoMode
  Nobody = Nobody
  Requests = {r1, r2}
  Streamed = {r1}
  Handlers = {translation, learning}
  Supplied <- AllSupplied
  MaxTurns = 1
  MaxEvents = 1
CHECK_DEADLOCK FALSE
INVARIANTS
  StreamCarriesItsMode
