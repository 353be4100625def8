SPECIFICATION Spec
CONSTANTS
  m1 = m1
  m2 = m2
  Messages = {m1, m2}
  Modes = {"auto", "translation"}
  StreamingModes = {"translation"}
  StreamingEnabled = TRUE
  NoMode = NoMode
  MaxTokens <- MCMaxTokens
CHECK_DEADLOCK FALSE
INVARIANTS
  TypeOK
  TextAsReceived
  AnswerIsWhole
  OneAnswer
  AskedAgainOnlyUnanswered
  AnswerIsToCome
PROPERTIES
  EveryMessageAnswered
