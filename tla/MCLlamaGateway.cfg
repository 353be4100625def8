SPECIFICATION Spec
CONSTANTS
  Texts <- ShortTexts
  Calls <- SomeCalls
  Profiles <- TwoProfiles
  SettingsModel = "settings"
  NoValue = NoValue
  MaxLength = 9
CHECK_DEADLOCK FALSE
INVARIANTS
  TypeOK
  HiddenStaysHidden
  NothingElseIsLost
  StreamAgreesWithFull
  CompleteMeansSent
  ReaderNeverStranded
  ControlGivenOnce
PROPERTIES
  ReaderEnds
