SPECIFICATION Spec
CONSTANTS
  Names = {n1}
  Signups = {s1, s2}
  Attempts = {a1, a2}
  Script = Script
  NoAccount = NoAccount
  NoPassword = NoPassword
  MaxFailures = 2
  MaxWrong = 4
  MaxCuts = 1
SYMMETRY Symmetry
CHECK_DEADLOCK FALSE
INVARIANTS
  SignupToldTruth
  LoginAnswerWasRight
  CounterExpires
  LockIsEarned
  RefusalsBounded
