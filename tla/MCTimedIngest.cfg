SPECIFICATION TimedSpec
CONSTANTS
  FP = {1}
  NB = 2
  Period = 6
  Cycle = 6
  Late = 2
  Nil = Nil
  NDB = 2
  DedupPeriod = 3
  Gap = 1
INVARIANTS
  TimedTypeOK
  KeptHalfInterval
  ForgottenAfterInterval
  PanicsOnlyWhenNew
  ArrivingIsCounted
