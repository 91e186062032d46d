SPECIFICATION FairSpec
CONSTANTS
  Action <- Buttons
  Outcomes <- CliOutcome
  MaxRuns = 3
  Request = {q1}
  None = None
  EndsItself <- Short
INVARIANTS
  TypeOK
  LivingProcessIsShown
PROPERTIES
  SignalReachesShown
  StopTakesEffect
  EveryRunSettles
CHECK_DEADLOCK FALSE
