SPECIFICATION Spec
CONSTANTS
  Action <- AllButtons
  Outcomes <- CliOutcome
  MaxRuns = 1
  Request = {q1}
  None = None
  EndsItself <- Short
INVARIANTS
  AskedIsShown
CHECK_DEADLOCK FALSE
