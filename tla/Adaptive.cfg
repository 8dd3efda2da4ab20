\* A run driven by one coordinator that may die, with its operator.
SPECIFICATION LiveSpec
CONSTANTS
  N = 3
  Providers = {"bob", "watsonx"}
  Units <- TwoUnits
  RunDeadline = 4
  Envelope <- Caps
  Plans <- Workflows
  MaxControls = 2
  Cuts <- SmallerCaps
  Spent <- Reports
  None = None
INVARIANTS EveryCallIsPaid StopsForCause
PROPERTIES HistoryReplays OwnProgressIsSafe DriveEnds
CHECK_DEADLOCK FALSE
