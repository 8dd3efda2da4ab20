\* A run executed, lost and resumed with either of two graphs and configurations.
CONSTANTS
  Tasks = {1, 2, 3}
  NoTask = 0
  Provider <- AnyProvider
  ProviderLimit <- OnePermit
  MaxParallelism = 1
  Setups <- JoinAndPair
  Threshold = 2
  Backoff = 1
  RunDeadline = 2
  TaskDeadline <- ShortSecond
  MaxTime = 3
  MaxCrashes = 1
SPECIFICATION LiveSpec
INVARIANTS AttemptsSettleOnce DoneIsDurable
PROPERTIES KeepsPromise ExecuteReturns
CHECK_DEADLOCK FALSE
