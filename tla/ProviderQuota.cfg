\* A quota under two windows, and the replay of its log.
SPECIFICATION ReplaySpec
CONSTANTS
  Calls = {c1, c2, c3}
  MaxAttempts = 2
  BaseBackoff = 1
  MaxBackoff = 1
  Limit <- Limits
  TokenCaps = {2}
  Actuals = {1, 3}
  Deadlines = {1}
  Resets = {1, 2}
  MaxTime = 2
  None = None
SYMMETRY CallSymmetry
INVARIANTS AccountsAreExact ReplayIsExact
PROPERTIES RetriesKeepTheRules
CHECK_DEADLOCK FALSE
