\* A ledger and the replay of its log, or of a forged one.
SPECIFICATION ReplaySpec
CONSTANTS
  Attempts = {a1, a2, a3}
  Units <- TwoUnits
  Capacity <- SmallBudget
  Amounts <- SomeAmounts
  None = None
SYMMETRY AttemptSymmetry
INVARIANTS Conserved
PROPERTIES RetiredForGood ReplayIsExact
CHECK_DEADLOCK FALSE
