\* Two clients, three artifacts, one alteration of the file.
SPECIFICATION Spec
CONSTANTS
  Meta <- Three
  Claims <- TwoClaims
  Clients = {c1, c2}
  Records <- SomeRecords
  Requests <- Asked
  MaxTampers = 1
  MaxTime = 1
INVARIANTS AuditIsExact PackedIsEnough
PROPERTY LineageIsForGood
SYMMETRY Symmetry
CHECK_DEADLOCK FALSE
