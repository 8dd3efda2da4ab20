CONSTANTS
  c1 = c1
  c2 = c2
  Clients = {c1, c2}
  Tasks = {1, 2}
  NoTask = 0
  MaxNumber = 3
SPECIFICATION SharedSpec
SYMMETRY ClientSymmetry
INVARIANTS TheLedgerArbitrates
CHECK_DEADLOCK FALSE
