\* Packages of up to six events.
SPECIFICATION VerifySpec
CONSTANTS
  Forgers <- ThreeForgers
  Cap = 3
  Deadline = 1
INVARIANTS EffectsAreLives WorkIsGrounded
CHECK_DEADLOCK FALSE
