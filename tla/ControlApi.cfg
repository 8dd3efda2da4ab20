SPECIFICATION Spec
CONSTANTS
  r1 = r1
  r2 = r2
  w1 = w1
  Run = {r1, r2}
  Watcher = {w1}
  MaxActive = 1
  MaxControls = 2
  Depth <- MCDepth
  Followed = {r1}
  MaxSessions = 2
  MaxBody = 2
  Pieces = {1, 2}
  MaxPieces = 3
  Asked = {"live", "status", "inspect", "submit", "unknown"}
INVARIANTS OneDriverEach ControlsAreOrderly RequestsAreVetted
PROPERTIES StreamsTellAll
CHECK_DEADLOCK FALSE
