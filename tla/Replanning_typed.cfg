\* A typed input whose producer has completed.
SPECIFICATION RSpec
CONSTANTS
  Plans <- Typed
  Snapshots <- Reports
  Disturbances <- Steps
  MaxRevisions = 2
INVARIANT AcceptedEventsArePlanned
CHECK_DEADLOCK FALSE
