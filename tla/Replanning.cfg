\* Two disturbances of a run, with any snapshot.
SPECIFICATION RSpec
CONSTANTS
  Plans <- Runs
  Snapshots <- Reports
  Disturbances <- Steps
  MaxRevisions = 2
INVARIANTS PromisesAreKept PlansFitTheRun
PROPERTY HistoryOnlyGrows
CHECK_DEADLOCK FALSE
