SPECIFICATION FairSpec
CONSTANTS
  Revs = {r1, r2}
  None = None
  JobHistoryLimit = 0
  Settings <- DisturbedOrBehind
  HasTTL = TRUE
INVARIANTS TypeOK RolledOutRan
PROPERTIES IsAChild PruneSparesRuns SuspensionHolds ReportSettles
CHECK_DEADLOCK FALSE
