SPECIFICATION Spec
CONSTANTS
  Revs = {r1, r2}
  Slots = {s1}
  None = None
  Settings <- Disturbed
  MaxTime = 2
PROPERTY SuspensionStopsRuns
CHECK_DEADLOCK FALSE
