SPECIFICATION FairSpec
CONSTANTS
  Revs = {r1, r2}
  Pods = {p1, p2, p3}
  None = None
  Settings <- Rollouts
INVARIANTS TypeOK RolledOutRan
PROPERTIES RolloutSettles
CHECK_DEADLOCK FALSE
