SPECIFICATION FairSpec
CONSTANTS
  Revs = {r1, r2}
  Slots = {s1}
  None = None
  Settings <- DisturbedOrBehind
  MaxTime = 2
INVARIANTS TypeOK RolledOutWasFired
PROPERTIES TimesNeverBack VerdictSettles
CHECK_DEADLOCK FALSE
