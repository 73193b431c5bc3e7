SPECIFICATION Spec
CONSTANTS
  Configs = {1}
  None = None
  MaxInstallRetries = 1
  MaxOnRemoveRetries = 1
  Settings <- Fresh
  Specs <- InstallOrNot
  DayTwoResults = {"ready"}
  MaxCount = 9
  MaxUpsets = 2
INVARIANTS TypeOK InstallRunsBounded DecommissionsBounded RetriesAreFailures
PROPERTIES  FinalizeLeavesNoOrphan StampIsCleared UserWritesAreKept
CHECK_DEADLOCK FALSE
