SPECIFICATION Spec
CONSTANTS
  Configs = {1, 2}
  None = None
  MaxInstallRetries = 1
  MaxOnRemoveRetries = 1
  Settings <- Fresh
  Specs <- AllSpecs
  DayTwoResults = {"progressing", "ready", "failed"}
  MaxCount = 9
  MaxUpsets = 0
INVARIANT OneInstallPerMachine
CHECK_DEADLOCK FALSE
