SPECIFICATION Spec
CONSTANTS
  Configs = {1}
  None = None
  MaxInstallRetries = 1
  MaxOnRemoveRetries = 1
  Settings <- FreshMoving
  Specs <- AllSpecs
  DayTwoResults = {"progressing", "ready", "failed"}
  MaxCount = 9
  MaxUpsets = 2
PROPERTY NoReinstall
CHECK_DEADLOCK FALSE
