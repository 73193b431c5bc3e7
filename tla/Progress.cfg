SPECIFICATION FairSpec
CONSTANTS
  Configs = {1,2}
  None = None
  MaxInstallRetries = 1
  MaxOnRemoveRetries = 1
  Settings <- OneOrTwo
  Specs <- AllSpecs
  DayTwoResults = {"ready"}
  MaxCount = 2
  MaxUpsets = 0
PROPERTIES CompletionIsDurable ForeignStampIsKept DeletionCompletes InstallSettles OwnerLeavesBlocked LoserIsSuspended
CHECK_DEADLOCK FALSE
