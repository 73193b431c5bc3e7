SPECIFICATION FairSpec
CONSTANTS
  Names = {1, 2, 3}
  Labels = {"a", "b"}
  Systems = {"x86", "arm"}
  Reports <- SomeReports
  None = None
  Settings <- Fleets
INVARIANTS TypeOK ReadyIsHonest
PROPERTIES NobodyIsDisplaced ConvergeSettles MismatchSuspends RemovalCompletes
CHECK_DEADLOCK FALSE
