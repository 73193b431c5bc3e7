SPECIFICATION FairSpec
CONSTANTS
  None = None
  Settings <- Stores
INVARIANTS TypeOK
PROPERTIES KeyIsStable InfraSettles
CHECK_DEADLOCK FALSE
