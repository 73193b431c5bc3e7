SPECIFICATION FairSpec
CONSTANTS
  Archs = {a1, a2}
  Owners = {c1}
  None = None
  Settings <- DisturbedOrBehind
  MaxTime = 1
INVARIANT TypeOK
PROPERTIES StampIsKept DiscoverySettles ArchitectureSettles
CHECK_DEADLOCK FALSE
