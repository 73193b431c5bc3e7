SPECIFICATION Spec
CONSTANTS
  Archs = {a1}
  Owners = {c1}
  None = None
  Settings <- Undisturbed
  MaxTime = 0
PROPERTY ProbesArePaced
CHECK_DEADLOCK FALSE
