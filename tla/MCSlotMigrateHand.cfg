CONSTANTS
  Entries = {env}
  Tracked = tracked
  MaxWrites = 1
  Windows = FALSE
SPECIFICATION Spec
CHECK_DEADLOCK FALSE
PROPERTIES
  HandKeepsTheSlot
