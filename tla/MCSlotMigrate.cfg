CONSTANTS
  Entries = {env, modules}
  Tracked = tracked
  MaxWrites = 2
  Windows = FALSE
SPECIFICATION Spec
CHECK_DEADLOCK FALSE
INVARIANTS
  EntriesSurvive
  RolledBackIsWhole
  HandRestores
PROPERTIES
  OldKeepsItsWork
