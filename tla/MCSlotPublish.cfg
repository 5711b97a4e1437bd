CONSTANTS
  a = a
  b = b
  p1 = p1
  p2 = p2
  Slots = {a, b}
  Owner = a
  Procs = {p1, p2}
  MaxVerbs = 2
  MaxAgents = 1
  MaxOthers = 2
  None = None
SPECIFICATION Spec
SYMMETRY MCSymmetry
CHECK_DEADLOCK FALSE
PROPERTIES
  FetchedWorkStays
  OnlyCheckedIsPushed
  RebaseSparesOthers
