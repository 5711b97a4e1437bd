SPECIFICATION SharedSpec
CONSTANTS
  p1 = p1
  p2 = p2
  w1 = w1
  w2 = w2
  a = a
  b = b
  c = c
  None = None
  Procs = {p1, p2}
  Workspaces = {w1, w2}
  SlotsOf <- TwoWorkspaces
  Optional = {b}
  Serves <- Asked
  MaxOps = 1
INVARIANT FailedCreateLeavesNothing
INVARIANT CheckoutsStayRegistered
PROPERTY SavesAreKept
PROPERTY WorkSurvives
CHECK_DEADLOCK FALSE
