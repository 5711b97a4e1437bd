SPECIFICATION Spec
CONSTANTS
  p1 = p1
  p2 = p2
  origin = origin
  upstream = upstream
  ours = ours
  theirs = theirs
  None = None
  Procs = {p1, p2}
  RemoteOrder <- Names
  Urls = {ours, theirs}
  MayDeclare <- Stacks
  MaxChanges = 1
INVARIANT LastAdoptedHolds
INVARIANT FailedCloneLeavesNothing
PROPERTY BlocksHold
