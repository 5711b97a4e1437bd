CONSTANTS
  MCJobs = {j1, j2}
  MCServices = {s1, s2}
  Requests <- MCRequests
SPECIFICATION SelectionSpec
INVARIANTS
  SelectionIsTheClosure
  ProjectionIsSelfContained
  AcceptedRunsToTheEnd
