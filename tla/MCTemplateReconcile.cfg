SPECIFICATION Spec
CONSTANTS
  Content = {"v1", "v2", "e1", "e2"}
  Absent = Absent
  p = p
  q = q
  Paths <- TwoPaths
  Answers = {"m"}
  MaxEdits = 1
  MaxRuns = 2
SYMMETRY Alike
INVARIANTS OthersWorkSurvives AllOrNothing RerunIsClean
CHECK_DEADLOCK FALSE
