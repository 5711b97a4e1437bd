SPECIFICATION Spec
CONSTANTS
  a = a
  b = b
  web = web
  init = init
  None = None
  Clients = {a, b}
  Services = {web}
  Jobs = {init}
  DependsOn <- Waits
  Local <- Edits
  Requests <- Asked
  MaxOps = 2
  LastCrash = 1
INVARIANTS StoppedStaysDown EndsNoMoreThanNeeded RunJobSeesTheEnd
PROPERTIES AnswersAfresh RestartTakesEffect UpAsksInOrder
CHECK_DEADLOCK FALSE
SYMMETRY Alike
