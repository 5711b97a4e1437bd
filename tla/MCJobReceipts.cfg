CONSTANTS
  daemon = daemon
  cli = cli
  poll = poll
  status = status
  Procs = {daemon, cli}
  Readers = {poll, status}
  Home <- MCHome
  Ids = {i1, i2}
  Retain = 1
  None = NoOne
SPECIFICATION Spec
SYMMETRY MCSymmetry
INVARIANTS
  OneRunAtATime
  LiveReceiptIsOpen
  OneOutcome
PROPERTIES
  ImplementsOperations
