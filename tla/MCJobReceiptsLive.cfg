CONSTANTS
  daemon = daemon
  cli = cli
  poll = poll
  status = status
  Procs = {daemon, cli}
  Readers = {status}
  Home <- MCHome
  Ids = {i1}
  Retain = 1
  None = None
SPECIFICATION FairSpec
PROPERTIES
  LeaseComesBack
  PollersAreAnswered
