CONSTANTS
  NodeNames <- MCNames
  Rank <- MCRank
  Runs <- MCRuns
SPECIFICATION FairSpec
INVARIANTS
  HoldsCoverCommands
  ErrorsRestoreHolds
  ReceiptTellsTheTruth
PROPERTIES
  OrderIsKept
  Terminates
CHECK_DEADLOCK FALSE
