SPECIFICATION FairSpec
CONSTANTS
  MaxQuantity = 2
  MaxParents = 1
  MaxChildren = 2
  MaxCrashes = 2
  Requests <- MCRequests
INVARIANTS FillsAddUp EndedJobIsClosed StoreCaughtUp StoreOrdered NeverOverExecuted JobRowCovered
PROPERTIES CancelEnds TerminalIsFinal CancelledForGood
CHECK_DEADLOCK FALSE
