SPECIFICATION FairSpec
CONSTANTS
  Deadlines <- MCDeadlines
  Tops <- MCTops
  maxRetryAfterDelay = 3
  MaxItems = 3
  MaxReplays = 1
CHECK_DEADLOCK FALSE
INVARIANTS
    CallToldTruly
PROPERTIES
    RetriesPay
    CallReturns
