SPECIFICATION FairSpec
CONSTANTS
  Clients = {1, 2}
  MaxRequest = 2
  Plans <- OneOrTwoClients
INVARIANTS OwnAnswer FailsForCause TotalIsExact
PROPERTIES RequestReturns SessionEnds
CHECK_DEADLOCK FALSE
