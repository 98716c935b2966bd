SPECIFICATION JobPoolSpec
CONSTANTS
  Workers = {w1, w2}
  Clients = {c1}
  MaxCount = 3
  MaxCalls = 2
INVARIANTS
  RemainingCountsTasks
PROPERTIES
  ReturnsWhenAllRan
  WaitsEnd
  DestructorReturns
CHECK_DEADLOCK FALSE
