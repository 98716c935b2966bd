SPECIFICATION JobSystemSpec
CONSTANTS
  Workers = {w1, w2}
  Clients = {c1}
  MaxCount = 2
  MaxCalls = 2
INVARIANTS
  WorkersNeverWait
PROPERTIES
  ParallelForEnds
  OuterCallsCoverNested
CHECK_DEADLOCK FALSE
