SPECIFICATION PoolSpec
CONSTANTS
  Threads = {t1, t2}
  IndexLimit = 3
  BlockSize = 2
  MaxTag = 5
SYMMETRY Symmetry
INVARIANTS
  FreeListLinked
  OneOwnerPerIndex
  CountersInStep
  BlocksBackIndices
PROPERTIES
  ImplementsIndexPool
CHECK_DEADLOCK FALSE
