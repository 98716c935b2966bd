SPECIFICATION ViewSpec
CONSTANTS
  MaxSlots = 3
  MaxGeneration = 1
  GenerationModulus = 2
  t1 = t1
  t2 = t2
  Threads = {t1, t2}
  Components = {"c1", "c2"}
  Contiguous = {"c1"}
  Joined <- MCJoined
  WordBits = 2
  MaxWords = 2
  Recycled = {1}
  None = None
INVARIANTS
  OneStoragePerType
  ViewsVisitMatching
CHECK_DEADLOCK FALSE
