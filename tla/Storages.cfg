SPECIFICATION StorageSpec
CONSTANTS
  Threads = {t1, t2}
  Slots = {4, 5, 6}
  Values = {a, b}
  Raw = Raw
  Nothing = Nothing
  MaxIndices = 3
  BlockSize = 2
  Reservations = {5}
SYMMETRY Symmetry
INVARIANTS
  ObjectsOwned
  LiveCountsSettle
PROPERTIES
  ImplementsStore
CHECK_DEADLOCK FALSE
