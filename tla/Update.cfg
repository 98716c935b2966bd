SPECIFICATION UpdateSpec
CONSTANTS
  m1 = m1
  m2 = m2
  s1 = s1
  s2 = s2
  s3 = s3
  Managers = {m1, m2}
  Systems = {s1, s2, s3}
  Layers <- MCLayers
  MaxQueue = 2
INVARIANTS
  AppliedOnceInOrder
  AppliedByNextFlush
PROPERTIES
  LayersAreBarriers
  UpdateEnds
