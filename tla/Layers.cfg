SPECIFICATION SchedulingSpec
CONSTANTS
  physics = physics
  render = render
  audio = audio
  c1 = c1
  c2 = c2
  Types <- MCTypes
  Components <- MCComponents
  NeedComponents <- MCNeedComponents
  MaxSystems = 3
  MaxDeclarations = 3
SYMMETRY Symmetry
INVARIANTS
  EverySystemOnce
  LayersRaceFree
  OrderRespected
  LayeredByDepth
PROPERTIES
  AbortsIffUnschedulable
CHECK_DEADLOCK FALSE
