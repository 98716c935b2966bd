SPECIFICATION ManagerSpec
CONSTANTS
  MaxSlots = 1
  MaxGeneration = 1
  GenerationModulus = 2
  Managers = {"default", "game"}
  Systems = {"s1", "s2"}
  Components = {"c1"}
  ManagerOf <- MCTwoManagers
  Requires <- MCSameRequirement
  NoManager = "none"
  NoOwner = NoOwner
  HookScope = "others"
  MaxDepth = 2
  MaxQueue = 2
INVARIANTS
  SubscribedHaveRequired
PROPERTIES
  LossesAreOwn
