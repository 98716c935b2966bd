SPECIFICATION ManagerSpec
CONSTANTS
  MaxSlots = 1
  MaxGeneration = 1
  GenerationModulus = 2
  Managers = {"default"}
  Systems = {"s1", "s2"}
  Components = {"c1"}
  ManagerOf <- MCOneManager
  Requires <- MCSameRequirement
  NoManager = "none"
  NoOwner = NoOwner
  HookScope = "same"
  MaxDepth = 3
  MaxQueue = 0
PROPERTIES
  FreedSlotUnsubscribed
