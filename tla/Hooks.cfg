SPECIFICATION ManagerSpec
CONSTANTS
  MaxSlots = 2
  MaxGeneration = 2
  GenerationModulus = 4
  Managers = {"default"}
  Systems = {"s1", "s2"}
  Components = {"c1"}
  ManagerOf <- MCOneManager
  Requires <- MCSameRequirement
  NoManager = "none"
  NoOwner = NoOwner
  HookScope = "others"
  MaxDepth = 3
  MaxQueue = 0
INVARIANTS
  SlotsPartitioned
  IssuedHandlesDated
  SubscriptionsMirrored
  NoStaleComponents
  SubscribedHaveRequired
  HooksAlternate
PROPERTIES
  NoHandleRevived
  ImplementsAllocator
  ImplementsWorld
