SPECIFICATION Spec
CONSTANTS
  NCpus = 3
  cpus <- McCpus
  Uses <- McUses
  Accesses <- McAccesses
  Frames = 3
  UintMod = 16
  MaxAccesses = 3
  MaxOffs = 1
INVARIANTS
  ExclusiveAccess
  DeliveredToUser
  DistributorOn
  FramesOwn
PROPERTIES
  AccessReturns
CHECK_DEADLOCK FALSE
