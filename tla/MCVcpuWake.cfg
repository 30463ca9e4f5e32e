SPECIFICATION FairSpec
CONSTANTS
  VmId <- WakeVms
  vcpu_count <- WakeCount
  Cpu = {1, 2}
  pinned <- WakePinned
  Intid = {0}
  Types <- IrqOnly
  CountMod = 3
  NULL = NULL
  Free = Free
INVARIANTS
  CountsSum
  
PROPERTIES
  HandlersReturn
CHECK_DEADLOCK FALSE
