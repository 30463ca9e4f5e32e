SPECIFICATION Spec
CONSTANTS
  Cpus <- MCCpus
  VmOf <- MCVmOf
  Builds <- MCBuilds
  Base <- MCBase
  Slots = 6
  TX_BUFF_SZ = 2
  Scenes <- MCScenes
  VIRTIO <- MCVirtio
  VGIC <- MCVGic
  Ram <- MCRam
INVARIANTS
  
  RegistersServed
  
PROPERTIES
  TrapReturns
CHECK_DEADLOCK FALSE
