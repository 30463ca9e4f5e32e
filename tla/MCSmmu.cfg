SPECIFICATION Spec
CONSTANTS
  q_max_entries = 2
  max_sid = 1
  smmu_id = 0
  Manifests <- Alternatives
  Vm <- Vms
  Stale <- Garbage
INVARIANTS
  CachesSafe
PROPERTIES
  CmdqIsFifo
CHECK_DEADLOCK FALSE
