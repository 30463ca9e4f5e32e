SPECIFICATION FairSpec
CONSTANTS
  c0 = c0
  c1 = c1
  c2 = c2
  Cpu <- AllCpu
  BootCpu = c0
  NoCpu = NoCpu
  VmCount = 2
  cpus <- TwoVms
  Affinity <- Affinities
  MT = FALSE
  Entry = {e1, e2}
  KernelEntry = k
  Resume = resume
  OffDenied = {}
INVARIANT LoopOnlyWhileTurningOff
CHECK_DEADLOCK FALSE
