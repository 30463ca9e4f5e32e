SPECIFICATION Spec
CONSTANTS
  PAGE_COUNT = 32
  MAX_IDS = 8
  ArrayBegin = 4
  ArrayPages = 1
  LevelPages = 2
  Levels = 2
  CacheSize = 5
  Vms = {1, 2}
  Ipas = {0,1,2,3,4,5,6,7,8,9,10,11,12,13,14,15,16,17,18,19,20,21,22,23,24,25,26,27,28,29,30,43,44}
  Outside = {40, 41, 43, 44}
  Manifests <- SomeManifests
  Sections <- Image
  Fdt <- FdtRange
  Initrd <- InitrdRange
  GicPages <- Gic
  VgicPages = 1
  DeviceRanges <- Shared
  MaxSplits = 2
  MAX_VMS = 2
  MAX_CPUS = 2
  MaxInterrupts = 2
  BootArg = 6
  MaxFaults = 1
INVARIANTS
  PagesConsistent
  OnlyOwnMemory
  
  MemoryAccounted
PROPERTIES
  BootEnds
CHECK_DEADLOCK FALSE
