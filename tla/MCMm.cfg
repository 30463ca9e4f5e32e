SPECIFICATION Spec
CONSTANTS
  P = 2
  MaxLevel = 2
  Roots = 1
  BlockMax = 1
  PoolSize = 5
  Ranges <- SomeRanges
  Offsets <- SomeOffsets
  Cached = {1, 2, 5}
INVARIANTS
  CommitCannotFail
  TlbCoherent
  TablesAccounted
  
  ArchAgrees
PROPERTIES
  
  UpdateReturns
