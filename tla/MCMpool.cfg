SPECIFICATION Spec
CONSTANTS
  Thread = {t1, t2}
  ppool = ppool
  NULL = NULL
  entry_size = 2
  Region <- RawRegion
  Counts <- OneTwo
  Aligns <- OneTwo
SYMMETRY Symmetry
INVARIANTS
  Conserved
