SPECIFICATION FairSpec
CONSTANTS
  Cores = {k1, k2}
  T0 <- MCT0
  Count <- MCCount
  K = 2
  IO_DEPTH = 4
  Shapes <- MCShapes
  TILE = 4
  Selections <- MCSelections
  Junk = Junk
  Old = Old
INVARIANTS
  TypeOK
  ChunksInRing
  PublishedExact
PROPERTIES
  ImplementsRowCopy
  Returns
