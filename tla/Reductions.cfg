SPECIFICATION FairSpec
CONSTANTS
  TILE = 2
  NARROW = 2
  STREAM = 2
  EPS = 100
  Programs <- MCPrograms
  Old = Old
INVARIANTS
  TypeOK
  ChunksWhole
  PublishedLanded
PROPERTIES
  WritesExact
  PublishedStable
  Halts
