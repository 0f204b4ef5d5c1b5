SPECIFICATION Spec
CONSTANTS
  TILE = 2
  NARROW = 2
  STREAM = 2
  EPS = 100
  Programs <- PaddedPrograms
  Old = Old
PROPERTIES
  WritesExact
