SPECIFICATION Spec
CONSTANTS
  FACE = 2
  TILE = 4
  SourceRows = {4, 8}
  SourceCols = {4, 8}
  MaxRows = 6
  MaxCols = 10
  Maps <- MCMaps
INVARIANTS
  TypeOK
  CursorExact
  RowCursorExact
  MovesExact
PROPERTY ImplementsTileCopy
