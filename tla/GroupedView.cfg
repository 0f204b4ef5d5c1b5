SPECIFICATION Spec
CONSTANTS
  FACE = 2
  TILE = 4
  Endpoints <- MCEndpoints
INVARIANTS
  TypeOK
  CounterExact
  ScatterDisjoint
PROPERTIES
  ImplementsTileCopy
