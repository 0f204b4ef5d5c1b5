SPECIFICATION SliceSqueezeSpec
CONSTANTS
  FACE = 2
  TILE = 4
  Tensors <- MCUnitTensors
  ReshapeArgs <- MCReshapeArgs
  SliceArgs <- MCKeepingSlices
  PermArgs <- MCPermArgs
  MaxVerbs = 2
  SqueezeLate = TRUE
  W = 16
  Undefined = Undefined
CHECK_DEADLOCK FALSE
INVARIANTS
  AcceptedExact
