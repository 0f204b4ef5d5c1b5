SPECIFICATION Spec
CONSTANTS
  FACE = 2
  TILE = 4
  Tensors <- MCTensors
  ReshapeArgs <- MCReshapeArgs
  SliceArgs <- MCSliceArgs
  PermArgs <- MCPermArgs
  MaxVerbs = 3
  SqueezeLate = FALSE
  W = 16
  Undefined = Undefined
CHECK_DEADLOCK FALSE
INVARIANTS
  TypeOK
  AcceptedExact
  FaceRowsWhole
  RowsApart
  DenseIsPageCopy
