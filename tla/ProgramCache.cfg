SPECIFICATION Spec
CONSTANTS
  Sessions <- MCSessions
  Bases = {10, 20}
  NoOut = NoOut
  NumCores = 2
  K = 2
  IO_DEPTH = 4
  WideTiles = 2
  TILE = 2
  Zero = Zero
  None = None
INVARIANTS
  TypeOK
  DeliversMeant
  StaysInside
  KernelsAgree
  LaunchFresh
