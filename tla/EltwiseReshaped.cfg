SPECIFICATION Spec
CONSTANTS
  Calls <- MCReshaped
  NoOut = NoOut
  NumCores = 2
  DEPTH = 2
  TILE = 2
  Old = Old
  Zero = Zero
  Junk = Junk
INVARIANTS
  OperandsCover
