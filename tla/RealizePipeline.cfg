SPECIFICATION FairSpec
CONSTANTS
  Cores = {k1, k2}
  T0 <- MCT0
  Count <- MCCount
  Depth = 2
  Faces = {left, right}
  Zero = Zero
  Junk = Junk
  Old = Old
INVARIANTS
  TypeOK
  PublishedExact
PROPERTIES
  ImplementsRelayout
  Halts
