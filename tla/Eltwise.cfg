SPECIFICATION FairSpec
CONSTANTS
  Calls <- MCCalls
  NoOut = NoOut
  NumCores = 2
  DEPTH = 2
  TILE = 2
  Old = Old
  Zero = Zero
  Junk = Junk
INVARIANTS
  TypeOK
  PublishedExact
PROPERTIES
  ImplementsElementwise
  Halts
