CONSTANTS
  Block = 1
  BlockDim = 3
  Tries = 2
  FreshFlags = {0, 1}
  PassingSets <- MCPassingSets
  MaxProves = 2
  MaxRounds = 2
SPECIFICATION Spec
PROPERTIES
  SearchEnds
  FindKept
