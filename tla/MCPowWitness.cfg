CONSTANTS
  Block = 2
  BlockDim = 2
  Tries = 2
  FreshFlags = {0}
  PassingSets <- MCPassingSets
  MaxProves = 2
  MaxRounds = 2
SPECIFICATION Spec
INVARIANT
  PowWitnessPasses
