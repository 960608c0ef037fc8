CONSTANTS
  Modulus = 7
  Element <- MCElement
  Sponge <- MCSponge
  ZeroSponge <- MCZeroSponge
  Absorb <- MCAbsorb
  Squeeze <- MCSqueeze
  Zero = 0
  Messages <- MCMessages
  BufferLens <- MCBufferLens
  Counts <- MCCounts
SPECIFICATION Spec
INVARIANTS
  IndicesAgree
  OutputsFresh
  ChallengerInv
PROPERTIES
  ImplementsChallenger
