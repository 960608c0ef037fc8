CONSTANTS
  Element <- MCElement
  Sponge = {}
  ZeroSponge <- MCZeroSponge
  Absorb <- MCAbsorb
  Squeeze <- MCSqueeze
  Zero <- MCZero
  Configs <- MCConfigs
SPECIFICATION Spec
INVARIANTS
  CallsDisciplined
  PowResponseIsTranscripts
PROPERTIES
  ImplementsVerifier
