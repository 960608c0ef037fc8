CONSTANTS
  N = 5
  Generator <- MCGenerator
  Target <- MCTarget
  Type <- MCType
  Circuits <- MCCircuits
  ChainFastMinLevels = 3
  StreamedLayerThreshold = 3
  Garbage = Garbage
  Zero = Zero
SPECIFICATION ReplaySpec
INVARIANTS
  BuildNeverPanics
  ScheduleLegal
  SortInv
  LayersPopulated
  WitnessCorrect
PROPERTIES
  PlacedOnce
  SortTerminates
  SlotsWrittenOnce
  ImplementsPartialWitness
