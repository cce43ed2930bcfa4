CONSTANTS
  Setups <- Releases
  MaxCycles = 1
  MaxEvents = 1
SPECIFICATION FairSpec
CHECK_DEADLOCK FALSE
INVARIANTS
  TypeOK
PROPERTIES
  LastCopyKept
  NoBlindSeed
  SourceSeeds
  ReAddEnds
