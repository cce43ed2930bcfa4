SPECIFICATION Spec
CONSTANTS
  Racing = racing
  CrossSeed = crossSeed
  None = none
  MaxRetries = 1
  MaxEvents = 2
  Operations <- All
INVARIANTS
  TypeOK
  Accounted
PROPERTIES
  NoBlindDemotion
  IgnoredStaysOut
CHECK_DEADLOCK FALSE
