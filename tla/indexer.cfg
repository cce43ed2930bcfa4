CONSTANTS
  Surroundings <- Looked
  MaxEvents = 2
SPECIFICATION FairSpec
CHECK_DEADLOCK FALSE
PROPERTIES
  WindowRespected
  DirectWindowOpen
  LeechesOnlyOnWord
  WaitEnds
