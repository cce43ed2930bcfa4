CONSTANTS
  a = a
  b = b
  c = c
  d = d
  AllFiles = {a, b, c, d}
  Size <- Sizes
  Cap = 2
  Settings <- Steady
  MaxFails = 2
  MaxParks = 1
  MaxHeals = 2
SPECIFICATION FairSpec
CHECK_DEADLOCK FALSE
PROPERTIES
  Settles
