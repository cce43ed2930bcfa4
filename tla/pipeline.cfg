CONSTANTS
  a = a
  b = b
  c = c
  d = d
  AllFiles = {a, b, c, d}
  Size <- Sizes
  Cap = 2
  Settings <- Safe
  MaxFails = 2
  MaxParks = 1
  MaxHeals = 2
SPECIFICATION Spec
CHECK_DEADLOCK FALSE
INVARIANTS
  OnlyCompleteShipped
  PassedBatchesDelivered
  OneBatchSelected
  SelectedFits
PROPERTIES
  KeepsPromise
