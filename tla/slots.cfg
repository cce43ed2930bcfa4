CONSTANTS
  Torrents = {h1, h2, h3}
  MaxDl = 1
  Forgettable = {h1}
  Recoverable = {h1}
SPECIFICATION SlotFairSpec
INVARIANTS
  AdmissionsFit
PROPERTIES
  QueuedProceeds
