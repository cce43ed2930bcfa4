CONSTANTS
  h1 = h1
  h2 = h2
  Hashes = {h1, h2}
  Cap = 2
  Estimate <- TwoEstimates
  Footprint <- TwoFootprints
  NoHash = NoHash
  MaxRestarts = 1
  MaxRecovers = 1
SPECIFICATION FairSpec

  
PROPERTIES
  GrowsWithinBudget
  WaiterServed
