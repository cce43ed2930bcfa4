CONSTANTS
  d1 = d1
  d2 = d2
  r1 = r1
  r2 = r2
  Drops = {d1, d2}
  Racing = {r1, r2}
  Rank <- MixedRanks
  MaxOps = 1
SPECIFICATION Spec
CHECK_DEADLOCK FALSE
INVARIANTS
  OneRacingRow
  SomebodyMayGo
PROPERTIES
  DuplicatesOnlyFromOverlap
  GraceRespected
  HeldStaysOut
