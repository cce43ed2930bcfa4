CONSTANTS
  Members = {m1, m2}
  Pools = {{m1}, {m1, m2}}
  Callers = {c1, c2}
  Dialers = {d1, d2}
  Closers = {"boot", "stop"}
  None = None
  Blank = Blank
SPECIFICATION PoolFairSpec
CHECK_DEADLOCK FALSE
INVARIANTS
  OneTransportEach
PROPERTIES
  LeaseEnds
  Heals
  ReadUndisturbed
