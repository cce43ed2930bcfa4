CONSTANTS
  folder = folder
  heal = heal
  file = file
  path = path
  own = own
  other = other
  None = None
  Rows = {folder, heal, file}
  Heals = {heal}
  Trees = {path, own, other}
  Procs = {p1, p2, p3, p4}
  Placements <- Each
  MaxFaults = 2
SPECIFICATION MoveFairSpec
CHECK_DEADLOCK FALSE
INVARIANTS
  OneMover
PROPERTIES
  Served
