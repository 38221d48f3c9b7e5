CONSTANTS
  d1 = d1
  d2 = d2
  m1 = m1
  RamBadge = {d1, d2}
  RmBadge = {m1}
  NoDs = NoDs
  NumPages = 1
  MaxRegions = 2
  MaxFlight = 0
SPECIFICATION Spec
INVARIANTS
  RegionsCurrent
CHECK_DEADLOCK FALSE
