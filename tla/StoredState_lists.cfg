CONSTANTS
  d1 = d1
  d2 = d2
  m1 = m1
  RamBadge = {d1, d2}
  RmBadge = {m1}
  NoDs = NoDs
  NumPages = 2
  MaxRegions = 2
  MaxFlight = 1
SPECIFICATION Spec
SYMMETRY RamSymmetry
INVARIANTS
  TypeOK
  RefCountExact
  RamRegular
  RegionsRestorable
PROPERTIES
  EverySaved
CHECK_DEADLOCK FALSE
