CONSTANTS
  t1 = t1
  t2 = t2
  Thread = {t1, t2}
  Page = 2
  Granularity = 1
  Sizes = {1, 3}
  Quota = 6
  MaxMaps = 2
  MaxCheckpoints = 2
SPECIFICATION Spec
INVARIANTS
  TypeOK
  Tiled
  RamAccounted
  DiesForCause
PROPERTIES
  FaultResolved
  Answered
CHECK_DEADLOCK FALSE
