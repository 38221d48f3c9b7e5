CONSTANTS
  a1 = a1
  a2 = a2
  t1 = t1
  t2 = t2
  Thread = {t1, t2}
  NumRamds = 1
  Dd = {a1, a2}
  NoDd = NoDd
  DsOf <- OneDsOf
  ListHead <- OneListHead
  AtZero <- OneAtZero
  CapMapDs = {1}
  Val = {0, 1}
  Zero = 0
  MaxSignals = 2
SPECIFICATION Spec
SYMMETRY ThreadSymmetry
INVARIANTS
  TypeOK
  HeadNotForgotten
  FaultCovered
  CapMapReadable
PROPERTIES
  SnapshotSpec
  FrozenMemory
CHECK_DEADLOCK FALSE
