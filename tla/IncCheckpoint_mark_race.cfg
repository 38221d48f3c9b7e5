CONSTANTS
  a1 = a1
  a2 = a2
  t1 = t1
  t2 = t2
  Thread = {t1}
  NumRamds = 1
  Dd = {a1, a2}
  NoDd = NoDd
  DsOf <- OneDsOf
  ListHead <- OneListHead
  AtZero <- OneAtZero
  CapMapDs = {}
  Val = {0, 1}
  Zero = 0
  MaxSignals = 2
SPECIFICATION Spec
INVARIANTS
  HeadNeverForgotten
CHECK_DEADLOCK FALSE
