CONSTANTS
  t1 = t1
  t2 = t2
  t3 = t3
  Thread = {t1, t2}
  Main = t1
  Ck = Ck
SPECIFICATION Spec
INVARIANTS
  TargetPaused
CHECK_DEADLOCK FALSE
