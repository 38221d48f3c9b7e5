CONSTANTS
  t1 = t1
  t2 = t2
  t3 = t3
  Thread = {t1, t2}
  Main = t1
  Ck = Ck
SPECIFICATION FairSpec
PROPERTIES
  Killed
CHECK_DEADLOCK FALSE
