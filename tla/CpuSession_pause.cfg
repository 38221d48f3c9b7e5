CONSTANTS
  t1 = t1
  t2 = t2
  t3 = t3
  Thread = {t1, t2}
  Main = t1
  Ck = Ck
SPECIFICATION FairSpec
INVARIANTS
  TypeOK
  OnlyLateRun
PROPERTIES
  PausedAreStored
  Answered
  PausingEnds
CHECK_DEADLOCK FALSE
