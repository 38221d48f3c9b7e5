CONSTANTS
  Menus <- KindsTogether
  MaxSlots = 7
  MaxCheckpoints = 2
  HeadsUp <- HeadDataspace
SPECIFICATION Spec
INVARIANTS
  TypeOK
  StoredCurrent
  ObjectsRestored
  RestorableIsRestored
  CapSpaceRestored
  CapMapIntact
  MemoryPlanned
  MergeSortSorts
PROPERTY RegionsAccounted
CHECK_DEADLOCK FALSE
