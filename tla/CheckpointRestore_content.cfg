CONSTANTS
  Menus <- OneDataspace
  MaxSlots = 7
  MaxCheckpoints = 1
  HeadsUp <- HeadDataspace
SPECIFICATION Spec
INVARIANT ContentRestored
CHECK_DEADLOCK FALSE
