CONSTANTS
  Keys <- MCKeys
  Hash <- MCHash
  setT = 2
  MinTable = 2
  PRE_SIZE_CELL = 1
  SLOT_SIZE = 2
  NUM_JOIN_LINEAR = 3
  MaxRows = 2
SPECIFICATION Spec
INVARIANT JoinIsOuterWhere
CHECK_DEADLOCK FALSE
