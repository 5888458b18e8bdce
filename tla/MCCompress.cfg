CONSTANTS
  H_CORE = 4
  thresheld = 4
  a = a
  b = b
  Items <- MCItems
  NoItem = NoItem
  Lengths <- MCLengths
SPECIFICATION Spec
INVARIANT TypeOK
INVARIANT FreeCell
INVARIANT KeepsSelected
PROPERTY Terminates
CHECK_DEADLOCK FALSE
