CONSTANTS
  Masks = {m}
  Vectors = {x, y}
  Tables = {t}
  None = None
  FirstScan = 100
  MaxLength = 2
  MaxShapes = 4
  MaxStatements = 4
SPECIFICATION MCSpec
SYMMETRY Alike
INVARIANT TypeOK
INVARIANT ConstantsAreLengths
INVARIANT ColumnsHaveRows
CHECK_DEADLOCK FALSE
