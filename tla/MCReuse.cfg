CONSTANTS
  Names = {"x0", "x1", "x2", "z"}
  Programs <- MCT16
SPECIFICATION Spec
PROPERTY FusionKeepsValues
CHECK_DEADLOCK FALSE
