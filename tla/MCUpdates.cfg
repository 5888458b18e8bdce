CONSTANTS
  Names = {"a", "b"}
  Programs <- MCUpdates
SPECIFICATION Spec
PROPERTY ChainsCoverUses
CHECK_DEADLOCK FALSE
