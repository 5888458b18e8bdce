CONSTANTS
  Names = {"p", "a", "b", "c", "d"}
  Programs <- MCAll
SPECIFICATION Spec
INVARIANT TypeOK
PROPERTY ChainsCoverUses
PROPERTY FusionKeepsValues
CHECK_DEADLOCK FALSE
