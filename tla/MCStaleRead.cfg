CONSTANTS
  Vars <- MCVars
  Methods <- MCMethods
  Main = "main"
  ParamVars <- Params1
  LocalVars <- MCLocalVars
  RtnArity <- MCRtnArity
  FallsOff <- MCFallsOff
  Values = {v1, v2}
  NULL = NULL
  Junk = Junk
  Underscore = Underscore
  MaxArity = 1
  Malloced = {NULL}
  STACK_SIZE = 6
  MaxDepth = 2
SPECIFICATION Spec
INVARIANT UninitialisedReadFails
CHECK_DEADLOCK FALSE
