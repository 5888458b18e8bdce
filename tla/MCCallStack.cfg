CONSTANTS
  Vars <- MCVars
  Methods <- MCMethods
  Main = "main"
  ParamVars <- Params1
  LocalVars <- MCLocalVars
  RtnArity <- MCRtnArity
  FallsOff <- MCFallsOff
  Values = {v1}
  NULL = NULL
  Junk = Junk
  Underscore = Underscore
  MaxArity = 1
  Malloced = {NULL, Junk}
  STACK_SIZE = 4
  MaxDepth = 2
SPECIFICATION MCSpec
INVARIANT TypeOK
INVARIANT StackLayout
INVARIANT AssignedStaysReadable
PROPERTY ImplementsActivations
CHECK_DEADLOCK FALSE
