CONSTANTS
  Keys <- MCKeys
  Hash <- MCHash
  setT = 2
  MinTable = 2
  PRE_SIZE_CELL = 1
  SLOT_SIZE = 2
  NUM_JOIN_LINEAR = 3
  MaxRows = 4
  INIT_HASH_SIZE = 16
  Clear = Clear
  Values <- MCValues
  HashOf <- MCHashOf
  NULL = NULL
  MaxSrc = 3
  MaxVal = 2
  Base = 2
  Digits = 2
  RunProbe = 2
  ListTables = {3}
  ColumnLists <- MCColumnLists
SPECIFICATION BuiltinsSpec
INVARIANT TableListsRows
INVARIANT PassesAgree
INVARIANT HashJoinIsComplete
INVARIANT JoinIsSound
INVARIANT SearchTypeOK
INVARIANT FreeMemoryIsClear
INVARIANT ChainsEnd
INVARIANT HeapIsRestored
INVARIANT IndexOfFinds
INVARIANT UniqueListsValues
INVARIANT MemberTells
INVARIANT OrderSorts
INVARIANT OrderIsStable
INVARIANT GroupsPartition
CHECK_DEADLOCK FALSE
