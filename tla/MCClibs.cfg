SPECIFICATION ClibsSpec
CONSTANTS
  NULL = NULL
  Heads = {h1, h2}
  Entries = {e1, e2, e3}
  Lengths <- MCLengths
  Values <- MCValues
  Graphs <- MCGraphs
  INT_MAX = 100
  Names = {"a", "b"}
  Indexes <- MCIndexes
  MaxNodes = 4
  Bytes <- MCBytes
  MemSize = 5
  UINT_MAX = 15
  Formats <- MCFormats
  Sizes <- MCSizes
  PRINTF_BUF = 5
  TOP = 32
  BUF = 4
  UINT = 64
  USHORT = 16
SYMMETRY Sym
CHECK_DEADLOCK FALSE
INVARIANTS
  ListSafe WalkMissesNothing QuickSortCorrect HeapSortCorrect PathsCorrect
  TreeCorrect StringsCorrect PrintCorrect
PROPERTIES
  ImplementsLists AddedBelowParent
