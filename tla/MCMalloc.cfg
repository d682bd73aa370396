SPECIFICATION HeapSpec
CONSTANTS
  Malign = 4
  MetaSize = 2
  PageSize = 8
  HeapStart = 8
  StackEnd = 32
  StackTop = 48
  AddrMod = 64
  Requests = {0, 1, 4, 9}
  MaxBlocks = 5
INVARIANTS
  BlocksDisjoint
  BlocksInHeap
PROPERTY
  ImplementsAllocator
CHECK_DEADLOCK FALSE
