SPECIFICATION Spec
CONSTANTS
  EntryCount = 5
  Base <- MCBase
  PhysBase = 5
  PhysFree = 6
  Ptr <- MCPtr
  MaxMapCount = 2
INVARIANTS
  FreeListExact
  NeverCorrupt
PROPERTY
  ImplementsPageAlloc
