SPECIFICATION Spec
CONSTANTS
  PerPage <- MCPerPage
  MaxStruct = 12
  Task = {1, 2, 3}
  Tar <- MCTar
  Paths <- MCPaths
  Dirs <- MCDirs
  FdArgs = {2}
  Counts = {1, 2}
  MaxFd = 3
  MaxPathLen = 2
  MaxObjects = 2
INVARIANTS
  TypeOK
  ListsKept
  NotSharedTwice
  LostOnlyToRelative
  ReadsInOrder
  ListingComplete
CHECK_DEADLOCK FALSE
