SPECIFICATION Spec
CONSTANTS
  N = 3
  Calls = {"yield", "sleep", "fork", "exit", "exec"}
  MaxMs = 2
  MaxSleep = 2
INVARIANTS
  TypeOK
  NoSleeperRuns
CHECK_DEADLOCK FALSE
