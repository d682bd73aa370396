SPECIFICATION Spec
CONSTANTS
  N = 4
  Calls = {"yield", "fork", "exit", "wait", "waitpid", "exec"}
  MaxMs = 0
  MaxSleep = 0
INVARIANT
  UniquePid
PROPERTY
  WaitReturnsChild
CHECK_DEADLOCK FALSE
