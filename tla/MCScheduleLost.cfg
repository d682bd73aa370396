SPECIFICATION FairSpec
CONSTANTS
  N = 5
  Calls = {"yield", "fork", "exit"}
  MaxMs = 0
  MaxSleep = 0
PROPERTY
  ReadyRuns
CHECK_DEADLOCK FALSE
