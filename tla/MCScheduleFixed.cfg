SPECIFICATION FixedSpec
CONSTANTS
  N = 5
  Calls = {"yield", "fork", "exit"}
  MaxMs = 0
  MaxSleep = 0
PROPERTIES
  ImplementsRoundRobin
  ReadyRuns
  ExitedIsRemoved
