SPECIFICATION ShellSpec
CONSTANTS
  N = 14
  Calls = {"fork", "exit", "wait", "exec"}
  MaxMs = 1
  MaxSleep = 0
INVARIANT
  PromptAfterCompletion
PROPERTY
  PromptReturns
CHECK_DEADLOCK FALSE
