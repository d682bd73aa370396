SPECIFICATION ClockSpec
CONSTANTS
  DayLength = 3
  MaxTicks = 300
INVARIANTS
  ClocksAgree
CHECK_DEADLOCK FALSE
