SPECIFICATION Spec
CONSTANTS
  Addresses = {0, 3, 8}
  MaxSlot = 3
  CmdSlots = 2
  MaxSpin = 2
  Blocks = 3
  Sectors = 8
  PerEntry = 16
  ByteMod = 4
  MaxFaults = 2
INVARIANTS
  TypeOK
  ControllerFound
  WrittenIsStored
  VerdictSound
PROPERTIES
  RebaseWhileStopped
  TablesKept
  TestEnds
CHECK_DEADLOCK FALSE
