SPECIFICATION Spec
CONSTANTS
  Proc = {p1, p2, p3}
  Page = {q1, q2, q3, q4, q5}
  None = None
  Layouts <- MCLayouts
  HeapBase = 2
  StackBase = 3
  Top = 4
  PageSize = 2
  Value = {0, 1}
  Brks = {5}
  TablePages = 0
  Buffers = {3, 4}
SYMMETRY Symmetry
INVARIANTS
  TypeOK
  MappedIsCounted
  WritableIsPrivate
PROPERTY
  ImplementsPrivateMemory
CHECK_DEADLOCK FALSE
