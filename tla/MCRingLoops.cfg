CONSTANTS
  Size = 3
  Byte = {0, 1}
  MaxCount = 4
  Fill = 0
SPECIFICATION Spec
INVARIANTS
  TypeOK
  WriteAppends
  ReadRemoves
  ClosedForms
