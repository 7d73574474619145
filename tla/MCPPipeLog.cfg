CONSTANTS
  Proc <- MCProc2
  InitProc = 1
  Pipe = {q1}
  MaxOpenFiles = 2
  DupBase = 2
  NoFile = NoFile
  MaxPPipeProc = 2
  PageContents <- MCCleanPages
  Overrun <- MCBufferBefore
  Size = 2
  Byte = {0, 1}
  MaxCount = 2
  Fill = 0
SPECIFICATION PartialSpec
INVARIANTS
  TypeOK
  SlotsMatchDescriptors
  FrontsInRing
PROPERTIES
  ImplementsPPipeSpec
CHECK_DEADLOCK FALSE
