CONSTANTS
  Proc <- MCProc2
  InitProc = 1
  Pipe = {q1}
  MaxOpenFiles = 2
  DupBase = 2
  NoFile = NoFile
  MaxPPipeProc = 2
  PageContents <- MCCleanPages
  Overrun <- MCBufferAfter
  Size = 3
  Byte = {0, 1}
  MaxCount = 3
  Fill = 0
SPECIFICATION PartialSpec
PROPERTIES
  WritesUsersData
CHECK_DEADLOCK FALSE
