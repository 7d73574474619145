CONSTANTS
  Proc <- MCProc2
  InitProc = 1
  Pipe = {q1}
  MaxOpenFiles = 3
  DupBase = 2
  NoFile = NoFile
  MaxPipeProc = 2
  PageContents <- MCCleanPages
  Size = 1
  Byte = {0}
  MaxCount = 0
  Fill = 0
SPECIFICATION Spec
PROPERTIES
  ReadRefusedOnlyWhenClosed
CHECK_DEADLOCK FALSE
