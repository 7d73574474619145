CONSTANTS
  Proc <- MCProc3
  InitProc = 1
  Pipe = {q1}
  MaxOpenFiles = 3
  DupBase = 2
  NoFile = NoFile
  MaxPipeProc = 3
  PageContents <- MCDirtyPages
  Size = 1
  Byte = {0}
  MaxCount = 1
  Fill = 0
SPECIFICATION PlainSpec
INVARIANTS
  ForkHandlersSucceed
CHECK_DEADLOCK FALSE
