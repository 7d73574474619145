CONSTANTS
  Proc <- MCProc3
  InitProc = 1
  Pipe = {q1}
  MaxOpenFiles = 2
  DupBase = 2
  NoFile = NoFile
  MaxPipeProc = 3
  PageContents <- MCCleanPages
  Size = 2
  Byte = {0, 1}
  MaxCount = 1
  Fill = 0
SPECIFICATION PlainSpec
INVARIANTS
  TypeOK
  SlotsMatchDescriptors
  LiveWhileOpen
  CountsMatchDescriptors
  ForkHandlersSucceed
PROPERTIES
  ImplementsPipeSpec
VIEW MCView
CHECK_DEADLOCK FALSE
