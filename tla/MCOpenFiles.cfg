CONSTANTS
  Proc <- MCProc2
  InitProc = 1
  Pipe = {q1}
  MaxOpenFiles = 2
  DupBase = 1
  NoFile = NoFile
  MaxPipeProc = 2
  PageContents <- MCCleanPages
  Size = 1
  Byte = {0}
  MaxCount = 0
  Fill = 0
  Object = {o1, o2}
  NoObject = NoObject
  Inode = {n1}
  NoInode = NoInode
  MaxSize = 1
SPECIFICATION OpenSpec
INVARIANTS
  OpenFilesTypeOK
  CountsMatchDescriptors
  ObjectsAgree
  OffsetsInFile
PROPERTIES
  SendfileKeepsPlace
SYMMETRY MCSymmetry
VIEW MCView
CHECK_DEADLOCK FALSE
