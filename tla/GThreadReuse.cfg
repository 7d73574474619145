CONSTANTS
  MaxProcesses = 4
  MaxThreads = 3
  Area = {}
  MaxAreas = 1
  Siblings = {}
  NoOwner = none
  MaxCreated = 3
  MaxSleep = 0
  NullReturns = {1, 2, 3}
SPECIFICATION Spec
INVARIANTS
  JoinEndsAfterStores
