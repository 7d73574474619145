CONSTANTS
  MaxProcesses = 4
  MaxThreads = 2
  Area = {a}
  MaxAreas = 1
  Siblings = {"NOACCESS", "RDONLY"}
  NoOwner = none
  MaxCreated = 3
  MaxSleep = 1
  NullReturns = {2}
SPECIFICATION FairSpec
INVARIANTS
  TypeOK
  PicksNearestReady
  LookupFindsOwnSlot
  FlagsAreDue
  JoinEndsAfterStores
  JoinReturnsResult
  EntriesAgree
  RunsRegistered
  CloneSucceeds
  AreasAgree
  NothingLeft
PROPERTIES
  JoinTerminates
  ReadyRuns
