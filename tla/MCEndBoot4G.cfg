CONSTANTS
  SetupTypes = {"4", "5", "4to5"}
  MaxDescs = 5
  InitialRoom = 2
  Need4 <- MCNeed4
  Need5 <- MCNeed5
  NeedTmp <- MCNeedTmp
  PageSize = 4
  RelocSize = 3
  ScratchSize = 2
  ScratchAlign = 2
  InitialPages = 4
  MaxEvents = 2
  PoolFailures = 1
  PageFailures = 1
SPECIFICATION Spec
CHECK_DEADLOCK FALSE
INVARIANT
  BufferIsBelow4G
