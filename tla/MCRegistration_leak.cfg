SPECIFICATION FairSpec
CONSTANTS
  Threads = {loop, app}
  EventLoop = loop
  MaxDepth = 1
  NRings = 1
  RequestsPerRing = 1
  Fds = {f1, f2}
  FileIndices = {0, 1}
  SoleOwner = FALSE
  NoTable = NoTable
  NoAct = NoAct
  NoSlot = NoSlot
PROPERTIES
  LocksObtained
CHECK_DEADLOCK FALSE
