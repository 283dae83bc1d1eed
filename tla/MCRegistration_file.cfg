SPECIFICATION Spec
CONSTANTS
  Threads = {loop, app}
  EventLoop = loop
  MaxDepth = 1
  NRings = 1
  RequestsPerRing = 1
  Fds = {f1, f2}
  FileIndices = {}
  SoleOwner = FALSE
  NoTable = NoTable
  NoAct = NoAct
  NoSlot = NoSlot
INVARIANTS
  FileAsNamed
