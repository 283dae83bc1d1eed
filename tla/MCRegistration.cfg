SPECIFICATION Spec
CONSTANTS
  Threads = {loop, app}
  EventLoop = loop
  MaxDepth = 1
  NRings = 2
  RequestsPerRing = 1
  Fds = {f1, f2}
  FileIndices = {0}
  SoleOwner = FALSE
  NoTable = NoTable
  NoAct = NoAct
  NoSlot = NoSlot
SYMMETRY FdSymmetry
INVARIANTS
  TableOutlivesUse
  RingsAgree
