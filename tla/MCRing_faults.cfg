SPECIFICATION Spec
CONSTANTS
  Threads = {el, w}
  EventLoop = el
  MaxDepth = 1
  QueueDepth = 2
  PollBatch = 2
  Limits = {2}
  Passthrough = FALSE
  Thresholds = {2}
  Kinds = {"plain"}
  FlushFaults = {"partial", "transient", "fatal"}
  Sqpoll = FALSE
  Forever = FALSE
  NoAct = NoAct
INVARIANTS
  RingStrong
  SlotsPartitioned
  NoBugBranch
  CountersExact
  SqNeverFull
  CancelHitsAimed
