SPECIFICATION Spec
CONSTANTS
  Threads = {el, w}
  EventLoop = el
  MaxDepth = 1
  QueueDepth = 2
  PollBatch = 2
  Limits = {2}
  Passthrough = FALSE
  Thresholds = {1}
  Kinds = {"plain"}
  FlushFaults = {}
  Sqpoll = FALSE
  Forever = FALSE
  NoAct = NoAct
INVARIANTS
  CancelHitsAsked
