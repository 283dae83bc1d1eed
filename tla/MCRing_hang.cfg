SPECIFICATION FairSpec
CONSTANTS
  Threads = {el, w}
  EventLoop = el
  MaxDepth = 1
  QueueDepth = 2
  PollBatch = 2
  Limits = {1}
  Passthrough = FALSE
  Thresholds = {1}
  Kinds = {"plain"}
  FlushFaults = {}
  Sqpoll = FALSE
  Forever = TRUE
  NoAct = NoAct
PROPERTIES
  WaitReturns
