SPECIFICATION Spec
CONSTANTS
  Nil = Nil
CHECK_DEADLOCK FALSE
INVARIANTS
  LimitRespected
  LoopSafe
PROPERTIES
  RingLive
  LocksLive
  LoopEnds
