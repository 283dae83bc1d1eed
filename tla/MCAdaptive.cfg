SPECIFICATION FairSpec
CONSTANTS
  MaxQueueDepth = 4
  InitialInFlight = 2
  InitialMin = 2
  WarmupSamples = 2
  SettlingTicks = 2
  ReprobeInterval = 2
  SteadyThreshold = 3
  EngageTicks = 3
  EngageDelta = 1
  ReenterTicks = 2
  ReenterDelta = 1
  MinBatch = 2
  MaxBatch = 3
  IntMax = 4
  FixedBatches = {}
INVARIANTS
  AdaptiveInv
  LimitInRange
  
  
PROPERTIES
  CalmRecovers
  NeverBelowFloor
  SpikesConfirmed
