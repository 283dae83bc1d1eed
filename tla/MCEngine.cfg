SPECIFICATION Spec
CONSTANTS
  Nil = Nil
CHECK_DEADLOCK FALSE
INVARIANTS
  AllCountsExact
  CreateSound
  
  
  HistogramSound
  
  ThresholdKept
  FuturesSafe
  CppSafe
PROPERTIES
  ImplementsLifecycle
