SPECIFICATION Spec
CONSTANTS
  Nothing = Nothing
CHECK_DEADLOCK FALSE
INVARIANTS
  
  HashSafe
  
  BffioSafe

  
