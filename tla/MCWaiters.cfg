SPECIFICATION Spec
CONSTANTS
  Nil = Nil
CHECK_DEADLOCK FALSE

  
PROPERTIES
  RegistrationLive
  AwaitsEnd
