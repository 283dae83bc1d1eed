SPECIFICATION Spec
CONSTANTS
  Users = {t1, t2}
  Pools = {pa, pb}
  Nil = Nil
  Failed = Failed
SYMMETRY Symmetry
CHECK_DEADLOCK FALSE
INVARIANTS
  PoolSound
PROPERTIES
  ImplementsMap
