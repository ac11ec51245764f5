CONSTANTS
  Proc = {p1, p2, p3}
  First = First
  None = None
  Cleaners = {p1}
  MayCrash = {p1}
SPECIFICATION Spec
INVARIANTS
  CurrentComplete
  NewTakesEffect
PROPERTIES
  LockProtects
  LastOneCreates
