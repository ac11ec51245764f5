CONSTANTS
  p1 = p1
  p2 = p2
  p3 = p3
  Absent = Absent
  Proc = {p1, p2}
  HostOf <- OneHost
  Forced = {}
  MayCrash = {p1, p2}
  PidReuse = TRUE
SPECIFICATION Spec
INVARIANTS
  MutualExclusion
PROPERTIES
  ImplementsExclusiveLock
