CONSTANTS
  p1 = p1
  p2 = p2
  p3 = p3
  Absent = Absent
  Proc = {p1, p2, p3}
  HostOf <- OneHost
  Forced = {}
  MayCrash = {}
  PidReuse = FALSE
SPECIFICATION Spec
INVARIANTS
  MutualExclusion
