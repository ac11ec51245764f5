CONSTANTS
  p1 = p1
  p2 = p2
  p3 = p3
  Absent = Absent
  Proc = {p1, p2, p3}
  HostOf <- TwoHosts
  Forced = {p3}
  MayCrash = {p1, p2, p3}
  PidReuse = FALSE
SPECIFICATION FairSpec
INVARIANTS
  OwnerUnlessRobbed
  NoLeakedLock
PROPERTIES
  RobberyExplained
  StaleLockReclaimed
