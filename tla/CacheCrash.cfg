CONSTANTS
  p1 = p1
  p2 = p2
  None = None
  Broken = Broken
  Proc = {p1}
  Commands = {"prepare", "eval", "clean"}
  MayCrash = {"prepare", "eval"}
  Versions = 3
  Reverts = FALSE
  EditAnytime = TRUE
SPECIFICATION Spec
INVARIANTS
  FreshMeansIntact
  NeverOlderThanHash
