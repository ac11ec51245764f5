CONSTANTS
  p1 = p1
  p2 = p2
  None = None
  Broken = Broken
  Proc = {p1, p2}
  Commands = {"eval", "clean"}
  MayCrash = {}
  Versions = 2
  Reverts = TRUE
  EditAnytime = FALSE
SPECIFICATION Spec
INVARIANTS
  CellsUseIntactCache
