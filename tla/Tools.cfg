CONSTANTS
  fileA = fileA
  fileB = fileB
  fileC = fileC
  ignored = ignored
  id1 = id1
  id2 = id2
  Files = {fileA, fileB, fileC, ignored}
  Permitted = {fileA, fileB, fileC, ignored}
  Ignored = {ignored}
  MaxChanged = 1
  Ids = {id1, id2}
  NoId = NoId
  Parallel = 2
  MaxCalls = 3
SPECIFICATION Spec
SYMMETRY Symmetry
INVARIANTS
  OverrunBounded
  ChangesCounted
  EditsKept
  TraceExact
  NothingLost
