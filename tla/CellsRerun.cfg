CONSTANTS
  None = None
  Cells = 2
  MaxTask = 4
  MaxFault = 1
  MaxLook = 1
  MaxRerun = 1
  CrashIn <- Between
  Filters <- All
  FailIn <- Quiet
  Detach = {}
  Editors = {}
  Installers = {1}
SPECIFICATION Spec
INVARIANTS
  DoneMeansScored
  StatusLasting
  VenvMutationFlagged
