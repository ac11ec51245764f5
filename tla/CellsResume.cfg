CONSTANTS
  None = None
  Cells = 2
  MaxTask = 3
  MaxFault = 1
  MaxLook = 0
  MaxRerun = 0
  CrashIn <- Anywhere
  Filters <- Any
  FailIn <- AnyStep
  Detach = {1}
  Editors = {1}
  Installers = {}
SPECIFICATION FairSpec
INVARIANTS
  ScoredOwnEdits
  TestedWhatIsDiffed
PROPERTIES
  DoneCellsKept
  ReportCurrent
  MatrixFilled
