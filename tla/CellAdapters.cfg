CONSTANTS
  Runs = 2
  Fds = 2
  Emits = {"answer", "misfit"}
  MaxWrites = 2
  MayDetach = {2}
  Kinds <- MCKinds
SPECIFICATION CellSpec
INVARIANTS
  GroupGone
  VerdictTruthful
  AnswerKept
  OneEnvelope
  AdapterRecorded
PROPERTIES
  LogFinal
  Proceeds
