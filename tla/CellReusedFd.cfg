CONSTANTS
  Runs = 2
  Fds = 2
  Emits = {"answer"}
  MaxWrites = 1
  MayDetach = {1}
  Kinds <- MCCommands
SPECIFICATION CellSpec
INVARIANTS
  AnswerNeverLost
