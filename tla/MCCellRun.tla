----------------------------- MODULE MCCellRun -----------------------------
(* Instances of CellRun: an adapter, then any other process.               *)
EXTENDS CellRun

MCKinds == <<{"pydantic", "deepagents"}, {"command"}>>
MCCommands == <<{"command"}, {"command"}>>
=============================================================================
