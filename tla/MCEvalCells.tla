---------------------------- MODULE MCEvalCells ----------------------------
(* Instances of EvalCells.                                                 *)
EXTENDS EvalCells

Anywhere == Points \ {"idle"}

\* Every point at which no process of the task runs and no cell is half wiped.
Between == Points \ ({"idle", "wipe"} \cup Started)

\* eval-all with any filter, or with none.
Any == SUBSET Cell
All == {Cell}

\* run_pipeline may fail in any step.
AnyStep == Pipeline

\* The steps of it in which no process of the task runs.
Quiet == Pipeline \ Started
=============================================================================
