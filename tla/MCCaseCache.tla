---------------------------- MODULE MCCaseCache ----------------------------
(* Instances of CaseCache: the processes are model values.                 *)
EXTENDS CaseCache

CONSTANTS p1, p2
=============================================================================
