---------------------------- MODULE MCAgentTools ----------------------------
(* Instances of AgentTools.                                                *)
EXTENDS AgentTools, TLC

CONSTANTS fileA, fileB, fileC,  \* may be changed
          ignored,              \* may be changed, but is not in the diff
          id1, id2

Symmetry == Permutations({fileA, fileB, fileC}) \cup Permutations({id1, id2})
=============================================================================
