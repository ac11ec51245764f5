-------------------------- MODULE MCFrameworkSetup --------------------------
(* Instances of FrameworkSetup.                                            *)
EXTENDS FrameworkSetup

MCManifests ==
  {[setup |-> s, env |-> "A"] : s \in {"pip", Missing, NoSetup, Invalid}}

\* Manifests that differ in the env keys alone.
MCEnvKeys == {[setup |-> "pip", env |-> e] : e \in {"A", "B"}}
=============================================================================
