--------------------------- MODULE MCCampaignLock ---------------------------
(* Instances of CampaignLock: which invocation runs on which host.         *)
EXTENDS CampaignLock

CONSTANTS p1, p2, p3

\* Every invocation on one machine.
OneHost == [p \in Proc |-> "h1"]

\* A machine each (a shared file system).
OwnHost == [p \in Proc |-> p]

\* p1 and p2 on one machine, p3 on another.
TwoHosts == [p \in Proc |-> IF p = p3 THEN "h2" ELSE "h1"]
=============================================================================
