------------------------- MODULE MCCampaignPointer -------------------------
(* Instances of CampaignPointer.                                           *)
EXTENDS CampaignPointer
=============================================================================
