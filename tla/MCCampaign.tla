------------------------------ MODULE MCCampaign ------------------------------
(* Instances of the campaign with the inductive invariants of the proofs; the
   condition of all their theorems is met. *)
EXTENDS MCQueue, CampaignProofs

ASSUME SteadyCampaign == SteadyUse
=============================================================================
