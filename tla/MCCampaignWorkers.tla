-------------------------- MODULE MCCampaignWorkers --------------------------
(* Small instances of CampaignWorkers for TLC. *)
EXTENDS CampaignWorkers, TLC

CONSTANTS r1, r2, c1, w1, w2

WorkerSymmetry == Permutations(Workers)

=============================================================================
