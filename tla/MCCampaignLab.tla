---------------------------- MODULE MCCampaignLab ----------------------------
(* Small instances of CampaignLab for TLC. *)
EXTENDS CampaignLab, TLC

CONSTANTS r1, r2, c1

LabSymmetry == Permutations(LabRuns)

=============================================================================
