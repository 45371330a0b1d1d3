---------------------------- MODULE MCCampaignPlay ----------------------------
(* Small instances of CampaignPlay. *)
EXTENDS CampaignPlay, TLC

Symmetry == Permutations(Conversation)
==============================================================================
