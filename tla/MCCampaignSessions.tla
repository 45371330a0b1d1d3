-------------------------- MODULE MCCampaignSessions --------------------------
(* Small instances of CampaignSessions. *)
EXTENDS CampaignSessions

CONSTANTS talk, fight      \* a facilitated profile, and one whose players may start conflicts

CONSTANTS olga, pia         \* an owner and another administrator

MCMembers == [p \in Principal |-> IF p = olga THEN "owner" ELSE "dm"]

MCCapabilities == [p \in Profile |-> IF p = fight THEN {"conflict"} ELSE {"npc_conversation"}]
MCFacilitators == [p \in Profile |-> IF p = fight THEN {"owner"} ELSE AdminRoles]
MCPlayersFight == {fight} \cap Profile
===============================================================================
