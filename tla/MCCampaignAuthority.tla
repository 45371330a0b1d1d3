-------------------------- MODULE MCCampaignAuthority --------------------------
(* Small instances of CampaignAuthority. *)
EXTENDS CampaignAuthority

CONSTANTS olga, pia, r1, a1

MCProfileRoles == {AdminRoles, {}}

MCControllers ==
    {[principal |-> p, actor |-> NoActor, element |-> r1] : p \in Principal \cup {Nobody}}
    \cup {[principal |-> Nobody, actor |-> a1, element |-> r1]}

\* A steward of an element, or of an actor.
MCStewardLists == {{}} \cup
    {{[principal |-> p, refs |-> {e}]} : p \in Principal, e \in Element \cup Actor}
==============================================================================
