----------------------------- MODULE CampaignOps -----------------------------
(***************************************************************************)
(* The vocabulary shared by the abstract ledger (CampaignLedger) and the   *)
(* write path (CampaignWrite): requests, roles, the campaign document, and *)
(* what each class of operation requires of and does to a document.        *)
(*                                                                         *)
(* An operation is abstracted to what concurrency control can see of it:   *)
(*   change        a _write mutation (phase, profile, Pack, record, ...)   *)
(*   checked       a _write mutation whose handler inspects the document   *)
(*                 or the members first (conflict, campaign design,        *)
(*                 element grants)                                         *)
(*   grant, revoke access_change on a campaign membership                  *)
(*   snapshot      snapshot_create                                         *)
(*   npc.open      npc_conversation open                                   *)
(*   npc.refresh   npc_conversation refresh (new private context)          *)
(*   npc.talk      npc_conversation claim, propose, publish                *)
(*   npc.close     npc_conversation close without settlement               *)
(*   npc.abort     npc_conversation abort                                  *)
(*   settle        narrative_settle                                        *)
(*   settle.close  narrative_settle reached from npc_conversation close    *)
(*   fork, checkout   branch_change create and checkout                    *)
(*   restore       snapshot_change restore                                 *)
(***************************************************************************)
EXTENDS Naturals

CONSTANTS
    Principal,      \* principals known to the campaign
    Branch,         \* branch identifiers, existing and yet to be created
    Conversation,   \* NPC conversation identifiers
    Key,            \* idempotency keys
    Root,           \* the branch a campaign is created on
    NoSnapshot      \* the head of a branch that has no snapshot

ASSUME RootAssumption == Root \in Branch

Role == {"owner", "dm", "player", "observer"}

\* "none" marks a principal without a membership row.
Standing == Role \cup {"none"}

AdminRoles == {"owner", "dm"}

AccessOps   == {"grant", "revoke"}
NpcOps      == {"npc.open", "npc.refresh", "npc.talk", "npc.close", "npc.abort"}
SettleOps   == {"settle", "settle.close"}
RecoveryOps == {"fork", "checkout", "restore"}
Op == {"change", "checked", "snapshot"} \cup AccessOps \cup NpcOps \cup SettleOps \cup RecoveryOps

\* Operations that continue a conversation, which must be open; every one but
\* abort needs it to be current as well.
LiveOps == (NpcOps \ {"npc.open"}) \cup {"settle.close"}

\* `who` and `as` are the target and the new role of an access change, `conv`
\* the conversation and `onto` the branch an operation names; `extra` asks for
\* a snapshot with a settlement, or for a checkout with a fork.
Request == [op : Op, principal : Principal, key : Key, branch : Branch, rev : Nat,
            who : Principal, as : Standing, conv : Conversation, onto : Branch,
            extra : BOOLEAN]

\* Of a conversation: its context_revision, the revision at which its private
\* context was read, and the branch that context belongs to.
Talk == [at : Nat, read : Nat, home : Branch]

\* `applied` holds the revisions whose effects the document contains, `open`
\* the conversations with status "open".
Document == [applied : SUBSET Nat, open : SUBSET Conversation,
             talk : [Conversation -> Talk]]

EmptyDocument ==
    [applied |-> {}, open |-> {},
     talk |-> [c \in Conversation |-> [at |-> 0, read |-> 0, home |-> Root]]]

Receipt == [req : Request, revision : Nat]

\* The revision a request promises in its record, computed from the one it names:
\* a checkout of the branch it names raises none.
Promised(q) == IF q.op = "checkout" /\ q.onto = q.branch THEN q.rev ELSE q.rev + 1

\* A close with a settlement runs in the scope of narrative_settle.
Scope(op) == IF op \in SettleOps THEN "settle" ELSE op

\* The idempotency scope (operation, branch, principal) together with the key.
Slot(q) == <<Scope(q.op), q.branch, q.principal, q.key>>

\* The roles that pass the membership check an operation makes before its
\* transaction.
Allowed(op) ==
    CASE op \in AccessOps                     -> {"owner"}
      [] op \in RecoveryOps \cup {"snapshot"} -> AdminRoles
      [] op \in SettleOps                     -> Role \ {"observer"}
      [] OTHER                                -> Role

\* Mutant: an open conversation does not freeze the document.
ConversationAdmitsAnything(q, d) ==
    /\ q.op \in LiveOps => q.conv \in d.open
    /\ q.op \in LiveOps \ {"npc.abort"} => d.talk[q.conv].at = q.rev

\* An open conversation freezes the document for everything but the operations
\* that carry a conversation on or end one.
ConversationAdmits(q, d) ==
    /\ q.op \in NpcOps \cup {"settle.close"} \/ d.open = {}
    /\ q.op \in LiveOps => q.conv \in d.open
    /\ q.op \in LiveOps \ {"npc.abort"} => d.talk[q.conv].at = q.rev

\* A membership row is revoked only if it exists, and the last owner can be
\* neither revoked nor demoted.
AccessAdmits(q, role) ==
    /\ q.op = "revoke" => q.as = "none" /\ role[q.who] # "none"
    /\ q.op = "grant"  => q.as \in Role
    /\ q.op \in AccessOps /\ role[q.who] = "owner" /\ q.as # "owner" =>
          \E p \in Principal \ {q.who} : role[p] = "owner"

Admits(q, d, role) == ConversationAdmits(q, d) /\ AccessAdmits(q, role)

TalkAfter(q, t, seen) ==
    IF q.op \in {"npc.open", "npc.refresh"}
    THEN [at |-> q.rev + 1, read |-> seen, home |-> q.branch]
    ELSE [t EXCEPT !.at = q.rev + 1]

\* The document operation q writes when it is computed from d, and the private
\* context it stores was read at revision seen.  snapshot_create writes none.
Effect(q, d, seen) ==
    IF q.op = "snapshot" THEN d ELSE
    [applied |-> d.applied \cup {q.rev + 1},
     open    |-> CASE q.op = "npc.open" -> d.open \cup {q.conv}
                   [] q.op \in {"npc.close", "npc.abort", "settle.close"}
                                        -> d.open \ {q.conv}
                   [] OTHER             -> d.open,
     talk    |-> IF q.op \in NpcOps \cup {"settle.close"}
                 THEN [d.talk EXCEPT ![q.conv] = TalkAfter(q, d.talk[q.conv], seen)]
                 ELSE d.talk]

\* Mutant: a revoked row is kept with a status that is no role.
RoleAfterKeepingRow(q, role) ==
    IF q.op \in AccessOps
    THEN [role EXCEPT ![q.who] = IF q.as = "none" THEN "revoked" ELSE q.as]
    ELSE role

RoleAfter(q, role) == IF q.op \in AccessOps THEN [role EXCEPT ![q.who] = q.as] ELSE role

\* Operations that store a snapshot of the document they leave behind.
Checkpoints(q) == q.op = "snapshot" \/ (q.op \in SettleOps /\ q.extra)
==============================================================================
