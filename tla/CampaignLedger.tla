---------------------------- MODULE CampaignLedger ----------------------------
(***************************************************************************)
(* What the write path promises: the campaign is a sequence of atomic      *)
(* steps.  A request takes effect at one instant, only if the revision and *)
(* the branch it names are the current ones, only if its principal holds a *)
(* sufficient role and the document admits the operation AT THAT INSTANT,  *)
(* and at most once for each idempotency slot.  CampaignWrite implements   *)
(* this specification with handlers that read outside the transaction,     *)
(* race, crash and are retried.                                            *)
(*                                                                         *)
(* The promise has a limit.  Recovery transactions belong to the core      *)
(* library, which validates the revision in Python and then writes.  If    *)
(* another process commits in between, the recovery may land on a campaign *)
(* it never saw.  From then on (overrun) the ledger only promises that     *)
(* receipts take free slots and that memberships change by access          *)
(* operations alone.  No ordinary write can be the first to do so.         *)
(***************************************************************************)
EXTENDS CampaignOps

CONSTANTS Workload,     \* the requests clients may send
          Members       \* the membership rows to start from

ASSUME WorkloadAssumption == Workload # {} /\ Workload \subseteq Request
ASSUME MembersAssumption == /\ Members \in [Principal -> Standing]
                            /\ \E p \in Principal : Members[p] = "owner"

VARIABLES
    revision,   \* Campaign.revision
    active,     \* Campaign.active_branch_id
    document,   \* Campaign.state
    role,       \* the CampaignMembership rows
    branches,   \* the branches that exist
    head,       \* the document in each branch's head snapshot
    receipts,   \* the idempotency records, each with the revision it returned
    overrun     \* history: a recovery has landed on a campaign that had moved on

ledgerVars == <<revision, active, document, role, branches, head, receipts, overrun>>

LedgerInit ==
    /\ revision = 0
    /\ active = Root
    /\ document = EmptyDocument
    /\ role = Members
    /\ branches = {Root}
    /\ head = [b \in Branch |-> NoSnapshot]
    /\ receipts = {}
    /\ overrun = FALSE

Free(q) == \A r \in receipts : Slot(r.req) # Slot(q)

\* An ordinary write: document, membership and snapshot change together with
\* the revision and the receipt.
Apply(q) ==
    /\ q.op \notin RecoveryOps
    /\ q.rev = revision /\ q.branch = active
    /\ Free(q)
    /\ role[q.principal] \in Allowed(q.op)
    /\ Admits(q, document, role)
    /\ document' = Effect(q, document, revision)
    /\ revision' = revision + 1
    /\ role' = RoleAfter(q, role)
    /\ head' = IF Checkpoints(q) THEN [head EXCEPT ![active] = document'] ELSE head
    /\ receipts' = receipts \cup {[req |-> q, revision |-> revision + 1]}
    /\ UNCHANGED <<active, branches, overrun>>

-----------------------------------------------------------------------------
(* The recovery operations of the core library. *)

\* The document a recovery brings back: the head of the branch it goes to, or of
\* the branch a fork leaves.  A checkout of the branch it names brings back none.
Source(q) ==
    CASE q.op = "fork" -> head[active]
      [] q.op = "checkout" /\ q.onto = q.branch -> document
      [] OTHER -> head[q.onto]

Recoverable(q) ==
    /\ q.op # "fork" => q.onto \in branches
    /\ Source(q) # NoSnapshot

\* Whether the core sets the revision it computed or raises the one it finds
\* only matters to a recovery that lands late.
NextRevision(q) == revision' \in {q.rev + 1, revision + 1}

\* A new branch whose head holds the document d.
NewBranch(b, d) ==
    /\ b \notin branches
    /\ branches' = branches \cup {b}
    /\ head' = [head EXCEPT ![b] = d]

Fork(q, d) ==
    /\ q.op = "fork"
    /\ \E b \in Branch : NewBranch(b, d) /\ active' = IF q.extra THEN b ELSE active
    /\ document' = IF q.extra THEN d ELSE document
    /\ NextRevision(q)

\* Mutant: a checkout does not raise the revision.
CheckoutUncounted(q, d) ==
    /\ q.op = "checkout"
    /\ active' = IF q.onto = q.branch THEN active ELSE q.onto
    /\ document' = IF q.onto = q.branch THEN document ELSE d
    /\ UNCHANGED <<revision, branches, head>>

Checkout(q, d) ==
    /\ q.op = "checkout"
    /\ \/ q.onto = q.branch /\ UNCHANGED <<active, document, revision>>
       \/ q.onto # q.branch /\ active' = q.onto /\ document' = d /\ NextRevision(q)
    /\ UNCHANGED <<branches, head>>

Restore(q, d) ==
    /\ q.op = "restore"
    /\ \E b \in Branch : NewBranch(b, d) /\ active' = b
    /\ document' = d
    /\ NextRevision(q)

\* What a recovery writes when the document it brings back is d.
Land(q, d) == Fork(q, d) \/ Checkout(q, d) \/ Restore(q, d)

Recorded(q) == receipts' = receipts \cup {[req |-> q, revision |-> Promised(q)]}

Recover(q) ==
    /\ q.rev = revision /\ q.branch = active
    /\ Free(q)
    /\ role[q.principal] \in Allowed(q.op)
    /\ document.open = {}
    /\ Recoverable(q)
    /\ Land(q, Source(q))
    /\ Recorded(q)
    /\ UNCHANGED <<role, overrun>>

\* All that is promised of a request once a recovery has overrun the campaign,
\* and of the recovery that does.
Unordered(q) ==
    /\ overrun' /\ (overrun \/ q.op \in RecoveryOps)
    /\ Free(q) /\ Recorded(q)
    /\ role' = RoleAfter(q, role)

LedgerNext == \E q \in Workload : Apply(q) \/ Recover(q) \/ Unordered(q)

LedgerSpec == LedgerInit /\ [][LedgerNext]_ledgerVars

-----------------------------------------------------------------------------
(* What the ledger guarantees, and with it everything that implements it.   *)
(* Unless the opposite is said, until a recovery overruns the campaign.     *)

\* The type of the campaign's state.
LedgerTypeOK ==
    /\ revision \in Nat
    /\ active \in Branch
    /\ document \in Document
    /\ role \in [Principal -> Standing]
    /\ branches \subseteq Branch
    /\ head \in [Branch -> Document \cup {NoSnapshot}]
    /\ receipts \subseteq Receipt
    /\ overrun \in BOOLEAN

\* The campaign has an owner: two owners who demote or revoke each other from
\* different processes cannot both pass the last-owner check of access_change.
OwnerRemains == overrun \/ \E p \in Principal : role[p] = "owner"

\* An idempotency key takes effect once in its scope, whatever payload, revision
\* or process it is reused with, and whatever recoveries did.
OneReceiptPerSlot ==
    \A r, s \in receipts : Slot(r.req) = Slot(s.req) => r = s

\* The revision counter and the receipts tell the same story: every revision was
\* produced by exactly one request, and that request had named its predecessor.
Produced(r) == r.revision = r.req.rev + 1
Accounted ==
    /\ \A r \in receipts : /\ r.revision \in {r.req.rev, r.req.rev + 1}
                           /\ r.revision <= revision
    /\ \A n \in 1..revision : \E r \in receipts : Produced(r) /\ r.revision = n
    /\ \A r, s \in receipts :
          Produced(r) /\ Produced(s) /\ r.revision = s.revision => r = s
RevisionsAccounted == overrun \/ Accounted

\* A step records only requests whose principal holds the role they need when
\* the step is taken.
AuthorisedStep ==
    overrun' \/ \A r \in receipts' \ receipts : role[r.req.principal] \in Allowed(r.req.op)

\* A step that stays on the branch keeps every effect in the document.
KeepingStep ==
    overrun' \/ active' # active \/ document.applied \subseteq document'.applied

\* With a conversation open a step records only conversation operations, and
\* memberships and branches stay as the worker's context saw them.
FrozenStep ==
    overrun' \/ document.open = {} \/
        /\ \A r \in receipts' \ receipts : r.req.op \in NpcOps \cup {"settle.close"}
        /\ role' = role /\ active' = active /\ branches' = branches
==============================================================================
