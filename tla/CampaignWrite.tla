---------------------------- MODULE CampaignWrite ----------------------------
(***************************************************************************)
(* The write path of the narrative server: _write, narrative_settle,       *)
(* access_change, snapshot_create and the recovery tools, executed by      *)
(* handlers that run concurrently in one or several server processes over  *)
(* one database.                                                           *)
(*                                                                         *)
(* A handler (an element of Call) runs in steps between which any other    *)
(* handler may commit:                                                     *)
(*   Begin    the checks made outside the transaction                      *)
(*   lookup   the idempotency lookup that narrative_settle and the         *)
(*            recovery tools make outside the transaction                  *)
(*   txn      the reads of the transaction, and the mutation computed      *)
(*            from them                                                    *)
(*   commit   the conditional UPDATE with everything written beside it     *)
(*   core     the validation a recovery transaction of sagasmith-core      *)
(*            makes in Python, and its reads                               *)
(*   land     its writes, which no condition guards                        *)
(*   answer   the later transaction that reads the revision a fork or a    *)
(*            checkout answers with                                        *)
(* and may crash at any of them.  Clients send any request of the workload *)
(* whose revision is not in the future, as often and as late as they like, *)
(* so retries, duplicates and stale requests are all included.             *)
(***************************************************************************)
EXTENDS CampaignLedger

CONSTANT Call       \* handler invocations that can be in flight together

VARIABLES
    pc,         \* where each handler is
    req,        \* the request it serves
    seen,       \* the revision at which it read outside the transaction
    read,       \* the document its transaction read
    outcome,    \* how it ended
    retry       \* whether the request had a receipt when the handler began

callVars == <<pc, req, seen, read, outcome, retry>>
vars == <<ledgerVars, callVars>>

PC == {"idle", "lookup", "txn", "commit", "core", "land", "answer", "done"}

\* "none" while running; "receipt" carries the revision of the idempotency record
\* in `seen`, "later" the one the campaign had some time after the commit.
Outcome == {"none", "receipt", "later", "denied", "blocked", "stale", "reused", "rejected"}

NoRequest == CHOOSE q \in Workload : TRUE

Init ==
    /\ LedgerInit
    /\ pc      = [c \in Call |-> "idle"]
    /\ req     = [c \in Call |-> NoRequest]
    /\ seen    = [c \in Call |-> 0]
    /\ read    = [c \in Call |-> EmptyDocument]
    /\ outcome = [c \in Call |-> "none"]
    /\ retry   = [c \in Call |-> FALSE]

Remembered(q) == \E r \in receipts : r.req = q

\* Mutant: the payload hash is part of the idempotency slot.
SlotTakenByHash(q) == Remembered(q)

SlotTaken(q)  == \E r \in receipts : Slot(r.req) = Slot(q)
Current(q)    == q.rev = revision /\ q.branch = active

-----------------------------------------------------------------------------
\* Checks made before the transaction, against whatever is committed then.

Denied(q) == role[q.principal] \notin Allowed(q.op)

\* Mutant: recovery does not look for open conversations.
BlockedEarlyExceptRecovery(q) ==
    /\ q.op \in LiveOps
    /\ \/ q.branch # active
       \/ q.conv \notin document.open
       \/ document.talk[q.conv].home # active

\* _require_live_npc_conversation_access, require_no_open_npc_conversation, and
\* readable_branch_id for the NPC context that npc_conversation open reads first.
BlockedEarly(q) ==
    \/ /\ q.op = "npc.open" /\ q.branch # active
       /\ role[q.principal] \notin AdminRoles
    \/ q.op \in LiveOps /\ \/ q.branch # active
                           \/ q.conv \notin document.open
                           \/ document.talk[q.conv].home # active
    \/ q.op \in RecoveryOps /\ document.open # {}

\* What else a handler may demand before it looks for a receipt, and find or not:
\* a role above that of a member (phases, profiles, Packs, scenes), ...
MayDeny(q) == Denied(q) \/ (q.op = "change" /\ role[q.principal] \notin AdminRoles)

\* ... the phase or the owner of the conflict, the membership of the target of an
\* element grant, control of the NPC's actor and membership of its interlocutors.
MayBlock(q) == BlockedEarly(q) \/ q.op \in {"checked", "npc.open"}

FirstStep(q) == IF q.op \in SettleOps \cup RecoveryOps THEN "lookup" ELSE "txn"

Begin(c) ==
    /\ pc[c] = "idle"
    /\ \E q \in Workload :
        /\ q.rev <= revision
        /\ req' = [req EXCEPT ![c] = q]
        /\ seen' = [seen EXCEPT ![c] = revision]
        /\ retry' = [retry EXCEPT ![c] = Remembered(q)]
        /\ \/ /\ MayDeny(q)
              /\ pc' = [pc EXCEPT ![c] = "done"]
              /\ outcome' = [outcome EXCEPT ![c] = "denied"]
           \/ /\ ~Denied(q)
              /\ MayBlock(q)
              /\ pc' = [pc EXCEPT ![c] = "done"]
              /\ outcome' = [outcome EXCEPT ![c] = "blocked"]
           \/ /\ ~Denied(q) /\ ~BlockedEarly(q)
              /\ pc' = [pc EXCEPT ![c] = FirstStep(q)]
              /\ UNCHANGED outcome
    /\ UNCHANGED <<ledgerVars, read>>

-----------------------------------------------------------------------------
\* Ways to end without writing.

Finish(c, how) ==
    /\ pc' = [pc EXCEPT ![c] = "done"]
    /\ outcome' = [outcome EXCEPT ![c] = how]
    /\ UNCHANGED <<ledgerVars, req, read, retry>>

\* The steps at which a handler consults the idempotency records.  _write looks
\* before it compares the revision, narrative_settle compares first.
Consults(c) ==
    \/ pc[c] = "lookup"
    \/ pc[c] = "txn" /\ (req[c].op \in SettleOps => Current(req[c]))

\* Mutant: the lookup compares the slot and not the payload.
ReplayWithoutHash(c) ==
    /\ Consults(c)
    /\ \E r \in receipts : /\ Slot(r.req) = Slot(req[c])
                           /\ seen' = [seen EXCEPT ![c] = r.revision]
    /\ Finish(c, "receipt")

Replay(c) ==
    /\ Consults(c)
    /\ \E r \in receipts : /\ r.req = req[c]
                           /\ seen' = [seen EXCEPT ![c] = r.revision]
    /\ Finish(c, "receipt")

RefuseReuse(c) ==
    /\ Consults(c)
    /\ SlotTaken(req[c]) /\ ~Remembered(req[c])
    /\ Finish(c, "reused")
    /\ UNCHANGED seen

\* The lookup outside the transaction finds nothing.
Miss(c) ==
    /\ pc[c] = "lookup"
    /\ ~SlotTaken(req[c])
    /\ pc' = [pc EXCEPT ![c] = IF req[c].op \in RecoveryOps THEN "core" ELSE "txn"]
    /\ UNCHANGED <<ledgerVars, req, seen, read, outcome, retry>>

\* Mutant: _write compares the revision before it looks for a receipt.
RefuseStaleFirst(c) ==
    /\ pc[c] = "txn"
    /\ ~Current(req[c])
    /\ Finish(c, "stale")
    /\ UNCHANGED seen

RefuseStale(c) ==
    /\ pc[c] = "txn"
    /\ req[c].op \in SettleOps \/ ~SlotTaken(req[c])
    /\ ~Current(req[c])
    /\ Finish(c, "stale")
    /\ UNCHANGED seen

Ready(c) == pc[c] = "txn" /\ ~SlotTaken(req[c]) /\ Current(req[c])

\* An open conversation, the last-owner rule, or a validation of the
\* operation's own refuses the mutation.
RefuseMutation(c) ==
    /\ Ready(c)
    /\ \/ /\ ~ConversationAdmits(req[c], document)
          /\ Finish(c, "blocked")
       \/ /\ ConversationAdmits(req[c], document)
          /\ Finish(c, "rejected")
    /\ UNCHANGED seen

-----------------------------------------------------------------------------
\* The transaction's reads, with the mutation computed from them.
Prepare(c) ==
    /\ Ready(c)
    /\ Admits(req[c], document, role)
    /\ read' = [read EXCEPT ![c] = document]
    /\ pc' = [pc EXCEPT ![c] = "commit"]
    /\ UNCHANGED <<ledgerVars, req, seen, outcome, retry>>

\* Mutant: the revision is only compared in Python, as the core library does.
UpdateMatchesBranch(q) == q.branch = active

\* The WHERE clause of the conditional UPDATE.
UpdateMatches(q) == q.rev = revision /\ q.branch = active

\* UPDATE, membership row, snapshot, revision record and receipt, all at once.
\* A slot holds one record.
Commit(c) ==
    LET q == req[c] IN
    /\ pc[c] = "commit"
    /\ UpdateMatches(q) /\ ~SlotTaken(q)
    /\ document' = Effect(q, IF q.op = "snapshot" THEN document ELSE read[c], seen[c])
    /\ revision' = revision + 1
    /\ role' = RoleAfter(q, role)
    /\ head' = IF Checkpoints(q) THEN [head EXCEPT ![active] = document'] ELSE head
    /\ receipts' = receipts \cup {[req |-> q, revision |-> revision + 1]}
    /\ pc' = [pc EXCEPT ![c] = "done"]
    /\ outcome' = [outcome EXCEPT ![c] = "receipt"]
    /\ seen' = [seen EXCEPT ![c] = revision + 1]
    /\ UNCHANGED <<active, branches, overrun, req, read, retry>>

LoseRace(c) ==
    /\ pc[c] = "commit"
    /\ ~UpdateMatches(req[c]) \/ SlotTaken(req[c])
    /\ Finish(c, "stale")
    /\ UNCHANGED seen

-----------------------------------------------------------------------------
\* A recovery transaction of sagasmith-core, which the conditional UPDATE does not
\* cover: the core compares revision and branch in Python, reads the snapshot it
\* brings back, and writes afterwards.

CoreApplies(q) == Current(q) /\ ~SlotTaken(q) /\ Recoverable(q)

CoreRead(c) ==
    /\ pc[c] = "core"
    /\ CoreApplies(req[c])
    /\ read' = [read EXCEPT ![c] = Source(req[c])]
    /\ pc' = [pc EXCEPT ![c] = "land"]
    /\ UNCHANGED <<ledgerVars, req, seen, outcome, retry>>

\* The campaign is no longer the one the core validated.
LandsLate(q) == ~Current(q)

\* The writes, with the receipt the core was handed, whose slot is unique.
CoreCommit(c) ==
    LET q == req[c] IN
    /\ pc[c] = "land"
    /\ ~SlotTaken(q)
    /\ Land(q, read[c])
    /\ Recorded(q)
    /\ overrun' = (overrun \/ LandsLate(q))
    /\ pc' = [pc EXCEPT ![c] = IF q.op = "restore" THEN "done" ELSE "answer"]
    /\ outcome' = [outcome EXCEPT ![c] = IF q.op = "restore" THEN "receipt" ELSE "none"]
    /\ seen' = [seen EXCEPT ![c] = Promised(q)]
    /\ UNCHANGED <<role, req, read, retry>>

\* Validations of the core's own, a database that refuses to write over what it
\* has not read, or a slot that was taken meanwhile.
CoreRefuse(c) ==
    /\ pc[c] \in {"core", "land"}
    /\ Finish(c, IF CoreApplies(req[c]) THEN "rejected" ELSE "stale")
    /\ UNCHANGED seen

\* branch_change reads the revision of its answer when other handlers may have
\* committed already.
CoreAnswer(c) ==
    /\ pc[c] = "answer"
    /\ seen' = [seen EXCEPT ![c] = revision]
    /\ Finish(c, "later")

\* The response reaches the client or is lost, or the process dies; an open
\* transaction is rolled back.
Leave(c) ==
    /\ pc[c] # "idle"
    /\ pc'      = [pc      EXCEPT ![c] = "idle"]
    /\ req'     = [req     EXCEPT ![c] = NoRequest]
    /\ seen'    = [seen    EXCEPT ![c] = 0]
    /\ read'    = [read    EXCEPT ![c] = EmptyDocument]
    /\ outcome' = [outcome EXCEPT ![c] = "none"]
    /\ retry'   = [retry   EXCEPT ![c] = FALSE]
    /\ UNCHANGED ledgerVars

Next ==
    \E c \in Call :
        \/ Begin(c)
        \/ Miss(c)
        \/ Replay(c)
        \/ RefuseReuse(c)
        \/ RefuseStale(c)
        \/ RefuseMutation(c)
        \/ Prepare(c)
        \/ Commit(c)
        \/ LoseRace(c)
        \/ CoreRead(c)
        \/ CoreCommit(c)
        \/ CoreAnswer(c)
        \/ CoreRefuse(c)
        \/ Leave(c)

Spec == Init /\ [][Next]_vars

-----------------------------------------------------------------------------
(* Properties *)

\* The type of the handlers' state, and of every variable.
CallTypeOK ==
    /\ pc \in [Call -> PC]
    /\ req \in [Call -> Workload]
    /\ seen \in [Call -> Nat]
    /\ read \in [Call -> Document]
    /\ outcome \in [Call -> Outcome]
    /\ retry \in [Call -> BOOLEAN]

TypeOK == LedgerTypeOK /\ CallTypeOK

\* What a handler in flight can still rely on.  Its request names no revision
\* later than the one it began at, and as long as that revision stands so do its
\* checks: the role, the absence of open conversations, the document it read.
InFlight(c) ==
    LET q == req[c] IN
    /\ q.rev <= seen[c] /\ seen[c] <= revision
    /\ seen[c] = revision => /\ ~Denied(q)
                             /\ q.op \in RecoveryOps => document.open = {}
    /\ pc[c] = "commit" /\ q.rev = revision =>
          /\ read[c] = document /\ q.branch = active
          /\ ~SlotTaken(q) /\ Admits(q, document, role)
    /\ pc[c] = "land" /\ q.rev = revision =>
          q.branch = active /\ Recoverable(q) /\ read[c] = Source(q)

Flying == {"lookup", "txn", "commit", "core", "land"}

\* Only recoveries are handed to the core, and nothing else is.
Route(c) ==
    /\ pc[c] \in {"core", "land"} => req[c].op \in RecoveryOps
    /\ pc[c] \in {"txn", "commit"} => req[c].op \notin RecoveryOps

\* (A recovery that lands late may put an old revision back, or leave the number
\* while it replaces the document; a number then identifies nothing any more.)
InFlightValid ==
    \A c \in Call : pc[c] \in Flying => Route(c) /\ (overrun \/ InFlight(c))

\* A handler that answers with a revision answers with the one its own request
\* produced, also when it answers from the idempotency record.  Only a fork or a
\* checkout that has just committed may answer with that of a write after it.
ReceiptIsFaithful ==
    \A c \in Call : pc[c] = "done" =>
        /\ outcome[c] = "receipt" => [req |-> req[c], revision |-> seen[c]] \in receipts
        /\ outcome[c] = "later" =>
              \E r \in receipts : r.req = req[c] /\ (overrun \/ r.revision <= seen[c])

\* The operations whose handlers look at the document, at grants or at members
\* before they look for a receipt.
LooksFirst == LiveOps \cup RecoveryOps \cup {"checked", "npc.open"}

\* A request sent again after it took effect is answered with its receipt by
\* _write, access_change, snapshot_create and plain narrative_settle, unless its
\* principal has since lost the role its handler asks for.
RetryHonoured ==
    \A c \in Call :
        pc[c] = "done" /\ retry[c] /\ req[c].op \notin LooksFirst
        => outcome[c] \in {"receipt", "denied"}

\* The documented promise: exact retries return the original receipt
\* (architecture.md, Runtime lifecycle).  The two operations whose early refusals
\* MayBlock leaves open are not held to it.
ExactRetriesReturnReceipt ==
    \A c \in Call :
        pc[c] = "done" /\ retry[c] /\ req[c].op \notin {"checked", "npc.open"}
        => outcome[c] = "receipt"

\* The role checked before the transaction still holds when the write commits:
\* nobody writes with a membership that was revoked in between, until a recovery
\* overruns the campaign.
AuthorityAtCommit == [][AuthorisedStep]_vars

\* No committed effect is overwritten by a write computed from an older
\* document; only a recovery that moves to another branch, or overruns the
\* campaign, replaces effects.
NoLostUpdate == [][KeepingStep]_vars

\* While an NPC conversation is open only conversation operations commit:
\* memberships and branches stay as the worker's context saw them, until a
\* recovery overruns the campaign: one that was validated before the conversation
\* was opened and lands after it does.
FrozenWhileOpen == [][FrozenStep]_vars

\* The write path implements the ledger: each step is atomic, no ordinary write
\* ever overruns another, and recoveries do not unless they land late.
ImplementsLedger == LedgerSpec
==============================================================================
