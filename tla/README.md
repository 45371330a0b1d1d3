# A TLA+ model of sagasmith-narrative

These modules specify the part of `packages/mcp` (with the contracts of
`packages/domain` it depends on) that decides what happens to a campaign: which
requests are accepted, in which order, by whom, on which revision and branch, and
what is left when one of them fails, is repeated, or is undone by a restore.
TLC checks the models on small instances; TLAPS proves the most important results
for every value of the constants.

File names below are relative to `packages/mcp/src/sagasmith_narrative_mcp/` unless
they say otherwise. `PROJECT.json` maps every definition to the lines it stands for.

## 1. The system

The server offers tools over MCP. A tool call comes in through a dispatcher that
checks whether the session may use the tool, takes the lock of the campaign in this
process, and runs a handler of `runtime.py` or one of the recovery tools in
`server.py`. The handler reads and writes one SQLite database, which other server
processes may use at the same time. Campaign state is one JSON document, `Campaign.state`,
with a revision counter, beside relational tables for memberships, actor grants, branches,
snapshots, idempotency records and the rows that `sagasmith-core` keeps.

| Component | State | Operations | Interacts with | What is hard |
|---|---|---|---|---|
| Write path (`runtime.py` 910-1037, 3376-3771) | revision, active branch, document, idempotency records | `_write`, `narrative_settle`, the conditional UPDATE | every other component commits through it | handlers race between processes; checks outside the transaction; retries, crashes |
| Recovery (`server.py` 1406-1555, `runtime.py` 820-908) | branches, snapshots, heads | snapshot create and restore, branch create and checkout | conversations (freeze), everything in the document | three transactions for one request, a fourth for its answer; the core compares the revision in Python before it writes; what a recovery brings back |
| NPC conversations (`runtime.py` 3773-4457) | conversations with activations, leases, private context, proposals, publications | open, claim, refresh, propose, publish, close, abort | settlement, recovery, workers outside the server | late or repeated answers of workers, stale context, expired leases |
| Phases, scenes, conflicts (`runtime.py` 1039-1061, 2440-2571, 4515-4571) | phase, scenes, conflict | phase, scene and conflict operations | conversations, profiles | pairwise exclusions checked by different operations |
| Settlement (`runtime.py` 3376-3771) | records, facts, actor knowledge | `narrative_settle`, alone or as the end of a conversation | conversations, snapshots | one transaction over the document and the tables of the core |
| Profiles (`runtime.py` 1063-1118) | drafts, finalized, active profile | draft, finalize, activate | Packs, session policies | a profile changes under Packs that demand it |
| Packs and campaign design (`runtime.py` 1121-1382, 1819-2376; `narrative_design.py` in `packages/domain`) | drafts, finalized Packs, imports, activations, the design and its progress | draft, finalize, import, activate, expansion attest, evidence, advance | profiles, seeds, recovery | documents pinned by checksum, episodes signed on a branch that may be left |
| Seeds and access (`runtime.py` 315-375, 1384-1690, 2908-3290) | memberships, actor grants, element grants | seed apply, grant, revoke; who may change a record or direct a scene | write path, sessions, recovery, settlement | two paths to the same membership rows; part of the authority is in rows, part in the document a restore replaces |
| Sessions (`exposure.py`, `policies.py`, `server.py` 192-246, 352-365, 541-660, 802-864) | exposures with loaded tools, locks | open, load, expire, refresh, dispatch | memberships, profile, conflict | checks made before the wait for a lock; a registry shared by all campaigns |
| Actor memory and audiences (`actor_memory.py`, `runtime.py` 513-729) | none of its own | ranking and filtering on reads | settlement, conversations | one result whatever order the queries return; a strict budget; audience of what is read |
| Mechanics and random streams (`runtime.py` 3292-3374, `route_dsl.py`) | stream cursor | `mechanic_resolve` | write path | the cursor moves once per resolution |
| Configuration and secrets (`config.py`) | secret file, settings | start-up | attestations of campaign expansions | processes race for the file and die between its creation and its content |
| Skills, fixtures, scripts, tool contracts | none | static content and schemas | none | none |
| `sagasmith-core` | database | transactions, branches, snapshots | write path, recovery | not in this repository: external |

What makes each of them correct:

- Write path: an accepted request takes effect once for its idempotency slot and is answered with its
  own receipt; it is atomic, was authorised when it committed, and leaves an owner, unless a recovery of the core has
  overrun another process.
- Recovery and conversations: an open conversation freezes the campaign; a conversation that
  was overtaken never goes on; workers answer only from current context; nothing private
  survives the end.
- Content: what is active rests on active, pinned, finalized and grounded documents; progress
  and finalized documents are never forgotten on their branch.
- Access: somebody can administer the campaign; who leaves keeps nothing; authority over records and scenes moves only
  by those entitled to move it.
- Start-up: servers of one database verify what the others signed, before and after any crash.
- Actor memory: the selection is determined by the candidates, stays within its budget and wastes none of it.
- Sessions: an accepted call is authorised; every call ends; campaigns do not disturb each
  other.

## 2. The modules

```
CampaignOps        requests, roles, what an operation needs of and does to a document
  CampaignLedger     abstract: the campaign as a sequence of atomic accepted requests
    CampaignWrite      detailed: handlers in steps, racing, crashing, retried
      implements CampaignLedger (ImplementsLedger == LedgerSpec)
CampaignPlay       one campaign's conversations, workers, scenes, conflicts, settlements, recoveries
CampaignPacks      profiles, Packs, campaign design, seeds, memberships
CampaignAuthority  memberships, grants, facilitators; who may change records and direct scenes
CampaignSessions   exposures, tool policies, dispatcher, campaign locks
ProposalKey        abstract: each place is given one key, and who serves uses it
  ServerStart        detailed: settings, file operations, races, crashes, restarts
    implements ProposalKey (KeepsPromise == Promise!KeySpec)
ActorMemory        the selection of an actor's memory, step by step
```

`X` is instantiated for TLC by `MCX` and proved about in `XProofs`.

**CampaignOps / CampaignLedger.** A request is a record (operation, principal, idempotency key,
branch, revision and the fields some operations use). The document is abstracted to the set of
effects in it and the conversations open in it: that is what concurrency control can see. In the
ledger a request takes effect at one instant (`Apply`, `Recover`), if revision and
branch are the current ones, the role suffices and the document admits it, and only in a slot without a receipt.

The ledger's promise has a limit, and the ledger says where it is. `runtime.py:989-991` notes that the core "validates expected
revisions in Python"; the conditional UPDATE of the handlers exists because of that, and the recovery transactions do not have it. A recovery
that was validated before another process committed may therefore be written after it. The history variable `overrun` records that this has
happened. From then on the ledger only promises `Unordered`: receipts take free slots, and memberships change by access operations. Without
exception hold that a slot takes effect once, that receipts are faithful, that retries are honoured, and that **no ordinary
write is ever the first to land late**; atomicity, authority, lost updates, the freeze and the account of revisions hold until a recovery does.

**CampaignWrite.** `pc[c]` says between which two database transactions a handler is. `Begin` makes the checks
outside the transaction: `Denied` and `BlockedEarly` are those that must refuse (`_require_role`, the conversation and freeze checks,
the branch a player's `npc.open` reads its context from), `MayDeny` and `MayBlock` those that look at what the model leaves out and may
refuse (roles above a member's; the actor grant and the interlocutors of `npc.open`; the phase or the target of a `checked` operation).
`Prepare` is the read inside
the transaction with the mutation computed from it; `Commit` is the conditional
`UPDATE ... WHERE revision = expected` and everything written beside it; `Miss`, `Replay`, `RefuseReuse` and `RefuseStale` are the idempotency
lookup; `LoseRace` is a commit that finds the revision moved. A recovery goes through `CoreRead` (the core compares
revision and branch and reads the snapshot), `CoreCommit` (it writes, under no condition but that its slot is free) and, for forks and
checkouts, `CoreAnswer` (`branch_change` reads the revision it answers with in a later transaction). `CoreRefuse` covers refusals of the core, those of a database
that does not let a transaction write over what it has not read among them: whether there are any is not for this repository to say, so both are
allowed. `Leave` ends
a handler, and may do so at any step: that is a crash, after which what was committed stays and nothing else. Clients may send any request of the workload whose revision is
not in the future, at any time and as often as they like.
The variables of the ledger are the database; the refinement mapping is therefore the identity on them, and
the theorem says that handler steps between commits are invisible.

**CampaignPlay**, **CampaignPacks** and **CampaignAuthority** treat each accepted request as atomic. `WriteImplementsLedger` is what
justifies this, as long as no recovery lands late: what these modules say is said of campaigns on which none has. It also justifies the reads made outside the transaction that such a
request relies on (the actor memory that goes into a conversation's private context): `InFlightValid`
says that they are of the revision the request names. Refused requests change nothing and are no
actions there.

- CampaignPlay keeps a conversation's activations, leases, digest, proposals and publications; the *packets* workers received
  stay usable for ever, so every late or repeated answer is included. A snapshot is the whole document. `heads` has the snapshot at the head of each branch; a
  restore puts one back on a new branch, a checkout goes to another branch and takes the document of its head, a fork makes a branch from the head of
  the active one and goes there or stays. A checkout of the active branch writes nothing.
- CampaignPacks keeps `doc` (drafts, finalized, imports, active Packs, design, progress, phase), the latest snapshot, the attestations
  issued so far, and memberships. Documents are constants described by what the server looks at (dependencies with checksums,
  demands on the profile, manifest, seed). Equal documents, and no others, have equal checksums.

**CampaignSessions** is one server process with its event loop. A step is what happens between two awaits. A
call is `Idle`, waiting for its campaign's lock (a FIFO `asyncio.Lock`), holding it, or ending; the dispatcher's checks come before
the wait, the tool's own checks after it. Legacy sessions open, load, expire and are refreshed before and after every legacy call.
Modern calls name no session and refresh nothing, but their `exposure` works on the same registry: `OpenModern` makes an exposure under a key of its own
(`Handle`), `SetModern` and `AskModern` change and look up any exposure by its handle, a legacy session's too. What a restore, a checkout or a fork makes of phase,
profile and conflict is `Recovered`.

**CampaignAuthority** has the authority that the other modules leave out. Memberships (`role`) and actor grants with control
(`control`) are rows; element grants, records with their controllers, scenes with participants and stewards, the phase and the
facilitator roles of the active profile are the document; `by` is the author of the latest revision. Each accepted request
is one action with the check its handler makes: `MayChange` is `_record_authorized`, `MayDirect` the `authorized` of
`scene_change`, `Controls` is `_actor_access`, and `Settle` has the authorizations of `narrative_settle` in their order, the second change
of a record against what the first left. A restore replaces the document and leaves the rows.

**ServerStart / ProposalKey.** A process is `down`, at one of the file operations of `_load_or_create_secret` (`read`, `create`,
`reread`, `write`, `check`), `serving`, or `refused`. `Create` makes an empty file, as `O_CREAT | O_EXCL` does; the
content comes with `Write`, when the stream is closed; `Crash` may come between any two. A key file is `Missing`, `Empty` or a candidate.
The refinement maps the key of a place to the content of its file, if it has any, and the key a process serves with to its value
while it serves; start, crash before serving, and all file operations but `Write` are stutters.

**ActorMemory** is `select_actor_memory_context` with one action per iteration of its loops. The iteration over candidates is nondeterministic,
since the queries that collect them promise no common order. `IsSelection` states what the result is without saying how
it is computed.

## 3. What the runs check

| Run | Instance | What it shows |
|---|---|---|
| `write_all` | 2 handlers, 2 owners and a player, a conversation, 2 branches, 2 keys; a workload with each kind of operation but talk, plain close and abort, which take the same path (`write_retry` has the close), revisions 0..3 | writes, key reuse, owners who remove each other, a conversation that opens, is refreshed and ends with a settlement, snapshots, forks, checkouts and a restore, also ones that land late, all in one: `OwnerRemains`, `OneReceiptPerSlot`, `RevisionsAccounted`, `RetryHonoured`, `InFlightValid`, `ReceiptIsFaithful`, `AuthorityAtCommit`, `NoLostUpdate`, `FrozenWhileOpen`, and the refinement |
| `write_retry` | open, close, close with settlement | **violation** of `ExactRetriesReturnReceipt` |
| `play_talks` | 2 conversations, 2 principals, 1 scene, lease of 1 tick, at most 2 activations and 2 proposals, 3 branches, revisions to 8 | `PhaseDiscipline`, `OneCurrent`, `CurrentContext`, `OneWorkingActivation`, `SupersededCannotAnswer`, `EndedKeepsOnlyPublications`, `StaleForever` |
| `play_stuck` | the same, smaller | **violation** of `StaleCanBeAborted` |
| `packs_growth` | root Pack, episode, its sequel and a rival, 7 documents, 2 restores | `DependenciesHold`, `DesignOfActivePacks`, `EpisodesGrounded` |
| `packs_play` | 2 profiles in 3 revisions, a Pack in two versions of its document of which one demands a profile, a player's arc, a seed, 2 principals, no restore | `DemandsCanBeMet`, `ArcsEarned`, `AdministratorRemains`, `NothingForgotten` |
| `packs_owner` | 2 principals, a seed | **violation** of `OwnerRemains` |
| `sessions_tools` | 1 campaign, 1 session, 1 handle, 2 calls, 2 principals, a session that loads `conflict_start`, modern calls that change access or recover, at most 2 changes, tools set on an exposure at revision 0 only | `ActorGrantsOfMembers`, `AcceptedIsAuthorised`, `EveryCallEnds` |
| `sessions_apart` | 2 campaigns, 2 sessions, 1 call | **violation** of `CampaignsSeparate` |
| `keys` | 3 replicas over one database file from 2 homes, 2 servers over a remote database with and without a key; two replicas start twice, the others once | `ReplicasAgree`, the refinement of `ProposalKey`, `EveryStartEnds` |
| `authority` | 2 principals, an actor, a record that is also the element granted, a scene, profiles with and without facilitators, 6 revisions, 1 restore | `NothingLeftBehind`, `AuthorityMovesByRight`, `DirectionIsKept` |
| `memory` | all sets of at most 7 of 9 candidates, budgets 0..9 | `SelectionIsDetermined`, `BudgetIsSpent` |

One run of each campaign module also checks the type invariant of the module
(`TypeOK` in `write_all`, `play_talks`, `packs_growth`, `sessions_tools`, `authority`); those of ServerStart and ActorMemory are proved only.

The properties in words:

- `ImplementsLedger`: the write path is the atomic ledger; `NoLostUpdate`, `AuthorityAtCommit`, `FrozenWhileOpen`:
  no commit is computed from an older document, by a principal without the role, or beside an open conversation, until a recovery lands late.
- `InFlightValid`: as long as the revision a handler named stands, what it checked and read still holds. It is the
  inductive invariant and, when it fails, the reason of everything else. (After a recovery that landed late a revision number identifies nothing.)
- `RetryHonoured`: a request sent again after it took effect gets its receipt from `_write`, `access_change` on members and actors, `snapshot_create` and plain
  `narrative_settle`, unless its principal lost the role its handler asks for. It says nothing of the operations that look at anything else first
  (`LooksFirst`): `npc_conversation`, `npc.open` included, close with settlement, the recovery tools, conflicts, campaign design and element grants.
- `ReceiptIsFaithful`: an answer carries the revision its own request produced; a fork or a checkout that has just committed may answer with a later one,
  if others have committed before its answer was read. Its receipt has its own.
- `NothingForgotten`: on a branch, finalized profiles and Packs never change, and the history of a narrative line only grows, also when its Pack is
  imported and activated again in a later version. (The lines and the profiles are in the instance of `packs_play`; that finalized Packs never change is in it too.)
- `CurrentContext`: a conversation that can go on, and every proposal in its journal, works from the actor's present memory.
- `EndedKeepsOnlyPublications`: after the end there are publications and nothing private.
- `DesignOfActivePacks`: one root, every episode one generation below a parent whose Pack its own Pack pins.
- `ArcsEarned`: a completed arc cites an opportunity and something that involved its actor and is still in the branch's past.
- `AcceptedIsAuthorised`: an accepted legacy call came under an exposure that had not expired, and was authorised by role, profile, actor grants and conflict at that moment, and by the phase
  its exposure had learnt of at the refresh before: a tool of the old phase is accepted once more, and never later.
- `NothingLeftBehind`: who is no member has no actor grant, and no element grant but one that a snapshot kept: a restore brings
  back grants of those who left since, and only those.
- `AuthorityMovesByRight`: who may change an existing record changes only through somebody who may change it, an owner who changes
  access, an administrator who restores or changes the profile, or the scene a grant is scoped to. So no sequence of settlements and record
  changes lets anybody promote themselves, and an owner authors only after a visible grant (architecture.md).
- `DirectionIsKept`: who directs the active scene keeps it, unless an owner changes access, the campaign is restored, or somebody
  who directs it changes its participants.
- `ReplicasAgree`: replicas that serve have one key, and no place ever had two, so that what was signed before a crash is accepted after it.
  `KeepsPromise` adds that a key served is the one configured or the one in the file. `EveryStartEnds`: a process never waits
  for another, though the file it found may stay empty for ever.
- `SelectionIsDetermined`: every order of the candidates ends in the one set that `IsSelection` describes. `BudgetIsSpent`: within the budget,
  and nothing that was left out would fit. The code's comment (`actor_memory.py` 267-269) keeps floors that did not fit eligible in case room is
  left later; the invariant shows that none ever is, because the budget in use only grows.

**Why the bounds are enough.** The write path needs two handlers and a third party in the receipts for every race
that its checks distinguish: a handler only compares its revision with the current one and its slot with the
receipts, so further handlers repeat the second one's part (and the proofs cover any number). A request may be
sent whenever its revision is not in the future, so each comes current, late and repeated, on the branch it names and on another. Two conversations suffice for
`OneCurrent` and for a snapshot that contains the other as open; two activations and two proposals for a superseded worker and for
proposals of two contexts. Three branches allow a restore after a fork, a fork of a fork, and a checkout back and forth. `packs_growth` needs a parent, a child and a grandchild for the generations, a rival root, and a second revision of the root and of the first episode. Two
restores allow an attestation of a branch that was left. `packs_play` has no restore: `DemandsCanBeMet` and `ArcsEarned` are predicates of one document
that hold of every snapshot when they hold of every document, `NothingForgotten` speaks of steps that stay on a branch, memberships are not restored, and restores are the subject of `packs_growth`. In `sessions_tools` two calls wait for one
lock, and two changes let a recovery bring a profile or a conflict that the next access change meets. In `keys` one replica loses the race from the same home, one from another
(the file lies beside the database), and a second start of two of them follows a crash at every place of the first. Six
revisions in `authority` are a phase, a grant, a record, a scene, and two requests more: a revocation, a snapshot with its restore, or a
settlement with both its changes, which the proofs extend to any number. Nine candidates in `memory` have two that say the same
on every ground of preference, ties in rank, an item dearer than what is left while a cheaper one fits, and items on all tracks.

CHECK_DEADLOCK is off in the runs of CampaignPlay and CampaignAuthority, which stop at their bounds on revisions and time, in `keys`, where all
processes may serve and none is stopped, and in `memory`, where a selection ends. Symmetry is used over conversations in CampaignPlay
and over handlers in `write_all`; all properties of these runs are safety.

**Fairness.** CampaignSessions has weak fairness, per call, of running or failing a tool whose call holds the lock (one of the two, not each), and of
answering a call that has run: the event loop runs what it has started and tools do not
block for ever. ServerStart has weak fairness, per process, of the next file operation of a start: these are straight-line code that waits for
nobody. Starting and crashing have none, nor have clients and the expiry of exposures. All other properties are safety.

## 4. What the models abstract

- **sagasmith-core** (external): a recovery transaction compares revision and branch, reads, and writes later, with nothing to keep others from committing in between;
  its writes are one step, with the receipt; idempotency slots are unique in the database;
  restore, fork and checkout raise the revision by one, except the checkout of the branch that is active; whether a recovery that lands late sets the revision it
  computed or raises the one it finds is left open (`NextRevision`); a restore makes a new branch.
- Several reads before a transaction are one step. The second lookup of `narrative_settle`, inside the
  transaction, comes after a comparison that a retry fails, so it never decides.
- **Play**: private capabilities and close tokens are abstracted to who was handed what (`packets`), identifiers to
  "not used before"; who may steward a scene is not modelled. An active profile that provides conflict and conversation is
  assumed. The digest of a private context is the pair of its branch and the revision that last changed the actor's memory.
  Of the snapshots only those at the head of a branch are restored; the slots of older ones are not kept.
- **Packs**: context and validation of an expansion are one step (they are of the same revision); scenes, conflicts and
  conversations, which forbid some requests, make them nondeterministically refused; superseded facts, edits of cited
  records, actor and element grants of a seed are left out. Memberships are not part of snapshots, as in the code. There is no
  snapshot at `MaxBranch`. Only the latest snapshot is restored, and there are no forks and checkouts: they bring back documents in the same way, and are in CampaignPlay.
- **Sessions**: authorization contexts, nonces, disconnection and cancellation are left out; an exposure without a campaign
  reaches no tool of a campaign and counts as none; of a campaign only what decides tool policy is kept. A campaign may have any past, so a recovery brings
  back any phase, profile and conflict that go together (`Past`). `changes` counts
  the changes a session could notice, `MaxChanges` bounds them, and `MaxEpoch` the revision of an exposure
  whose tools are set; exposures expire and are opened again without bound.
- **Authority**: the model begins with the first active profile; before it, administrators are facilitators, as under the profile
  that names both roles. Profiles that make players or observers facilitators, grants that only let somebody look, lists of actors as
  controllers, revisions of single records, audiences, and the revision of facts and knowledge already stored are left out. Requests that
  CampaignPlay refuses (open conversations, conflicts) may happen here. `actor_change` and what seeds grant are not modelled. That memberships
  and actor grants survive a restore is taken from the core's use, as in the Packs; here too only the latest snapshot is restored.
- **ServerStart**: each start draws a new candidate; a file's content appears at once, when the stream is closed; the file system keeps what was
  written, and nobody but the servers touches a key file. Settings do not change between starts.
- **ActorMemory**: a candidate is its track, its text up to case and spacing, the number of references and words asked for that it has, salience,
  confidence, recency and canonical length; the candidates of one call are a finite set. Where candidates come from, and what an audience may see of them (`runtime.py` 513-729), is left out. That
  references are unique is an assumption (`UniverseAssumption`): they contain database keys.

## 5. What is proved

`tlapm` checks all proofs; no theorem rests on anything but the named assumptions on constants
(`RootAssumption`, `WorkloadAssumption`, `MembersAssumption`, `BoundsAssumption`, `FacilitatorAssumption`, `NullsAssumption`,
`DocumentAssumption`, `ManifestAssumption`, `BranchAssumption`,
`ProfileAssumption`, `ClientAssumption`, `KeyAssumption`, `IdleAssumption`, `SessionBounds`, `PartsAssumption`, `OfferAssumption`,
`SnapshotAssumption`, `SettingAssumption`, `ValueAssumption`, `UniverseAssumption`, `BudgetAssumption`), which TLC evaluates in
the runs. They say that the workload is a non-empty set of requests, that the
first memberships have an owner, that documents and manifests have the shape the contracts of
`packages/domain` demand (`WellFormed`), that the marks for "nobody" and "no scene" are no principal and no scene, that a handle is no session's key, and that
bounds are natural numbers. Each safety property that a passing run checks is also a theorem.

**Write path.** `LedgerInvariant` gives types, owner, receipts and revisions for the ledger.
`TypeCorrect` and `InFlightAlways` give the inductive invariant of the handlers. The argument: as long as no recovery has landed late, a step either
leaves the revision, and with it document, memberships, branches and heads, alone, or raises it by one (`CommitShape`); a handler never names
a revision later than the one it began at; therefore, when its conditional UPDATE finds the revision it names, or its recovery lands on it, the revision has stood still since it began, nothing
it checked or read has changed, and its commit is a step of the ledger. A recovery that does not land on it is `Unordered`, and so is everything after it (`LateCommits`). Everything else is a stutter.
`WriteImplementsLedger` concludes the refinement; `OwnerAlwaysRemains`, `SlotsTakeEffectOnce` and
`EveryRevisionAccounted` are carried over from the ledger; `AuthorityHolds`, `UpdatesAreKept` and `OpenConversationFreezes` follow from
the refinement, step by step (`StepsAreLedgerSteps`). All but `SlotsTakeEffectOnce` say "until a recovery lands late" in the property itself (`overrun`), and no theorem assumes that none
does. That ordinary writes never set `overrun` is part of the refinement: `Unordered` begins with a recovery. The invariant is needed because none of the properties is inductive alone: a commit writes what its
handler remembers, and only `InFlightValid` ties that memory to the database.
`ReceiptsAlwaysFaithful` and `RetriesAlwaysHonoured` are about answers and hold whether or not recoveries land late. They need `AnswerInv`: the two properties with `RetrySound`, which says that a
retry under way has its receipt and is at a lookup, in the transaction that looks first, or done. Receipts only grow, so a retry that has one keeps
it; it never gets to a commit, and what it is answered with is that receipt. The retries of operations that look at anything else first (`LooksFirst`) are in neither.

**Conversations.** `PlayTypeCorrect`, `PhasesAgree`, `AtMostOneCurrent`, `WorksFromPresentMemory`, `OneActivationWorks`, `SupersededNeverAnswers`,
`EndedKeepsPublications` and the action property `StaleNeverGoesOn`, for any number of conversations, workers, proposals, snapshots,
branches, restores, forks and checkouts. The invariant is the type with `OneCurrent`, `CurrentContext`, and `DocumentSound` of the document and of the snapshot at the head of every branch.
`DocumentSound` is the phase discipline and, for each conversation: it comes from no revision later than the present one, nor do the runtimes of its
activations; if open, it has a context, its last activation works under its own runtime and the others do neither work nor hold
a lease, and what is marked published is in its publications; if it has ended, nothing private is left; and if it is there at all, its identifier has been drawn.
The argument: no conversation is later than the revision, so whatever raises the revision makes stale every open
conversation that it does not write, and a recovery makes all of them stale; runtimes are revisions, so a refresh never draws one again and no old packet fits it;
and memory changes only through settlements, which keep no open conversation current but end the one they are part of. None of the properties is inductive alone,
because a snapshot taken by a settlement holds conversations that are still open.

Finding 2 below is bounded by two more: `OnlyBranchChangesStrand` (no step that stays on its branch leaves an open conversation that cannot be aborted unless it
was so before) and `AbortableOnFirstBranch` (on the branch the campaign began on, before any recovery and after a checkout has come back to it, `StaleCanBeAborted` holds,
as architecture.md says). The second needs `RootInv`: what is open in the head of the first branch was opened there.

**Packs.** `PacksTypeCorrect`, `DependenciesAlwaysHold`, `DesignAlwaysOfActivePacks`, `EpisodesAlwaysGrounded` and
`AdministratorAlwaysRemains`, for every library of documents and any number of restores. The invariant is the type together with
`DocumentSound` of the live document *and of the snapshot*, since a restore puts the snapshot back as the live
document. `DocumentSound` is the type with `Lifecycle` (a Pack goes from draft to finalized to imported to active and is never a draft
again once finalized), `Depends`, `Designs`, `Lineage` and `Grounded`. `Lifecycle` is what keeps the others: no draft, finalization or
import can replace the document under a version that an active Pack was checked against.
`DemandsAlwaysMet` and `ArcsAlwaysEarned` rest on `PlayInv`, again of the document and the snapshot: a profile version is a draft or finalized and not both, so that
a profile that met a demand stays what it was, and evidence only grows on a branch. `NothingEverForgotten` is the action property of the same facts.
`OnlySeedsTakeTheLastOwner` bounds finding 3: of all steps only a seed applied by a dm removes the last owner.

**Sessions.** `SessionsTypeCorrect` has the queues in it: a call that passes a lock on finds itself at the head of the queue only
because the queue holds exactly the calls that wait. `ActorGrantsAlwaysOfMembers` is inductive together with it.
`AcceptedAlwaysAuthorised` is an action property: a call is accepted only from a refreshed registry, and a refreshed exposure holds no tool its principal
may not use, and none of another phase than the one it had (`RefreshedSound`). `LockIsHeldByOne` is the safety half of `EveryCallEnds`: while a call waits for a
campaign's lock, exactly one call of the campaign holds it, so the wait is never for nobody.

**Start-up.** `ServerStartTypeOK`, `Agreement`, `KeyIsKept` and `StartKeepsPromise`, for any number of processes, homes, databases and
starts. The invariant is the type with: a process at `create`, `reread` or `write` has no configured key; only the one process that created
a file is at `write` for it while the file is empty, with its own candidate; a process that is past its read and comes to serve has the content
of its file; and `used` agrees with the files. Uniqueness of the creator is what keeps a file from being written twice, and
`ReplicasAgree` is not inductive without it. The refinement then needs one step per file operation, all but `Write` and `Check` stutters.

**Authority.** `AuthorityTypeOK` (with `WellFormed` of document and snapshot), `LeaversKeepNothing`, `AuthorityByRight` and `DirectionKept`, for all
principals, actors, elements, records, scenes and any number of revisions and restores. `NothingLeftBehind` is inductive together with the type.
The two action properties are proved per action: each either leaves everything that `MayChange` or `MayDirect` reads, or is one of the
excuses; for settlements the authority over the second change is traced back through the first to the document before.

**Actor memory.** `MemoryTypeOK`, `BudgetStrictAndSpent` and `SelectionAlwaysDetermined`, for every finite set of candidates and every budget. For the budget the invariant
says of each item passed over that it did not fit then, and `used` only grows. For the result it is `Determined`: while candidates are merged, what is kept is the
preferred one of each text seen so far; while floors are granted, those granted are the best of their tracks that fitted, in the order of the tracks; while the rest is filled, an item seen
is selected exactly if it fits beside what ranks ahead of it. At the end that is `IsSelection`, and two sets with `IsSelection` are equal (`SelectionUnique`), so
the order of the candidates cannot matter. Preference and rank are total orders because references are unique. Costs are sums over sets (`MapThenSumSet`), defined by recursion;
that they exist, are unique and grow with the set (`SumsExist`, `SumsUnique`, `CostMonotone`) is proved from a minimal counterexample
(`LeastNumber`, `MinimalSet`), since the library's induction theorems take an operator as a parameter, which no installed prover instantiates.

**Only model-checked**: `EveryCallEnds` and `EveryStartEnds`, on the instances of `sessions_tools` and `keys`. They are liveness under weak fairness, and fairness is defined with
`ENABLED`, of which the prover knows nothing. The four properties of the runs that expect a violation are false, so they have no theorem.

## 6. Where documents and code disagree

1. `write_retry`: `packages/mcp/docs/architecture.md:57-58` promises that exact retries return the original receipt. A repeated close
   or abort of a conversation is refused, because the handler requires the conversation to be open (`runtime.py:3802`)
   before it looks for a receipt. (A repeated open is refused if the actor grant, an interlocutor or the branch has gone meanwhile, `runtime.py:3854-3931`; the run does
   not use that.)
2. `play_stuck`: `architecture.md:91-93, 102-104` say a stale conversation is closed or aborted and that recovery carries no
   live worker context across a checkout. A settlement that closes one conversation may snapshot another that is open
   (`runtime.py:3481`); after a restore of that snapshot, or a checkout that finds one like it at the head of another branch, that one can be neither continued nor aborted, and it freezes
   the campaign.
3. `packs_owner`: `architecture.md:19-20` and `packages/mcp/README.md:47-48` promise last-owner protection. `campaign_seed_apply`
   (`runtime.py:1487`) sets the role of the members its seed lists without it.
4. `sessions_apart`: `packages/mcp/docs/profile-and-pack.md:80-82` demands separate exposure state for parallel campaigns. The refresh before
   every legacy call (`server.py:359`) visits the exposures of all campaigns and raises for one whose principal
   is no member any more, so one revocation stops legacy calls everywhere.

Met while modelling and not stated as a run: nothing in this repository keeps a recovery from landing on a campaign that another process changed after the core validated it
(`runtime.py:989-991` says why the other writes have a conditional UPDATE; CampaignLedger's `overrun` marks what is lost with it), and whether the database refuses such a write is the
core's affair; `packages/mcp/README.md:17` and architecture.md:50-52 say that every call revalidates the phase, and
the dispatcher does so for no modern call (`server.py:585-607`) and for a legacy call by the phase its exposure had before the refresh
(`server.py:363`), so that `access_change`, whose handler does not look at the phase, takes effect in a conflict (`AcceptedIsAuthorised` says
how far a legacy call may lag); architecture.md:83-86 lets a facilitator or a declared active steward start, update and end a
scene, and the code also whoever controls a participant (`runtime.py:2456-2469`); a record's controller of scope `rotating` must
name principals (`contracts.py:156`), which give none of them authority (`_record_authorized` does not read them); under a profile without
facilitators the participants of a scene can be written away, after which nobody may end it; a seed with nothing but principals can be applied again under a new key; element
grants of a seed are duplicated by a second application; importing an active Pack again marks the import
inactive while `packs.active` keeps it; a profile activated after a Pack may leave the Pack's demands unmet (`DemandsCanBeMet` says what is still
true); a plain close or abort leaves activations pending with their leases; a restored snapshot brings back element
grants of principals revoked since; an exposure that is opened again starts its revision at 0.

## 7. Plan

Modelled first, because everything else commits through it: the write path; then conversations, Packs and sessions; then authority, start-up and actor memory.
The proofs followed in the same order, and cover the safety properties of all runs. What is left, in this order:

1. A theorem on progress without fairness: in ServerStart, that a process under way always has a next file operation, stated as the guards of its actions.
2. What is left of a campaign on which a recovery has landed late, which needs the core's choice between setting and raising the revision.
3. The safety that `EveryCallEnds` needs besides `LockIsHeldByOne`: that a call moves forward in its queue and never back.
4. What is partly modelled: audiences of records, events and knowledge; the sheets of actors and the downtime and world-turn settlements
   (`runtime.py` 2573-2907, 4459-4513); the latter read the profile, then call `narrative_settle`.

## 8. Not modelled

- `route_dsl.py`, a pure interpreter of route expressions, and the arithmetic of the mechanics: `mechanic_resolve` is one write whose new document depends
  on the old one, which is what CampaignWrite says of every write; the draws are a checksum of seed, cursor, mechanic and key.
- `tool_contracts.py`, pagination and output shaping: schemas and layout.
- Authorization contexts and their nonces, transports and notifications of the SDK: their state is that of libraries outside this repository.
- Audience filters on reads and the queries of `actor_memory_context`: SQL over tables of `sagasmith-core`.
- Skills, fixtures and `scripts/regression_parallel_campaigns.py`: prose, data and a driver without state of their own.
- `sagasmith-core` itself: external, modelled only from how it is used.
