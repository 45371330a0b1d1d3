----------------------------- MODULE CampaignPlay -----------------------------
(***************************************************************************)
(* What happens inside one campaign: phases, scenes, conflicts, isolated   *)
(* NPC conversations with their workers, settlements and recovery.         *)
(*                                                                         *)
(* Each action is one accepted request.  Requests are atomic here, as      *)
(* CampaignWrite shows they are as long as no recovery lands late: an      *)
(* accepted request names the current revision and branch, raises the      *)
(* revision, and the memory it read outside its transaction is that of the *)
(* same revision.  A refused request changes nothing and is not an action. *)
(* The campaign has an active profile that provides conflict and NPC       *)
(* conversation, as it must have to be in play.                            *)
(*                                                                         *)
(* Workers are outside the system: they hold the packets that claims gave  *)
(* them, and may answer with any of them, as late and as often as they     *)
(* like, also on another branch.                                           *)
(***************************************************************************)
EXTENDS Naturals, FiniteSets, Sequences, SequencesExt

CONSTANTS
    Principal,
    Facilitator,        \* the principals with facilitator authority
    Scene,
    Conversation,       \* conversation identifiers, each used once
    Nobody, NoScene, NoContext, NoLease, NoSnapshot,
    LeaseTime,          \* 300 s, in ticks
    MaxActivations,     \* 64
    MaxProposals,       \* 256
    MaxRevision,        \* bound of the model on revision
    MaxBranches,        \* bound of the model on branches
    MaxTime             \* bound of the model on the clock

ASSUME BoundsAssumption ==
    /\ LeaseTime \in Nat \ {0} /\ MaxActivations \in Nat \ {0} /\ MaxProposals \in Nat \ {0}
    /\ MaxRevision \in Nat /\ MaxTime \in Nat /\ MaxBranches \in Nat \ {0}
ASSUME FacilitatorAssumption == Facilitator \subseteq Principal
ASSUME NullsAssumption == Nobody \notin Principal /\ NoScene \notin Scene

VARIABLES
    revision,   \* Campaign.revision
    branch,     \* the active branch; branches are numbered as they are made
    now,        \* time.time_ns
    doc,        \* Campaign.state
    heads,      \* the document in the head snapshot of each branch
    packets,    \* what workers were handed by claims
    used        \* the conversation identifiers drawn so far

vars == <<revision, branch, now, doc, heads, packets, used>>

\* The branch a campaign is created on.
Root == 1

Phase  == {"lobby", "play", "conflict"}
Status == {"absent", "open", "closed", "aborted"}

\* The private context of a conversation: the branch it was read on and the actor
\* memory it contains, named by the revision that last changed that memory.  It
\* also stands for its digest.
Context == [branch : Nat, memory : Nat]

\* `id` is the revision that granted the lease.
Lease == [id : Nat, expires : Nat, context : Context]
Activation == [runtime : Nat,
               status : {"pending", "claimed", "invalidated", "settled"},
               lease : Lease \cup {NoLease}]

\* `context` is what the worker saw when it made the proposal.
Proposal == [id : Nat, context : Context, published : BOOLEAN]

\* `at` is context_revision, `runtime` the revision in actor_runtime_id.
Talk == [status : Status, at : Nat, context : Context \cup {NoContext}, runtime : Nat,
         activations : Seq(Activation), proposals : SUBSET Proposal,
         publications : SUBSET Nat, accepted : SUBSET Nat]

NoTalk == [status |-> "absent", at |-> 0, context |-> NoContext, runtime |-> 0,
           activations |-> << >>, proposals |-> {}, publications |-> {}, accepted |-> {}]

Document == [phase : Phase, conflict : Principal \cup {Nobody},
             scene : Scene \cup {NoScene}, ended : SUBSET Scene,
             memory : Nat, talk : [Conversation -> Talk]]

Packet == [talk : Conversation, activation : Nat, runtime : Nat, lease : Nat,
           context : Context]

Init ==
    /\ revision = 0 /\ branch = Root /\ now = 0
    /\ doc = [phase |-> "lobby", conflict |-> Nobody, scene |-> NoScene, ended |-> {},
              memory |-> 0, talk |-> [c \in Conversation |-> NoTalk]]
    /\ heads = <<NoSnapshot>>
    /\ packets = {} /\ used = {}

-----------------------------------------------------------------------------

Open(c) == doc.talk[c].status = "open"
Frozen  == \E c \in Conversation : Open(c)

\* The document a request writes, and the revision it produces.
Write(d) ==
    /\ revision < MaxRevision
    /\ doc' = d
    /\ revision' = revision + 1
    /\ UNCHANGED <<branch, now>>

\* A write that is neither a conversation operation nor takes a snapshot.
Mutate(d) == ~Frozen /\ Write(d) /\ UNCHANGED <<heads, packets, used>>

Quiet == doc.phase = "play" /\ doc.conflict = Nobody

\* Mutant: the phase changes in the middle of a scene.
ChangePhaseMidScene(phase) ==
    /\ doc.phase # "conflict"
    /\ Mutate([doc EXCEPT !.phase = phase])

ChangePhase(phase) ==
    /\ doc.phase # "conflict"
    /\ phase = "lobby" => doc.scene = NoScene
    /\ Mutate([doc EXCEPT !.phase = phase])

StartScene(s) ==
    /\ doc.phase = "play"
    /\ doc.scene = NoScene
    /\ s \notin doc.ended
    /\ Mutate([doc EXCEPT !.scene = s])

UpdateScene ==
    /\ doc.phase = "play"
    /\ doc.scene # NoScene
    /\ Mutate(doc)

EndScene ==
    /\ doc.phase = "play"
    /\ doc.scene # NoScene
    /\ Mutate([doc EXCEPT !.scene = NoScene, !.ended = @ \cup {doc.scene}])

StartConflict(p) ==
    /\ Quiet
    /\ Mutate([doc EXCEPT !.conflict = p, !.phase = "conflict"])

DirectsConflict(p) ==
    /\ doc.phase = "conflict"
    /\ p \in Facilitator \cup {doc.conflict}

ActInConflict(p) ==
    /\ DirectsConflict(p)
    /\ Mutate(doc)

EndConflict(p) ==
    /\ DirectsConflict(p)
    /\ Mutate([doc EXCEPT !.conflict = Nobody, !.phase = "play"])

-----------------------------------------------------------------------------
(* NPC conversations *)

\* Mutant: an operation on one conversation keeps the others current.
BecomesWithOthers(c, t) ==
    Write([doc EXCEPT !.talk = [d \in Conversation |->
              IF d = c THEN [t EXCEPT !.at = revision + 1]
              ELSE IF Open(d) THEN [doc.talk[d] EXCEPT !.at = revision + 1]
              ELSE doc.talk[d]]])

Becomes(c, t) == Write([doc EXCEPT !.talk[c] = [t EXCEPT !.at = revision + 1]])

FreshActivation(runtime) == [runtime |-> runtime, status |-> "pending", lease |-> NoLease]

\* The actor memory read for a conversation.
MemoryContext == [branch |-> branch, memory |-> doc.memory]

OpenTalk(c) ==
    /\ Quiet
    /\ c \notin used
    /\ used' = used \cup {c}
    /\ Becomes(c, [NoTalk EXCEPT !.status = "open", !.context = MemoryContext,
                                 !.runtime = revision + 1,
                                 !.activations = <<FreshActivation(revision + 1)>>])
    /\ UNCHANGED <<heads, packets>>

\* What every operation on an open conversation finds.
Live(c) == Quiet /\ Open(c) /\ doc.talk[c].context.branch = branch

\* Mutant: the context revision is not compared.
CurrentAnyRevision(c) == Live(c)

\* What every one but abort needs as well.
Current(c) == Live(c) /\ doc.talk[c].at = revision

Claim(c, i) ==
    LET t == doc.talk[c]
        lease == [id |-> revision + 1, expires |-> now + LeaseTime, context |-> t.context]
    IN
    /\ Current(c)
    /\ t.activations[i].status = "pending"
    /\ Becomes(c, [t EXCEPT !.activations[i].status = "claimed",
                            !.activations[i].lease = lease])
    /\ packets' = packets \cup {[talk |-> c, activation |-> i, lease |-> lease.id,
                                 runtime |-> t.activations[i].runtime, context |-> t.context]}
    /\ UNCHANGED <<heads, used>>

Working(a) == a.status \in {"pending", "claimed"}

\* Mutant: the replaced activation keeps its lease.
RefreshKeepingLease(c) ==
    LET t == doc.talk[c]
        i == SelectLastInSeq(t.activations, Working)
        replaced == [t.activations EXCEPT ![i].status = "invalidated"]
    IN
    /\ Current(c)
    /\ Len(t.activations) < MaxActivations
    /\ i # 0
    /\ Becomes(c, [t EXCEPT !.context = MemoryContext, !.runtime = revision + 1,
                            !.activations = Append(replaced, FreshActivation(revision + 1))])
    /\ UNCHANGED <<heads, packets, used>>

\* Mutant: a refresh only appends an activation.
RefreshAppending(c) ==
    LET t == doc.talk[c] IN
    /\ Current(c)
    /\ Len(t.activations) < MaxActivations
    /\ Becomes(c, [t EXCEPT !.context = MemoryContext,
                            !.activations = Append(@, FreshActivation(t.runtime))])
    /\ UNCHANGED <<heads, packets, used>>

\* The activation that a refresh replaces: the last one that is still working.
Refresh(c) ==
    LET t == doc.talk[c]
        i == SelectLastInSeq(t.activations, Working)
        replaced == [t.activations EXCEPT ![i].status = "invalidated", ![i].lease = NoLease]
    IN
    /\ Current(c)
    /\ Len(t.activations) < MaxActivations
    /\ i # 0
    /\ Becomes(c, [t EXCEPT !.context = MemoryContext, !.runtime = revision + 1,
                            !.activations = Append(replaced, FreshActivation(revision + 1))])
    /\ UNCHANGED <<heads, packets, used>>

\* A worker's answer must come under the lease it was given, before it expires,
\* and from the context the conversation has now.
Answers(k, t) ==
    LET a == t.activations[k.activation] IN
    /\ a.lease # NoLease
    /\ a.lease.id = k.lease
    /\ now < a.lease.expires
    /\ k.runtime = t.runtime /\ k.context = t.context
    /\ k.context = a.lease.context
    /\ k.runtime = a.runtime

Propose(k) ==
    LET t == doc.talk[k.talk] IN
    /\ Current(k.talk)
    /\ Cardinality(t.proposals) < MaxProposals
    /\ k.activation \in DOMAIN t.activations
    /\ Answers(k, t)
    /\ Becomes(k.talk, [t EXCEPT !.proposals = @ \cup
                          {[id |-> revision + 1, context |-> k.context, published |-> FALSE]}])
    /\ UNCHANGED <<heads, packets, used>>

Publish(c, p) ==
    /\ Current(c)
    /\ p \in doc.talk[c].proposals
    /\ ~p.published
    /\ Becomes(c, [doc.talk[c] EXCEPT
                     !.proposals = (@ \ {p}) \cup {[p EXCEPT !.published = TRUE]},
                     !.publications = @ \cup {p.id}])
    /\ UNCHANGED <<heads, packets, used>>

\* Mutant: a close may select unpublished proposals.
SelectableUnpublished(c) == {p.id : p \in doc.talk[c].proposals}

\* Proposals that a close may select.
Selectable(c) == {p.id : p \in {x \in doc.talk[c].proposals : x.published}}

Ended(t, status, selected) ==
    [t EXCEPT !.status = status, !.accepted = selected,
              !.proposals = {}, !.context = NoContext]

CloseTalk(c, selected) ==
    /\ Current(c)
    /\ selected \subseteq Selectable(c)
    /\ Becomes(c, Ended(doc.talk[c], "closed", selected))
    /\ UNCHANGED <<heads, packets, used>>

AbortTalk(c) ==
    /\ Live(c)
    /\ Becomes(c, Ended(doc.talk[c], "aborted", {}))
    /\ UNCHANGED <<heads, packets, used>>

-----------------------------------------------------------------------------
(* Settlements, snapshots and recovery *)

\* A settlement may change what actors know, and may take a snapshot.
Remember(d, learns) == IF learns THEN [d EXCEPT !.memory = revision + 1] ELSE d
Keep(takes) == heads' = IF takes THEN [heads EXCEPT ![branch] = doc'] ELSE heads

Settle(learns, takes) ==
    /\ ~Frozen
    /\ Write(Remember(doc, learns))
    /\ Keep(takes)
    /\ UNCHANGED <<packets, used>>

\* Mutant: a settlement gives the activations the status of the conversation.
SettledAsClosed(a) == [a EXCEPT !.status = "closed", !.lease = NoLease]

Settled(a) == [a EXCEPT !.status = "settled", !.lease = NoLease]

\* close with a settlement: the one way to settle while conversations are open.
SettleClose(c, selected, learns, takes) ==
    LET t == Ended(doc.talk[c], "closed", selected)
        all == [t EXCEPT !.activations = [i \in DOMAIN @ |-> Settled(@[i])],
                         !.at = revision + 1]
    IN
    /\ Current(c)
    /\ selected \subseteq Selectable(c)
    /\ Write(Remember([doc EXCEPT !.talk[c] = all], learns))
    /\ Keep(takes)
    /\ UNCHANGED <<packets, used>>

CreateSnapshot ==
    /\ ~Frozen
    /\ Write(doc)
    /\ Keep(TRUE)
    /\ UNCHANGED <<packets, used>>

\* Recovery goes to a branch and takes its document from a snapshot; the
\* revision goes on, also when the document stays.
Recover(b, d) ==
    /\ ~Frozen
    /\ d # NoSnapshot
    /\ revision < MaxRevision
    /\ branch' = b
    /\ doc' = d
    /\ revision' = revision + 1
    /\ UNCHANGED <<now, packets, used>>

\* A new branch, with the snapshot d at its head.
NewBranch(d) == Len(heads) < MaxBranches /\ heads' = Append(heads, d)

\* A fork leaves from the head of the active branch, and may stay behind.
Fork ==
    /\ heads[branch] # NoSnapshot
    /\ Recover(branch, doc)
    /\ NewBranch(heads[branch])

ForkAndCheckout ==
    /\ Recover(Len(heads) + 1, heads[branch])
    /\ NewBranch(heads[branch])

\* (A checkout of the active branch writes nothing.)
Checkout(b) ==
    /\ b # branch
    /\ Recover(b, heads[b])
    /\ UNCHANGED heads

Restore(b) ==
    /\ Recover(Len(heads) + 1, heads[b])
    /\ NewBranch(heads[b])

Tick == now < MaxTime /\ now' = now + 1 /\ UNCHANGED <<revision, branch, doc, heads, packets, used>>

TalkNext ==
    \E c \in Conversation :
        \/ OpenTalk(c)
        \/ \E i \in DOMAIN doc.talk[c].activations : Claim(c, i)
        \/ Refresh(c)
        \/ \E p \in doc.talk[c].proposals : Publish(c, p)
        \/ \E selected \in SUBSET Selectable(c) : CloseTalk(c, selected)
        \/ AbortTalk(c)
        \/ \E selected \in SUBSET Selectable(c), learns, takes \in BOOLEAN :
              SettleClose(c, selected, learns, takes)

Next ==
    \/ \E phase \in {"lobby", "play"} : ChangePhase(phase)
    \/ \E s \in Scene : StartScene(s)
    \/ UpdateScene
    \/ EndScene
    \/ \E p \in Principal : StartConflict(p)
    \/ \E p \in Principal : ActInConflict(p)
    \/ \E p \in Principal : EndConflict(p)
    \/ TalkNext
    \/ \E k \in packets : Propose(k)
    \/ \E learns, takes \in BOOLEAN : Settle(learns, takes)
    \/ CreateSnapshot
    \/ \E b \in DOMAIN heads : Restore(b)
    \/ \E b \in DOMAIN heads : Checkout(b)
    \/ Fork
    \/ ForkAndCheckout
    \/ Tick

Spec == Init /\ [][Next]_vars

-----------------------------------------------------------------------------
(* Properties *)

\* The type of the state: documents, leases, scenes and the revisions that name them.
TypeOK ==
    /\ revision \in 0..MaxRevision /\ now \in 0..MaxTime
    /\ doc \in Document
    /\ heads \in Seq(Document \cup {NoSnapshot}) /\ branch \in DOMAIN heads
    /\ packets \subseteq Packet
    /\ used \subseteq Conversation

\* The phase agrees with what is going on: a conflict exists exactly in the
\* conflict phase, the lobby has no active scene, conversations are only open in
\* play without a conflict, and an ended scene is not active again.
PhaseDiscipline ==
    /\ doc.conflict # Nobody <=> doc.phase = "conflict"
    /\ doc.phase = "lobby" => doc.scene = NoScene
    /\ Frozen => Quiet
    /\ doc.scene \notin doc.ended

\* Of several open conversations at most one is current: every request makes all
\* others stale.
OneCurrent ==
    \A c, d \in Conversation :
        Open(c) /\ Open(d) /\ doc.talk[c].at = revision /\ doc.talk[d].at = revision => c = d

\* A conversation that can go on works from the actor's present memory, and so
\* did every proposal in its journal, whatever settlements of other
\* conversations, refreshes and late answers came in between.
CurrentContext ==
    \A c \in Conversation : Live(c) /\ doc.talk[c].at = revision =>
        /\ doc.talk[c].context = MemoryContext
        /\ \A p \in doc.talk[c].proposals : p.context = MemoryContext

\* An open conversation has exactly one working activation, the last, under the
\* conversation's own runtime; the others hold no lease.
OneWorkingActivation ==
    \A c \in Conversation : Open(c) =>
        LET t == doc.talk[c] IN
        /\ Working(Last(t.activations)) /\ Last(t.activations).runtime = t.runtime
        /\ \A i \in 1..Len(t.activations) - 1 :
              /\ ~Working(t.activations[i])
              /\ t.activations[i].lease = NoLease
              /\ t.activations[i].runtime # t.runtime

\* Only the worker of the last activation can answer, however late the others try.
SupersededCannotAnswer ==
    \A k \in packets :
        LET t == doc.talk[k.talk] IN
        Open(k.talk) /\ k.activation \in DOMAIN t.activations /\ Answers(k, t) =>
            k.activation = Len(t.activations)

\* What a conversation that has ended keeps: its publications, of which it may
\* have accepted some, and nothing private.
EndedKeepsOnlyPublications ==
    \A c \in Conversation :
        LET t == doc.talk[c] IN
        t.status \in {"closed", "aborted"} =>
            /\ t.proposals = {} /\ t.context = NoContext
            /\ t.accepted \subseteq t.publications
            /\ t.status = "aborted" => t.accepted = {}

\* A conversation that was overtaken by another request never goes on: all that
\* can happen to it is to end.
StaleForever ==
    [][\A c \in Conversation :
          Open(c) /\ doc.talk[c].at # revision =>
              \/ doc'.talk[c].status # "open"
              \/ doc'.talk[c].at # revision']_vars

\* A conversation made stale can be aborted (architecture.md: the caller must
\* close or abort).
StaleCanBeAborted == \A c \in Conversation : Open(c) => Live(c)
===============================================================================
