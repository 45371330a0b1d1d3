---------------------------- MODULE CampaignPacks ----------------------------
(***************************************************************************)
(* How a campaign gets its content: game profiles and Packs with their     *)
(* drafts, finalized versions, imports and activations; the campaign       *)
(* design that the runtime manifests of active Packs form, its growth by   *)
(* attested episodes and its progress by evidence; campaign seeds and      *)
(* memberships.                                                            *)
(*                                                                         *)
(* Each action is one accepted request; CampaignWrite proves that requests *)
(* are atomic as long as no recovery lands late.  Scenes, conflicts and    *)
(* conversations, which also forbid some of these requests, are in         *)
(* CampaignPlay: here such a request may be accepted or not.  Of recovery  *)
(* the latest snapshot is restored; CampaignPlay has the branches that     *)
(* forks and checkouts move between.                                       *)
(*                                                                         *)
(* Documents are constants: Body is the set of profile documents, Content  *)
(* the set of Pack documents, each given by what the server looks at.      *)
(* Documents with the same id and version are revisions of one draft.      *)
(* Equal documents, and no others, have equal checksums.                   *)
(***************************************************************************)
EXTENDS Naturals, Sequences, SequencesExt

CONSTANTS
    Principal, Actor,
    Profile, Body, ProfileKey,      \* profile versions, documents, the version of each
    Pack, Content, PackKey,         \* Pack versions, documents, the version of each
    Demands,        \* the active profile documents (or Absent) a Pack accepts
    Needs,          \* its dependencies: version and required checksum, or AnySum
    Manifest,       \* its runtime manifest, or NoManifest
    Seed,           \* what it materializes as a campaign seed, or NoSeed
    ManifestId,     \* a manifest's id; it also names what the manifest declares
    Entity, EntityType, Declared,   \* narrative lines, their type and first status
    Opportunity,    \* the opportunities of a player's arc; {} for all other lines
    Linked,         \* the play evidence that involves the actor of a player's arc
    PlayRef,        \* references to events, facts, records and scenes of play
    Founder,        \* the principal who creates the campaign
    Absent, NoManifest, NoSeed, NoSnapshot, AnySum, Unsigned,
    MaxBranch       \* bound of the model on branches

Role       == {"owner", "dm", "player", "observer"}
Standing   == Role \cup {"none"}
AdminRoles == {"owner", "dm"}
Ref        == PlayRef \cup ManifestId

Status == {"dormant", "hidden", "open", "active", "escalated", "discovered",
           "interpreted", "resolved", "completed", "abandoned"}

\* PROGRESS_TRANSITIONS: the statuses that may follow a status.
Transitions ==
    [front         |-> [dormant     |-> {"open", "active", "resolved"},
                        open        |-> {"active", "resolved"},
                        active      |-> {"escalated", "resolved"},
                        escalated   |-> {"resolved"},
                        resolved    |-> {}],
     thread        |-> [open        |-> {"active", "resolved", "abandoned"},
                        active      |-> {"resolved", "abandoned"},
                        resolved    |-> {},
                        abandoned   |-> {}],
     clue          |-> [hidden      |-> {"discovered"},
                        open        |-> {"discovered"},
                        discovered  |-> {"interpreted"},
                        interpreted |-> {}],
     character_arc |-> [open        |-> {"active", "completed", "abandoned"},
                        active      |-> {"completed", "abandoned"},
                        completed   |-> {},
                        abandoned   |-> {}]]

\* Generation 0 is a root, every other manifest an emergent episode.
ManifestType ==
    [id : ManifestId, generation : Nat, root : ManifestId,
     parent : ManifestId \cup {Absent}, cites : SUBSET Ref, entities : SUBSET Entity]
SeedType ==
    [members : [Principal -> Standing], actors : SUBSET Actor, records : SUBSET PlayRef]

\* A Pack document together with the branch of the attestation it carries.
Signed == [content : Content, att : Nat \cup {Unsigned}]

HasManifest(c) == Manifest[c] # NoManifest
IsEpisode(c)   == HasManifest(c) /\ Manifest[c].generation > 0

ASSUME DocumentAssumption ==
    /\ ProfileKey \in [Body -> Profile] /\ PackKey \in [Content -> Pack]
    /\ Demands \in [Content -> SUBSET (Body \cup {Absent})]
    /\ Needs \in [Content -> SUBSET [key : Pack, sum : Signed \cup {AnySum}]]
    /\ Manifest \in [Content -> ManifestType \cup {NoManifest}]
    /\ Seed \in [Content -> SeedType \cup {NoSeed}]
    /\ Absent \notin Content
    /\ Opportunity \in [Entity -> SUBSET Ref] /\ Linked \in [Entity -> SUBSET PlayRef]
    /\ \A e \in Entity : Declared[e] \in DOMAIN Transitions[EntityType[e]]
    /\ Founder \in Principal

\* What validate_runtime_manifest requires of one manifest.
WellFormed(m) ==
    IF m.generation = 0 THEN m.root = m.id /\ m.parent = Absent
    ELSE m.parent # Absent /\ m.root # m.id /\ m.cites # {}

ASSUME ManifestAssumption == \A c \in Content : HasManifest(c) => WellFormed(Manifest[c])

ASSUME BranchAssumption == MaxBranch \in Nat

VARIABLES
    branch,     \* the active branch; every restore makes a new one
    doc,        \* Campaign.state
    snapshot,   \* the latest snapshot
    issued,     \* the attestations that campaign_expansion has signed
    role        \* the CampaignMembership rows

vars == <<branch, doc, snapshot, issued, role>>

Attestation == [branch : Nat, pack : Pack, manifest : ManifestType]
Step == [status : Status, evidence : SUBSET Ref]

Document ==
    [phase     : {"lobby", "play"},
     bodies    : [Profile -> Body \cup {Absent}],    \* profiles.drafts
     released  : [Profile -> Body \cup {Absent}],    \* profiles.finalized
     profile   : Profile \cup {Absent},              \* profiles.active
     drafts    : [Pack -> Signed \cup {Absent}],     \* packs.drafts
     finalized : [Pack -> Signed \cup {Absent}],     \* packs.finalized
     imports   : [Pack -> {"none", "inactive", "active"}],
     active    : SUBSET Pack,                        \* packs.active
     design    : [Pack -> Content \cup {Absent}],    \* campaign_design.manifests
     progress  : [Entity -> Seq(Step)],              \* campaign_design.progress
     evidence  : SUBSET PlayRef,                     \* what happened on this branch
     bound     : SUBSET Actor]                       \* actor_bindings

Init ==
    /\ branch = 0
    /\ doc = [phase     |-> "lobby",
              bodies    |-> [p \in Profile |-> Absent],
              released  |-> [p \in Profile |-> Absent],
              profile   |-> Absent,
              drafts    |-> [k \in Pack |-> Absent],
              finalized |-> [k \in Pack |-> Absent],
              imports   |-> [k \in Pack |-> "none"],
              active    |-> {},
              design    |-> [k \in Pack |-> Absent],
              progress  |-> [e \in Entity |-> << >>],
              evidence  |-> {},
              bound     |-> {}]
    /\ snapshot = NoSnapshot
    /\ issued = {}
    /\ role = [p \in Principal |-> IF p = Founder THEN "owner" ELSE "none"]

Administered == \E p \in Principal : role[p] \in AdminRoles

Inhabited == \E p \in Principal : role[p] # "none"

\* An administrator's request that writes the document.
Write(d) ==
    /\ Administered
    /\ doc' = d
    /\ UNCHANGED <<branch, snapshot, issued, role>>

InLobby == doc.phase = "lobby"

-----------------------------------------------------------------------------
(* Profiles *)

ActiveBody == IF doc.profile = Absent THEN Absent ELSE doc.released[doc.profile]

DraftProfile(b) ==
    LET p == ProfileKey[b] IN
    /\ InLobby
    /\ doc.released[p] = Absent
    /\ Write([doc EXCEPT !.bodies[p] = b])

FinalizeProfile(p) ==
    /\ InLobby
    /\ doc.bodies[p] # Absent
    /\ Write([doc EXCEPT !.released[p] = doc.bodies[p], !.bodies[p] = Absent])

ActivateProfile(p) ==
    /\ InLobby
    /\ doc.released[p] # Absent
    /\ Write([doc EXCEPT !.profile = p])

\* The scene that must have ended before a return to the lobby is in CampaignPlay.
ChangePhase(phase) ==
    /\ phase = "play" => ActiveBody # Absent
    /\ Write([doc EXCEPT !.phase = phase])

-----------------------------------------------------------------------------
(* The campaign design *)

Manifests(design) == {k \in Pack : design[k] # Absent}
ManifestOf(design, k) == Manifest[design[k]]

\* References that exist on the branch: what happened in play, and what the
\* manifests of the design declare.
Available(d) == d.evidence \cup {ManifestOf(d.design, k).id : k \in Manifests(d.design)}

ValidDesign(design) ==
    /\ \A j, k \in Manifests(design) : j # k =>
          /\ ManifestOf(design, j).id # ManifestOf(design, k).id
          /\ ManifestOf(design, j).entities \cap ManifestOf(design, k).entities = {}
    /\ \E root \in Manifests(design) : \A k \in Manifests(design) :
          ManifestOf(design, k).generation = 0 <=> k = root
    /\ \A k \in Manifests(design) :
          LET m == ManifestOf(design, k) IN
          m.generation > 0 =>
              /\ \E j \in Manifests(design) : ManifestOf(design, j).id = m.root
              /\ \E j \in Manifests(design) :
                    LET parent == ManifestOf(design, j) IN
                    /\ parent.id = m.parent
                    /\ parent.root = m.root
                    /\ m.generation = parent.generation + 1

\* The design with the manifest of c under its Pack version.
Extended(c) == [doc.design EXCEPT ![PackKey[c]] = c]

\* campaign_expansion: context and validate name the same revision, so that the
\* evidence offered is that of the moment of signing.
Attest(c) ==
    LET k == PackKey[c] IN
    /\ Administered
    /\ Manifests(doc.design) # {}
    /\ doc.drafts[k] = Absent /\ doc.finalized[k] = Absent /\ doc.imports[k] = "none"
    /\ IsEpisode(c)
    /\ Manifest[c].cites \subseteq Available(doc)
    /\ ValidDesign(Extended(c))
    /\ issued' = issued \cup {[branch |-> branch, pack |-> k, manifest |-> Manifest[c]]}
    /\ UNCHANGED <<branch, doc, snapshot, role>>

\* The attestation a document carries is one this server signed for its version
\* and manifest.
SignedHere(x) ==
    [branch |-> x.att, pack |-> PackKey[x.content], manifest |-> Manifest[x.content]] \in issued

\* The Pack of an episode's parent is active, and pinned by the episode's Pack.
ParentPinned(c) ==
    \E p \in doc.active :
        /\ HasManifest(doc.finalized[p].content)
        /\ Manifest[doc.finalized[p].content].id = Manifest[c].parent
        /\ [key |-> p, sum |-> doc.finalized[p]] \in Needs[c]

\* Mutant: an episode need not depend on its parent's Pack.
WithinBoundaryWithoutPin(x) ==
    IsEpisode(x.content) =>
        SignedHere(x) /\ x.att = branch /\ Manifest[x.content].cites \subseteq Available(doc)

\* Mutant: the signature is trusted, whatever the branch, and what the
\* episode cites is not looked for again.
WithinBoundaryBySignature(x) ==
    IsEpisode(x.content) => SignedHere(x) /\ ParentPinned(x.content)

\* _verify_episode_pack_boundary.
WithinBoundary(x) ==
    IsEpisode(x.content) =>
        /\ SignedHere(x) /\ x.att = branch
        /\ Manifest[x.content].cites \subseteq Available(doc)
        /\ ParentPinned(x.content)

Current(e) == IF doc.progress[e] = << >> THEN Declared[e] ELSE Last(doc.progress[e]).status

\* Mutant: a player's arc is completed by its opportunity alone.
ArcByOpportunity(e, cited) == Opportunity[e] # {} => cited \cap Opportunity[e] # {}

\* A player's arc is completed by one of its opportunities together with
\* something that happened in play to its actor.
ArcEarned(e, cited) ==
    Opportunity[e] # {} =>
        cited \cap Opportunity[e] # {} /\ cited \cap Linked[e] \cap doc.evidence # {}

Advance(e, status, cited) ==
    /\ doc.phase = "play"
    /\ \E k \in Manifests(doc.design) : e \in ManifestOf(doc.design, k).entities
    /\ status \in Transitions[EntityType[e]][Current(e)]
    /\ cited # {} /\ cited \subseteq Available(doc)
    /\ status = "completed" => ArcEarned(e, cited)
    /\ Write([doc EXCEPT !.progress[e] = Append(@, [status |-> status, evidence |-> cited])])

-----------------------------------------------------------------------------
(* Packs *)

\* create_draft and update_draft.
Draft(c, att) ==
    LET k == PackKey[c]
        x == [content |-> c, att |-> att]
    IN
    /\ InLobby
    /\ WithinBoundary(x)
    /\ doc.finalized[k] = Absent
    /\ Write([doc EXCEPT !.drafts[k] = x])

\* The manifests of the active Packs, as finalize collects them.
ActiveManifests ==
    [k \in Pack |-> IF k \in doc.active /\ HasManifest(doc.finalized[k].content)
                    THEN doc.finalized[k].content ELSE Absent]

Finalize(k) ==
    LET x == doc.drafts[k] IN
    /\ InLobby
    /\ x # Absent
    /\ IsEpisode(x.content) =>
          WithinBoundary(x) /\ ValidDesign([ActiveManifests EXCEPT ![k] = x.content])
    /\ Write([doc EXCEPT !.finalized[k] = x, !.drafts[k] = Absent])

\* Mutant: the import's recovery mark is taken for its status.
ImportComplete(k) ==
    /\ InLobby
    /\ doc.finalized[k] # Absent
    /\ Write([doc EXCEPT !.imports[k] = "complete"])

Import(k) ==
    /\ InLobby
    /\ doc.finalized[k] # Absent
    /\ Write([doc EXCEPT !.imports[k] = "inactive"])

\* Mutant: dependencies are looked up by version alone.
DependsMetByVersion(c) == \A n \in Needs[c] : n.key \in doc.active

DependsMet(c) ==
    \A n \in Needs[c] : /\ n.key \in doc.active
                        /\ n.sum # AnySum => doc.finalized[n.key] = n.sum

\* Mutant: the profile a Pack demands is not looked at.
SuitsAny(c) == TRUE

Suits(c) == ActiveBody \in Demands[c]

\* Mutant: the lines that the manifest declares start again from their first status.
DesignedAfresh(d, c) ==
    [d EXCEPT !.design = Extended(c),
              !.progress = [e \in Entity |-> IF e \in Manifest[c].entities THEN << >> ELSE @[e]]]

\* The document once the manifest of c is part of the design; progress stays.
Designed(d, c) == [d EXCEPT !.design = Extended(c)]

Activate(k) ==
    LET x == doc.finalized[k]
        c == x.content
        activated == [doc EXCEPT !.imports[k] = "active", !.active = @ \cup {k}]
    IN
    /\ InLobby
    /\ doc.imports[k] # "none"
    /\ WithinBoundary(x)
    /\ Suits(c)
    /\ DependsMet(c)
    /\ IF HasManifest(c)
       THEN /\ ValidDesign(Extended(c))
            /\ Write(Designed(activated, c))
       ELSE Write(activated)

-----------------------------------------------------------------------------
(* Seeds and memberships *)

\* Mutant: the principal who applies the seed gets the seed's role as well.
MembersSeededAll(s, p) ==
    [q \in Principal |-> IF s.members[q] = "none" THEN role[q] ELSE s.members[q]]

\* campaign_seed_apply: principals of the seed become members, and those who are
\* members get the seed's role, except the principal who applies it.
MembersSeeded(s, p) ==
    [q \in Principal |-> IF s.members[q] = "none" \/ (q = p /\ role[q] # "none")
                         THEN role[q] ELSE s.members[q]]

\* The document with what a seed materializes.  (Its grants and actor knowledge are
\* not modelled.)
Seeded(s) == [doc EXCEPT !.bound = @ \cup s.actors, !.evidence = @ \cup s.records]

ApplySeed(p, k) ==
    LET s == Seed[doc.finalized[k].content] IN
    /\ role[p] \in AdminRoles
    /\ InLobby
    /\ k \in doc.active
    /\ s # NoSeed
    /\ s.actors \cap doc.bound = {} /\ s.records \cap doc.evidence = {}
    /\ role' = MembersSeeded(s, p)
    /\ doc' = Seeded(s)
    /\ UNCHANGED <<branch, snapshot, issued>>

\* access_change on a membership; "none" revokes it.
ChangeAccess(p, q, standing) ==
    /\ role[p] = "owner"
    /\ standing = "none" => role[q] # "none"
    /\ role[q] = "owner" /\ standing # "owner" =>
          \E o \in Principal \ {q} : role[o] = "owner"
    /\ role' = [role EXCEPT ![q] = standing]
    /\ UNCHANGED <<branch, doc, snapshot, issued>>

-----------------------------------------------------------------------------
(* Play and recovery *)

\* A settlement, a record or a scene leaves something that can be cited.
Happen(r) ==
    /\ Inhabited
    /\ r \notin doc.evidence
    /\ doc' = [doc EXCEPT !.evidence = @ \cup {r}]
    /\ UNCHANGED <<branch, snapshot, issued, role>>

\* An administrator asks for a snapshot, or a settlement takes one.
\* Bound of the model: no snapshot that could not be restored.
CreateSnapshot ==
    /\ Inhabited
    /\ branch < MaxBranch
    /\ snapshot' = doc
    /\ UNCHANGED <<branch, doc, issued, role>>

Restore ==
    /\ Administered
    /\ snapshot # NoSnapshot
    /\ branch < MaxBranch
    /\ branch' = branch + 1
    /\ doc' = snapshot
    /\ UNCHANGED <<snapshot, issued, role>>

Next ==
    \/ \E b \in Body : DraftProfile(b)
    \/ \E p \in Profile : FinalizeProfile(p) \/ ActivateProfile(p)
    \/ \E phase \in {"lobby", "play"} : ChangePhase(phase)
    \/ \E c \in Content : Attest(c)
    \/ \E e \in Entity : \E status \in Status, cited \in SUBSET Ref : Advance(e, status, cited)
    \/ \E c \in Content : \E att \in IF IsEpisode(c) THEN 0..branch ELSE {Unsigned} : Draft(c, att)
    \/ \E k \in Pack : Finalize(k) \/ Import(k) \/ Activate(k)
    \/ \E p \in Principal, k \in Pack : ApplySeed(p, k)
    \/ \E p, q \in Principal, standing \in Standing : ChangeAccess(p, q, standing)
    \/ \E r \in PlayRef : Happen(r)
    \/ CreateSnapshot
    \/ Restore

Spec == Init /\ [][Next]_vars

-----------------------------------------------------------------------------
(* Properties *)

\* The type of the state.
TypeOK ==
    /\ branch \in 0..MaxBranch
    /\ doc \in Document
    /\ snapshot \in Document \cup {NoSnapshot}
    /\ issued \subseteq Attestation
    /\ role \in [Principal -> Standing]

\* An active Pack rests on active Packs, with the very documents it pinned by
\* checksum, whatever was drafted, re-imported or restored since.
DependenciesHold ==
    \A k \in doc.active : \A n \in Needs[doc.finalized[k].content] :
        /\ n.key \in doc.active
        /\ n.sum # AnySum => doc.finalized[n.key] = n.sum

\* The campaign design consists of the manifests of the active Packs, with one
\* root from which every episode descends generation by generation, each in a
\* Pack that pins the active Pack of its parent.
DesignOfActivePacks ==
    LET manifest(k) == Manifest[doc.finalized[k].content]
        designed    == {k \in doc.active : HasManifest(doc.finalized[k].content)}
    IN
    /\ Manifests(doc.design) = designed
    /\ \A k \in designed : doc.design[k] = doc.finalized[k].content
    /\ \A j, k \in designed : manifest(j).generation = 0 /\ manifest(k).generation = 0 => j = k
    /\ \A k \in designed : manifest(k).generation > 0 =>
          \E p \in designed :
              /\ manifest(p).id = manifest(k).parent
              /\ manifest(p).root = manifest(k).root
              /\ manifest(p).generation + 1 = manifest(k).generation
              /\ [key |-> p, sum |-> doc.finalized[p]] \in Needs[doc.finalized[k].content]

\* An active episode was signed by this server for its version, and what it
\* cites exists on the branch, also after a restore.
EpisodesGrounded ==
    \A k \in doc.active : IsEpisode(doc.finalized[k].content) =>
        /\ SignedHere(doc.finalized[k])
        /\ Manifest[doc.finalized[k].content].cites \subseteq Available(doc)

\* Every active Pack has a finalized profile it can run under, if it demands one.
\* (The active profile may have been changed since.)
DemandsCanBeMet ==
    \A k \in doc.active :
        LET demands == Demands[doc.finalized[k].content] IN
        Absent \in demands \/ \E p \in Profile : doc.released[p] \in demands

\* A player's arc that is completed was earned in play: its history ends in a
\* step that cites one of its opportunities and something that involved its
\* actor and is still part of the branch's past.
ArcsEarned ==
    \A e \in Entity :
        doc.progress[e] # << >> /\ Last(doc.progress[e]).status = "completed" /\ Opportunity[e] # {} =>
            /\ Last(doc.progress[e]).evidence \cap Opportunity[e] # {}
            /\ Last(doc.progress[e]).evidence \cap Linked[e] \cap doc.evidence # {}

\* On a branch, finalized profiles and Packs never change, and the history of a
\* narrative line only grows: activating a Pack or an episode keeps the progress.
NothingForgotten ==
    [][branch' = branch =>
          /\ \A p \in Profile : doc.released[p] # Absent => doc'.released[p] = doc.released[p]
          /\ \A k \in Pack : doc.finalized[k] # Absent => doc'.finalized[k] = doc.finalized[k]
          /\ \A e \in Entity : IsPrefix(doc.progress[e], doc'.progress[e])]_vars

\* However seeds, grants and revocations interleave, somebody can administer
\* the campaign.
AdministratorRemains == Administered

\* The campaign keeps an owner (architecture.md, Product boundary: last-owner
\* protection).
OwnerRemains == \E p \in Principal : role[p] = "owner"
==============================================================================
