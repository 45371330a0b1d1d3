--------------------------- MODULE CampaignAuthority ---------------------------
(***************************************************************************)
(* Who may do what in one campaign: memberships, control of actors, element *)
(* grants and the facilitator roles of the active profile; the records and *)
(* scenes these decide about, and the settlements that change several      *)
(* records at once.                                                        *)
(*                                                                         *)
(* Memberships and actor grants are rows of their own; element grants,     *)
(* records and scenes are in the campaign's document, which a restore      *)
(* replaces as a whole.                                                    *)
(*                                                                         *)
(* Each action is one accepted request; CampaignWrite proves that requests *)
(* are atomic as long as no recovery lands late.  Conflicts, open NPC      *)
(* conversations, which refuse some of them, and the branches that forks   *)
(* and checkouts move between are in CampaignPlay.  Only grants of control *)
(* are modelled: a grant to look grants no request of this module.         *)
(***************************************************************************)
EXTENDS Naturals, FiniteSets

CONSTANTS
    Principal, Actor, Scene,
    Element,            \* what an element grant may name
    Record,             \* narrative records, which are elements too
    Founder,            \* the principal who created the campaign
    ProfileRoles,       \* the facilitator roles of each profile
    Controllers,        \* the controllers that changes give records
    StewardLists,       \* the lists of stewards with which scenes are started
    Nobody, NoActor, NoScene, NoRecord, NoChange, NoSnapshot,
    MaxRevision, MaxBranch      \* bounds of the model

Role       == {"owner", "dm", "player", "observer"}
Standing   == Role \cup {"none"}
AdminRoles == {"owner", "dm"}

\* Profiles that make others than administrators facilitators are left out.
ASSUME PartsAssumption ==
    /\ Founder \in Principal /\ Record \subseteq Element
    /\ ProfileRoles \subseteq SUBSET AdminRoles
    /\ Nobody \notin Principal /\ NoActor \notin Actor /\ NoScene \notin Scene
    /\ MaxRevision \in Nat /\ MaxBranch \in Nat

\* `control` has the actor grants that give control, `by` the author of the
\* latest revision, as the audit keeps it.
VARIABLES role, control, doc, saved, by, revision, branch

vars == <<role, control, doc, saved, by, revision, branch>>

\* A grant may be scoped to one scene.
Grant == [principal : Principal, element : Element, scene : Scene \cup {NoScene}]

\* Who controls a record: a principal, an actor, or the holders of an element.
Controller == [principal : Principal \cup {Nobody}, actor : Actor \cup {NoActor},
               element : Element]

Steward   == [principal : Principal, refs : SUBSET (Element \cup Actor)]
SceneType == [status : {"absent", "active", "ended"},
              participants : SUBSET Actor, stewards : SUBSET Steward]
Absent    == [status |-> "absent", participants |-> {}, stewards |-> {}]

Document == [phase : {"lobby", "play"}, facilitators : ProfileRoles,
             grants : SUBSET Grant, records : [Record -> Controller \cup {NoRecord}],
             scenes : [Scene -> SceneType], active : Scene \cup {NoScene}]

ASSUME OfferAssumption ==
    Controllers \subseteq Controller /\ StewardLists \subseteq SUBSET Steward
ASSUME SnapshotAssumption == NoSnapshot \notin Document

\* The campaign when its first profile is active; before, its administrators are
\* its facilitators, as under the profile that names both roles.
Init ==
    /\ role = [p \in Principal |-> IF p = Founder THEN "owner" ELSE "none"]
    /\ control = {}
    /\ \E f \in ProfileRoles :
          doc = [phase |-> "lobby", facilitators |-> f, grants |-> {},
                 records |-> [r \in Record |-> NoRecord],
                 scenes |-> [s \in Scene |-> Absent], active |-> NoScene]
    /\ saved = NoSnapshot /\ by = Founder /\ revision = 0 /\ branch = 0

-----------------------------------------------------------------------------
(* Authority *)

Member(p)         == role[p] # "none"
Facilitates(p, d) == role[p] \in d.facilitators
Controls(p, a, d) == Facilitates(p, d) \/ <<p, a>> \in control

\* p holds a grant of e that counts in scene s.
Granted(p, e, s, d) == \E g \in d.grants :
    g.principal = p /\ g.element = e /\ g.scene \in {NoScene, s}

\* p may change what the controller c controls.
MayChange(p, c, d) ==
    \/ Facilitates(p, d)
    \/ c.principal = p
    \/ c.actor # NoActor /\ Controls(p, c.actor, d)
    \/ Granted(p, c.element, d.active, d)

\* p may start, update and end scene s, described by v.
MayDirect(p, s, v, d) ==
    \/ Facilitates(p, d)
    \/ \E a \in v.participants : Controls(p, a, d)
    \/ \E st \in v.stewards :
          /\ st.principal = p /\ st.refs # {}
          /\ \A e \in st.refs :
                Granted(p, e, s, d) \/ (e \in Actor /\ Controls(p, e, d))

\* A request of p leaves the document d.
Write(p, d) == doc' = d /\ by' = p /\ revision' = revision + 1

\* A request that changes the document only.
Mutate(p, d) == Write(p, d) /\ UNCHANGED <<role, control, saved, branch>>

-----------------------------------------------------------------------------
(* Phases, profiles and access *)

\* Mutant: the phase changes in the middle of a scene.
ChangePhaseMidScene(p, phase) ==
    /\ role[p] \in AdminRoles
    /\ Mutate(p, [doc EXCEPT !.phase = phase])

ChangePhase(p, phase) ==
    /\ role[p] \in AdminRoles
    /\ phase = "lobby" => doc.active = NoScene
    /\ Mutate(p, [doc EXCEPT !.phase = phase])

ActivateProfile(p, f) ==
    /\ role[p] \in AdminRoles
    /\ doc.phase = "lobby"
    /\ Mutate(p, [doc EXCEPT !.facilitators = f])

LastOwner(q) == {x \in Principal : role[x] = "owner"} = {q}

GrantMembership(p, q, r) ==
    /\ role[p] = "owner"
    /\ LastOwner(q) => r = "owner"
    /\ Write(p, doc)
    /\ role' = [role EXCEPT ![q] = r]
    /\ UNCHANGED <<control, saved, branch>>

Others(q, rows) == {x \in rows : x[1] # q}

\* Mutant: the element grants of a member who leaves stay.
RevokeMembershipOnly(p, q) ==
    /\ role[p] = "owner" /\ Member(q) /\ ~LastOwner(q)
    /\ Write(p, doc)
    /\ role' = [role EXCEPT ![q] = "none"]
    /\ control' = Others(q, control)
    /\ UNCHANGED <<saved, branch>>

RevokeMembership(p, q) ==
    /\ role[p] = "owner" /\ Member(q) /\ ~LastOwner(q)
    /\ Write(p, [doc EXCEPT !.grants = {g \in @ : g.principal # q}])
    /\ role' = [role EXCEPT ![q] = "none"]
    /\ control' = Others(q, control)
    /\ UNCHANGED <<saved, branch>>

\* A grant without control and a revocation take control away alike.
ChangeActorAccess(p, q, a, can) ==
    /\ role[p] = "owner" /\ Member(q)
    /\ Write(p, doc)
    /\ control' = IF can THEN control \cup {<<q, a>>} ELSE control \ {<<q, a>>}
    /\ UNCHANGED <<role, saved, branch>>

WithoutGrant(q, e) == {g \in doc.grants : ~(g.principal = q /\ g.element = e)}

\* Mutant: a new grant does not replace the old.
GrantElementBesides(p, q, e, s) ==
    /\ role[p] = "owner" /\ Member(q)
    /\ Mutate(p, [doc EXCEPT !.grants =
          @ \cup {[principal |-> q, element |-> e, scene |-> s]}])

\* One grant per principal and element: a new one replaces the old.
GrantElement(p, q, e, s) ==
    /\ role[p] = "owner" /\ Member(q)
    /\ Mutate(p, [doc EXCEPT !.grants =
          WithoutGrant(q, e) \cup {[principal |-> q, element |-> e, scene |-> s]}])

RevokeElement(p, q, e) ==
    /\ role[p] = "owner" /\ Member(q)
    /\ Mutate(p, [doc EXCEPT !.grants = WithoutGrant(q, e)])

-----------------------------------------------------------------------------
(* Records and settlements *)

\* A change creates a record or replaces it.  Of a record the model keeps who
\* controls it.
Change == [record : Record, controller : Controllers]

Applied(x, d) ==
    IF x = NoChange THEN d ELSE [d EXCEPT !.records[x.record] = x.controller]

\* Mutant: the controller that a change gives the record may make the change.
MayApplyAsGiven(p, x, d) == x # NoChange => MayChange(p, x.controller, d)

\* Changing a record takes authority over it as it is, creating one authority
\* over it as it will be.
MayApply(p, x, d) == x # NoChange =>
    MayChange(p, IF d.records[x.record] = NoRecord THEN x.controller
                 ELSE d.records[x.record], d)

ChangeRecord(p, x) ==
    /\ x # NoChange
    /\ MayApply(p, x, doc)
    /\ Mutate(p, Applied(x, doc))

\* p may state a fact about e: a record, an actor or any other element.
MayState(p, e, d) ==
    \/ e \in Record /\ d.records[e] # NoRecord /\ MayChange(p, d.records[e], d)
    \/ e \in Actor /\ Controls(p, e, d)
    \/ MayChange(p, [principal |-> Nobody, actor |-> NoActor, element |-> e], d)

\* A settlement is an event with participants, facts about subjects, knowledge for
\* learners, and changes of records: x and then y, which meets what x left.
Settle(p, x, y, participants, subjects, learners) ==
    LET changed == Applied(y, Applied(x, doc)) IN
    /\ role[p] # "observer"
    /\ \A a \in participants \cup learners : Controls(p, a, doc)
    /\ MayApply(p, x, doc)
    /\ MayApply(p, y, Applied(x, doc))
    /\ \A e \in subjects : Facilitates(p, doc) \/ MayState(p, e, changed)
    /\ Facilitates(p, doc) \/ {x, y} # {NoChange} \/ subjects \cup learners # {}
    /\ Mutate(p, changed)

-----------------------------------------------------------------------------
(* Scenes and recovery *)

StartScene(p, s, participants, stewards) ==
    LET v == [status |-> "active", participants |-> participants, stewards |-> stewards] IN
    /\ role[p] # "observer"
    /\ doc.phase = "play"
    /\ doc.active = NoScene
    /\ doc.scenes[s] = Absent
    /\ MayDirect(p, s, v, doc)
    /\ Mutate(p, [doc EXCEPT !.scenes[s] = v, !.active = s])

Directs(p, s) == doc.active = s /\ MayDirect(p, s, doc.scenes[s], doc)

\* Stewards are for the whole scene, participants are not.
UpdateScene(p, s, participants) ==
    /\ role[p] # "observer"
    /\ doc.phase = "play"
    /\ Directs(p, s)
    /\ Mutate(p, [doc EXCEPT !.scenes[s] = [@ EXCEPT !.participants = participants]])

EndScene(p, s) ==
    /\ role[p] # "observer"
    /\ doc.phase = "play"
    /\ Directs(p, s)
    /\ Mutate(p, [doc EXCEPT !.scenes[s] = [@ EXCEPT !.status = "ended"], !.active = NoScene])

TakeSnapshot(p) ==
    /\ role[p] \in AdminRoles
    /\ Write(p, doc)
    /\ saved' = doc
    /\ UNCHANGED <<role, control, branch>>

\* A restore brings back the document, and with it grants that were taken away,
\* but neither memberships nor actor grants.
Restore(p) ==
    /\ role[p] \in AdminRoles
    /\ saved # NoSnapshot
    /\ branch < MaxBranch
    /\ Write(p, saved)
    /\ branch' = branch + 1
    /\ UNCHANGED <<role, control, saved>>

AccessNext(p) == \E q \in Principal :
    \/ \E r \in Role : GrantMembership(p, q, r)
    \/ RevokeMembership(p, q)
    \/ \E a \in Actor, can \in BOOLEAN : ChangeActorAccess(p, q, a, can)
    \/ \E e \in Element :
          \/ \E s \in Scene \cup {NoScene} : GrantElement(p, q, e, s)
          \/ RevokeElement(p, q, e)

\* The rest of a settlement can only add refusals to one that changes records.
RecordNext(p) ==
    \/ \E x \in Change : ChangeRecord(p, x)
    \/ \E x, y \in Change \cup {NoChange} : Settle(p, x, y, {}, {}, {})
    \/ \E participants, learners \in SUBSET Actor, subjects \in SUBSET (Element \cup Actor) :
          Settle(p, NoChange, NoChange, participants, subjects, learners)

SceneNext(p) == \E s \in Scene :
    \/ \E participants \in SUBSET Actor, stewards \in StewardLists :
          StartScene(p, s, participants, stewards)
    \/ \E participants \in SUBSET Actor : UpdateScene(p, s, participants)
    \/ EndScene(p, s)

Next == revision < MaxRevision /\ \E p \in {q \in Principal : Member(q)} :
    \/ \E phase \in {"lobby", "play"} : ChangePhase(p, phase)
    \/ \E f \in ProfileRoles : ActivateProfile(p, f)
    \/ AccessNext(p)
    \/ RecordNext(p)
    \/ SceneNext(p)
    \/ TakeSnapshot(p)
    \/ Restore(p)

Spec == Init /\ [][Next]_vars

-----------------------------------------------------------------------------
(* Properties *)

\* A principal has one grant of an element, one scene is active, and none in the
\* lobby.
WellFormed(d) ==
    /\ \A g, h \in d.grants : g.principal = h.principal /\ g.element = h.element => g = h
    /\ \A s \in Scene : d.scenes[s].status = "active" <=> d.active = s
    /\ d.phase = "lobby" => d.active = NoScene

\* The type of the state: rows, document, snapshot and audit, and the shape that
\* every document keeps, also through a restore.
TypeOK ==
    /\ role \in [Principal -> Standing]
    /\ control \subseteq Principal \X Actor
    /\ doc \in Document /\ saved \in Document \cup {NoSnapshot}
    /\ WellFormed(doc) /\ (saved # NoSnapshot => WellFormed(saved))
    /\ by \in Principal /\ revision \in 0..MaxRevision /\ branch \in 0..MaxBranch

\* Who is no member has nothing left: no actor grant, and no element grant but
\* those that a snapshot kept and a restore can bring back.
NothingLeftBehind ==
    /\ \A x \in control : Member(x[1])
    /\ \A g \in doc.grants :
          Member(g.principal) \/ (saved # NoSnapshot /\ g \in saved.grants)

Holds(q, r) == doc.records[r] # NoRecord /\ MayChange(q, doc.records[r], doc)

AccessChanged == <<role, control, doc.grants>>' # <<role, control, doc.grants>>

\* Authority over a record that exists is gained and lost only through somebody
\* who has it, through an owner who changes access, through an administrator who
\* restores or changes the profile, or with the scene a grant is scoped to.  So
\* nobody promotes themselves, and an owner only visibly (architecture.md: an
\* owner does not author without actor or element authority).
AuthorityMovesByRight ==
    [][\A q \in Principal, r \in Record :
          /\ doc.records[r] # NoRecord /\ doc'.records[r] # NoRecord
          /\ Holds(q, r) <=> ~Holds(q, r)'
          =>
          \/ \E p \in Principal : p = by' /\ Holds(p, r)
          \/ role[by'] = "owner" /\ AccessChanged
          \/ role[by'] \in AdminRoles /\ <<doc.facilitators, branch>>' # <<doc.facilitators, branch>>
          \/ \E g \in doc.grants : g.principal = q /\ g.scene # NoScene /\
                (g.scene = doc.active <=> g.scene # doc'.active)]_vars

\* Who directs the active scene goes on directing it, whatever happens to records,
\* phases and profiles, until an owner changes access, the campaign is restored
\* or somebody who directs the scene changes who takes part.
DirectionIsKept ==
    [][\A p \in Principal, s \in Scene :
          Directs(p, s) /\ doc'.active = s /\ ~Directs(p, s)' =>
          \/ role[by'] = "owner" /\ AccessChanged
          \/ branch' # branch
          \/ /\ doc'.scenes[s].participants # doc.scenes[s].participants
             /\ \E q \in Principal : q = by' /\ Directs(q, s)]_vars
=============================================================================
