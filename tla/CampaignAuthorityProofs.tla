------------------------ MODULE CampaignAuthorityProofs ------------------------
(***************************************************************************)
(* Proofs about CampaignAuthority, for every set of principals, actors,    *)
(* elements, records, scenes and profiles: documents keep their shape,     *)
(* nothing is left behind by a member who leaves, and authority over       *)
(* records and scenes moves only by right.                                 *)
(***************************************************************************)
EXTENDS CampaignAuthority, TLAPS

\* Documents whose fields are those of d, but for some.
GoodDocument(d) == d \in Document /\ WellFormed(d)

LEMMA DocumentFields ==
    ASSUME NEW d \in Document
    PROVE  /\ d = [phase |-> d.phase, facilitators |-> d.facilitators, grants |-> d.grants,
                   records |-> d.records, scenes |-> d.scenes, active |-> d.active]
           /\ d.phase \in {"lobby", "play"} /\ d.facilitators \in ProfileRoles
           /\ d.grants \subseteq Grant /\ d.records \in [Record -> Controller \cup {NoRecord}]
           /\ d.scenes \in [Scene -> SceneType] /\ d.active \in Scene \cup {NoScene}
BY DEF Document

-----------------------------------------------------------------------------
(* What requests do to documents *)

LEMMA ApplyKeeps ==
    ASSUME NEW x \in Change \cup {NoChange}, NEW d, GoodDocument(d)
    PROVE  /\ GoodDocument(Applied(x, d))
           /\ Applied(x, d).facilitators = d.facilitators /\ Applied(x, d).grants = d.grants
           /\ Applied(x, d).active = d.active /\ Applied(x, d).scenes = d.scenes
           /\ Applied(x, d).phase = d.phase
           /\ \A r \in Record :
                 Applied(x, d).records[r] # d.records[r] => x # NoChange /\ x.record = r
<1>1. CASE x = NoChange
    BY <1>1 DEF Applied, GoodDocument
<1>2. CASE x # NoChange
    <2>1. x.record \in Record /\ x.controller \in Controller
        BY <1>2, OfferAssumption DEF Change
    <2>2. Applied(x, d) = [d EXCEPT !.records = [@ EXCEPT ![x.record] = x.controller]]
        BY <1>2 DEF Applied
    <2>3. d \in Document
        BY DEF GoodDocument
    <2>4. Applied(x, d) \in Document
        BY <2>1, <2>2, <2>3 DEF Document
    <2>5. /\ Applied(x, d).facilitators = d.facilitators /\ Applied(x, d).grants = d.grants
          /\ Applied(x, d).active = d.active /\ Applied(x, d).scenes = d.scenes
          /\ Applied(x, d).phase = d.phase
          /\ Applied(x, d).records = [d.records EXCEPT ![x.record] = x.controller]
        BY <2>2, <2>3 DEF Document
    <2>6. WellFormed(Applied(x, d))
        BY <2>5 DEF WellFormed, GoodDocument
    <2>7. \A r \in Record : Applied(x, d).records[r] # d.records[r] => x.record = r
        BY <2>1, <2>3, <2>5 DEF Document
    <2>8. QED
        BY <1>2, <2>4, <2>5, <2>6, <2>7 DEF GoodDocument
<1>3. QED
    BY <1>1, <1>2

\* The shape of the document that each request writes.
LEMMA InitGood == Init => GoodDocument(doc)
<1>1. SUFFICES ASSUME Init PROVE GoodDocument(doc)
    OBVIOUS
<1>2. PICK f \in ProfileRoles :
          doc = [phase |-> "lobby", facilitators |-> f, grants |-> {},
                 records |-> [r \in Record |-> NoRecord],
                 scenes |-> [s \in Scene |-> Absent], active |-> NoScene]
    BY <1>1 DEF Init
<1>3. Absent \in SceneType
    BY DEF Absent, SceneType
<1>4. doc \in Document
    BY <1>2, <1>3 DEF Document
<1>5. WellFormed(doc)
    BY <1>2, PartsAssumption DEF WellFormed, Absent
<1>6. QED
    BY <1>4, <1>5 DEF GoodDocument

LEMMA PhaseGood ==
    ASSUME GoodDocument(doc), NEW p, NEW phase \in {"lobby", "play"}, ChangePhase(p, phase)
    PROVE  /\ GoodDocument(doc')
           /\ doc'.facilitators = doc.facilitators /\ doc'.grants = doc.grants
           /\ doc'.records = doc.records /\ doc'.scenes = doc.scenes
           /\ doc'.active = doc.active
<1>1. doc' = [doc EXCEPT !.phase = phase] /\ doc \in Document
    BY DEF ChangePhase, Mutate, Write, GoodDocument
<1>2. /\ doc'.phase = phase
      /\ doc'.facilitators = doc.facilitators /\ doc'.grants = doc.grants
      /\ doc'.records = doc.records /\ doc'.scenes = doc.scenes /\ doc'.active = doc.active
    BY <1>1 DEF Document
<1>3. doc' \in Document
    BY <1>1 DEF Document
<1>4. WellFormed(doc')
    BY <1>2 DEF WellFormed, GoodDocument, ChangePhase
<1>5. QED
    BY <1>2, <1>3, <1>4 DEF GoodDocument

LEMMA ProfileGood ==
    ASSUME GoodDocument(doc), NEW p, NEW f \in ProfileRoles, ActivateProfile(p, f)
    PROVE  /\ GoodDocument(doc')
           /\ doc'.facilitators = f /\ doc'.grants = doc.grants
           /\ doc'.records = doc.records /\ doc'.scenes = doc.scenes
           /\ doc'.active = doc.active /\ doc.active = NoScene
<1>1. doc' = [doc EXCEPT !.facilitators = f] /\ doc \in Document
    BY DEF ActivateProfile, Mutate, Write, GoodDocument
<1>2. /\ doc'.phase = doc.phase
      /\ doc'.facilitators = f /\ doc'.grants = doc.grants
      /\ doc'.records = doc.records /\ doc'.scenes = doc.scenes /\ doc'.active = doc.active
    BY <1>1 DEF Document
<1>3. doc' \in Document
    BY <1>1 DEF Document
<1>4. WellFormed(doc')
    BY <1>2 DEF WellFormed, GoodDocument
<1>5. doc.active = NoScene
    BY DEF ActivateProfile, GoodDocument, WellFormed
<1>6. QED
    BY <1>2, <1>3, <1>4, <1>5 DEF GoodDocument

\* A document whose grants are some of those it had, or one that replaces those of
\* the same principal and element.
LEMMA GrantsGood ==
    ASSUME GoodDocument(doc), NEW G \in SUBSET Grant,
           \A g, h \in G : g.principal = h.principal /\ g.element = h.element => g = h,
           doc' = [doc EXCEPT !.grants = G]
    PROVE  /\ GoodDocument(doc')
           /\ doc'.facilitators = doc.facilitators /\ doc'.grants = G
           /\ doc'.records = doc.records /\ doc'.scenes = doc.scenes
           /\ doc'.active = doc.active
<1>1. doc \in Document
    BY DEF GoodDocument
<1>2. /\ doc'.phase = doc.phase
      /\ doc'.facilitators = doc.facilitators /\ doc'.grants = G
      /\ doc'.records = doc.records /\ doc'.scenes = doc.scenes /\ doc'.active = doc.active
    BY <1>1 DEF Document
<1>3. doc' \in Document
    BY <1>1 DEF Document
<1>4. WellFormed(doc')
    BY <1>2 DEF WellFormed, GoodDocument
<1>5. QED
    BY <1>2, <1>3, <1>4 DEF GoodDocument

LEMMA FewerGrantsGood ==
    ASSUME GoodDocument(doc), NEW G \in SUBSET doc.grants, doc' = [doc EXCEPT !.grants = G]
    PROVE  GoodDocument(doc') /\ doc'.grants = G
<1>1. G \in SUBSET Grant
    BY DEF GoodDocument, Document
<1>2. \A g, h \in G : g.principal = h.principal /\ g.element = h.element => g = h
    BY DEF GoodDocument, WellFormed
<1>3. QED
    BY <1>1, <1>2, GrantsGood

LEMMA StartGood ==
    ASSUME GoodDocument(doc), NEW p, NEW s \in Scene, NEW participants \in SUBSET Actor,
           NEW stewards \in StewardLists, StartScene(p, s, participants, stewards)
    PROVE  /\ GoodDocument(doc')
           /\ doc'.facilitators = doc.facilitators /\ doc'.grants = doc.grants
           /\ doc'.records = doc.records
           /\ doc.active = NoScene
<1> DEFINE v == [status |-> "active", participants |-> participants, stewards |-> stewards]
<1>1. /\ doc' = [doc EXCEPT !.scenes = [@ EXCEPT ![s] = v], !.active = s]
      /\ doc \in Document /\ doc.active = NoScene /\ doc.phase = "play"
    BY DEF StartScene, Mutate, Write, GoodDocument
<1>2. v \in SceneType
    BY OfferAssumption DEF SceneType
<1>3. /\ doc'.phase = doc.phase
      /\ doc'.facilitators = doc.facilitators /\ doc'.grants = doc.grants
      /\ doc'.records = doc.records /\ doc'.scenes = [doc.scenes EXCEPT ![s] = v]
      /\ doc'.active = s
    BY <1>1 DEF Document
<1>4. doc' \in Document
    BY <1>1, <1>2 DEF Document
<1>5. \A r \in Scene : doc'.scenes[r].status = "active" <=> doc'.active = r
    <2>1. doc.scenes \in [Scene -> SceneType]
        BY <1>1 DEF Document
    <2>2. \A r \in Scene : doc.scenes[r].status # "active"
        BY <1>1, PartsAssumption DEF GoodDocument, WellFormed
    <2>3. QED
        BY <1>3, <2>1, <2>2
<1>6. WellFormed(doc')
    BY <1>1, <1>3, <1>5 DEF WellFormed, GoodDocument
<1>7. QED
    BY <1>1, <1>3, <1>4, <1>6 DEF GoodDocument

LEMMA UpdateGood ==
    ASSUME GoodDocument(doc), NEW p, NEW s \in Scene, NEW participants \in SUBSET Actor,
           UpdateScene(p, s, participants)
    PROVE  /\ GoodDocument(doc')
           /\ doc'.facilitators = doc.facilitators /\ doc'.grants = doc.grants
           /\ doc'.records = doc.records /\ doc'.active = doc.active /\ doc.active = s
           /\ doc'.scenes[s].participants = participants
           /\ doc'.scenes[s].stewards = doc.scenes[s].stewards
<1> DEFINE v == [doc.scenes[s] EXCEPT !.participants = participants]
<1>1. /\ doc' = [doc EXCEPT !.scenes = [@ EXCEPT ![s] = v]]
      /\ doc \in Document /\ doc.active = s
    BY DEF UpdateScene, Directs, Mutate, Write, GoodDocument
<1>2. /\ doc.scenes[s] \in SceneType /\ doc.scenes \in [Scene -> SceneType]
      /\ v \in SceneType /\ v.status = doc.scenes[s].status
      /\ v.participants = participants /\ v.stewards = doc.scenes[s].stewards
    BY <1>1 DEF Document, SceneType
<1>3. /\ doc'.phase = doc.phase
      /\ doc'.facilitators = doc.facilitators /\ doc'.grants = doc.grants
      /\ doc'.records = doc.records /\ doc'.scenes = [doc.scenes EXCEPT ![s] = v]
      /\ doc'.active = doc.active
    BY <1>1, <1>2 DEF Document
<1>4. doc' \in Document
    BY <1>1, <1>2 DEF Document
<1>5. \A r \in Scene : doc'.scenes[r].status = doc.scenes[r].status
    BY <1>2, <1>3
<1>6. WellFormed(doc')
    BY <1>3, <1>5 DEF WellFormed, GoodDocument
<1>7. doc'.scenes[s] = v
    BY <1>2, <1>3
<1>8. QED
    BY <1>1, <1>2, <1>3, <1>4, <1>6, <1>7 DEF GoodDocument

LEMMA EndGood ==
    ASSUME GoodDocument(doc), NEW p, NEW s \in Scene, EndScene(p, s)
    PROVE  /\ GoodDocument(doc')
           /\ doc'.facilitators = doc.facilitators /\ doc'.grants = doc.grants
           /\ doc'.records = doc.records /\ doc'.active = NoScene
<1> DEFINE v == [doc.scenes[s] EXCEPT !.status = "ended"]
<1>1. /\ doc' = [doc EXCEPT !.scenes = [@ EXCEPT ![s] = v], !.active = NoScene]
      /\ doc \in Document /\ doc.active = s
    BY DEF EndScene, Directs, Mutate, Write, GoodDocument
<1>2. /\ doc.scenes[s] \in SceneType /\ doc.scenes \in [Scene -> SceneType]
      /\ v \in SceneType /\ v.status = "ended"
    BY <1>1 DEF Document, SceneType
<1>3. /\ doc'.phase = doc.phase
      /\ doc'.facilitators = doc.facilitators /\ doc'.grants = doc.grants
      /\ doc'.records = doc.records /\ doc'.scenes = [doc.scenes EXCEPT ![s] = v]
      /\ doc'.active = NoScene
    BY <1>1, <1>2 DEF Document
<1>4. doc' \in Document
    BY <1>1, <1>2 DEF Document
<1>5. \A r \in Scene : doc'.scenes[r].status # "active"
    BY <1>1, <1>2, <1>3 DEF GoodDocument, WellFormed
<1>6. WellFormed(doc')
    BY <1>3, <1>5, PartsAssumption DEF WellFormed, GoodDocument
<1>7. QED
    BY <1>3, <1>4, <1>6 DEF GoodDocument

-----------------------------------------------------------------------------
(* The invariant *)

IInv == TypeOK /\ NothingLeftBehind

\* What a step of Next needs of the rows when the document stays good and its
\* grants are those of members or were there before.
LEMMA StepKeeps ==
    ASSUME IInv, GoodDocument(doc'),
           NEW p \in Principal, by' = p, revision < MaxRevision, revision' = revision + 1,
           branch' \in 0..MaxBranch, saved' = saved \/ (saved' = doc /\ doc' = doc),
           role' \in [Principal -> Standing], control' \subseteq Principal \X Actor,
           \A x \in control' : role'[x[1]] # "none",
           \A g \in doc'.grants :
              \/ role'[g.principal] # "none"
              \/ g \in doc.grants /\ role'[g.principal] = role[g.principal]
              \/ saved' # NoSnapshot /\ g \in saved'.grants
    PROVE  IInv'
<1>1. TypeOK'
    BY PartsAssumption DEF IInv, TypeOK, GoodDocument
<1>2. ASSUME NEW g \in doc'.grants, role'[g.principal] = "none"
      PROVE  saved' # NoSnapshot /\ g \in saved'.grants
    <2>1. CASE g \in doc.grants /\ role'[g.principal] = role[g.principal]
        <3>1. saved # NoSnapshot /\ g \in saved.grants
            BY <1>2, <2>1 DEF IInv, NothingLeftBehind, Member
        <3>2. CASE saved' = saved
            BY <3>1, <3>2
        <3>3. CASE saved' = doc /\ doc' = doc
            <4>1. doc \in Document /\ saved \in Document
                BY <3>1 DEF IInv, TypeOK
            <4>2. saved' # NoSnapshot
                BY <3>3, <4>1, SnapshotAssumption
            <4>3. QED
                BY <1>2, <3>3, <4>2
        <3>4. QED
            BY <3>2, <3>3
    <2>2. QED
        BY <1>2, <2>1
<1>3. NothingLeftBehind'
    BY <1>2 DEF NothingLeftBehind, Member
<1>4. QED
    BY <1>1, <1>3 DEF IInv

LEMMA InitKeeps == Init => IInv
<1>1. SUFFICES ASSUME Init PROVE IInv
    OBVIOUS
<1>2. /\ role = [p \in Principal |-> IF p = Founder THEN "owner" ELSE "none"]
      /\ control = {} /\ doc.grants = {}
      /\ saved = NoSnapshot /\ by = Founder /\ revision = 0 /\ branch = 0
    BY <1>1 DEF Init
<1>3. GoodDocument(doc)
    BY <1>1, InitGood
<1>4. TypeOK
    BY <1>2, <1>3, PartsAssumption DEF TypeOK, GoodDocument, Standing, Role
<1>5. NothingLeftBehind
    BY <1>2 DEF NothingLeftBehind
<1>6. QED
    BY <1>4, <1>5 DEF IInv

\* Requests that change only the document, and no grants in it.
LEMMA MutateKeeps ==
    ASSUME IInv, NEW p \in Principal, NEW d, Mutate(p, d), revision < MaxRevision,
           GoodDocument(doc'), doc'.grants = doc.grants
    PROVE  IInv'
<1>1. /\ by' = p /\ revision' = revision + 1
      /\ role' = role /\ control' = control /\ saved' = saved /\ branch' = branch
    BY DEF Mutate, Write
<1>2. \A x \in control' : role'[x[1]] # "none"
    BY <1>1 DEF IInv, NothingLeftBehind, Member
<1>3. /\ branch' \in 0..MaxBranch /\ role' \in [Principal -> Standing]
      /\ control' \subseteq Principal \X Actor
    BY <1>1 DEF IInv, TypeOK
<1>4. QED
    BY <1>1, <1>2, <1>3, StepKeeps

LEMMA AccessKeeps ==
    ASSUME IInv, NEW p \in Principal, AccessNext(p), revision < MaxRevision
    PROVE  IInv'
<1>1. /\ role \in [Principal -> Standing] /\ control \subseteq Principal \X Actor
      /\ branch \in 0..MaxBranch /\ GoodDocument(doc) /\ doc.grants \subseteq Grant
      /\ \A x \in control : role[x[1]] # "none"
    BY DEF IInv, TypeOK, GoodDocument, NothingLeftBehind, Member, Document
<1>2. PICK q \in Principal :
          \/ \E r \in Role : GrantMembership(p, q, r)
          \/ RevokeMembership(p, q)
          \/ \E a \in Actor, can \in BOOLEAN : ChangeActorAccess(p, q, a, can)
          \/ \E e \in Element, s \in Scene \cup {NoScene} : GrantElement(p, q, e, s)
          \/ \E e \in Element : RevokeElement(p, q, e)
    BY DEF AccessNext
<1>3. CASE \E r \in Role : GrantMembership(p, q, r)
    <2>1. PICK r \in Role : GrantMembership(p, q, r)
        BY <1>3
    <2>2. /\ by' = p /\ revision' = revision + 1 /\ doc' = doc
          /\ role' = [role EXCEPT ![q] = r]
          /\ control' = control /\ saved' = saved /\ branch' = branch
        BY <2>1 DEF GrantMembership, Write
    <2>3. /\ role' \in [Principal -> Standing] /\ role'[q] # "none"
          /\ \A x \in Principal : x # q => role'[x] = role[x]
        BY <1>1, <2>2 DEF Standing, Role
    <2>4. \A x \in control' : role'[x[1]] # "none"
        BY <1>1, <2>2, <2>3
    <2>5. \A g \in doc'.grants :
              role'[g.principal] # "none" \/ (g \in doc.grants /\ role'[g.principal] = role[g.principal])
        <3>1. \A g \in doc.grants : g.principal \in Principal
            BY <1>1 DEF Grant
        <3>2. QED
            BY <2>2, <2>3, <3>1
    <2>6. QED
        BY <1>1, <2>2, <2>3, <2>4, <2>5, StepKeeps
<1>4. CASE RevokeMembership(p, q)
    <2>1. /\ by' = p /\ revision' = revision + 1
          /\ doc' = [doc EXCEPT !.grants = {g \in doc.grants : g.principal # q}]
          /\ role' = [role EXCEPT ![q] = "none"]
          /\ control' = Others(q, control) /\ saved' = saved /\ branch' = branch
        BY <1>4 DEF RevokeMembership, Write
    <2>2. GoodDocument(doc') /\ doc'.grants = {g \in doc.grants : g.principal # q}
        BY <1>1, <2>1, FewerGrantsGood
    <2>3. /\ role' \in [Principal -> Standing]
          /\ \A x \in Principal : x # q => role'[x] = role[x]
        BY <1>1, <2>1 DEF Standing
    <2>4. control' \subseteq control /\ \A x \in control' : x[1] # q
        BY <2>1 DEF Others
    <2>5. \A x \in control' : role'[x[1]] # "none"
        BY <1>1, <2>3, <2>4
    <2>6. \A g \in doc'.grants : g \in doc.grants /\ role'[g.principal] = role[g.principal]
        BY <1>1, <2>2, <2>3 DEF Grant
    <2>7. QED
        BY <1>1, <2>1, <2>2, <2>3, <2>4, <2>5, <2>6, StepKeeps
<1>5. CASE \E a \in Actor, can \in BOOLEAN : ChangeActorAccess(p, q, a, can)
    <2>1. PICK a \in Actor, can \in BOOLEAN : ChangeActorAccess(p, q, a, can)
        BY <1>5
    <2>2. /\ by' = p /\ revision' = revision + 1 /\ doc' = doc /\ role' = role
          /\ control' = IF can THEN control \cup {<<q, a>>} ELSE control \ {<<q, a>>}
          /\ saved' = saved /\ branch' = branch /\ role[q] # "none"
        BY <2>1 DEF ChangeActorAccess, Write, Member
    <2>3. control' \subseteq Principal \X Actor /\ \A x \in control' : role'[x[1]] # "none"
        BY <1>1, <2>2
    <2>4. QED
        BY <1>1, <2>2, <2>3, StepKeeps
<1>6. CASE \E e \in Element, s \in Scene \cup {NoScene} : GrantElement(p, q, e, s)
    <2>1. PICK e \in Element, s \in Scene \cup {NoScene} : GrantElement(p, q, e, s)
        BY <1>6
    <2> DEFINE new == [principal |-> q, element |-> e, scene |-> s]
               G == WithoutGrant(q, e) \cup {new}
    <2>2. /\ by' = p /\ revision' = revision + 1 /\ role' = role /\ control' = control
          /\ saved' = saved /\ branch' = branch /\ role[q] # "none"
          /\ doc' = [doc EXCEPT !.grants = G]
        BY <2>1 DEF GrantElement, Mutate, Write, Member
    <2>3. G \subseteq Grant /\ new.principal = q /\ new.element = e
        BY <1>1 DEF WithoutGrant, Grant
    <2>4. \A g, h \in G : g.principal = h.principal /\ g.element = h.element => g = h
        BY <1>1, <2>3 DEF WithoutGrant, GoodDocument, WellFormed
    <2>5. GoodDocument(doc') /\ doc'.grants = G
        BY <1>1, <2>2, <2>3, <2>4, GrantsGood
    <2>6. \A g \in doc'.grants :
              role'[g.principal] # "none" \/ (g \in doc.grants /\ role'[g.principal] = role[g.principal])
        BY <2>2, <2>3, <2>5 DEF WithoutGrant
    <2>7. \A x \in control' : role'[x[1]] # "none"
        BY <1>1, <2>2
    <2> HIDE DEF G, new
    <2>8. QED
        BY <1>1, <2>2, <2>5, <2>6, <2>7, StepKeeps
<1>7. CASE \E e \in Element : RevokeElement(p, q, e)
    <2>1. PICK e \in Element : RevokeElement(p, q, e)
        BY <1>7
    <2>2. /\ by' = p /\ revision' = revision + 1 /\ role' = role /\ control' = control
          /\ saved' = saved /\ branch' = branch
          /\ doc' = [doc EXCEPT !.grants = WithoutGrant(q, e)]
        BY <2>1 DEF RevokeElement, Mutate, Write
    <2>3. WithoutGrant(q, e) \subseteq doc.grants
        BY DEF WithoutGrant
    <2>4. GoodDocument(doc') /\ doc'.grants \subseteq doc.grants
        BY <1>1, <2>2, <2>3, FewerGrantsGood
    <2>5. QED
        BY <1>1, <2>2, <2>4, StepKeeps
<1>8. QED
    BY <1>2, <1>3, <1>4, <1>5, <1>6, <1>7

LEMMA RecordKeeps ==
    ASSUME IInv, NEW p \in Principal, RecordNext(p), revision < MaxRevision
    PROVE  IInv'
<1>1. GoodDocument(doc)
    BY DEF IInv, TypeOK, GoodDocument
<1>2. PICK x \in Change \cup {NoChange}, y \in Change \cup {NoChange} :
          Mutate(p, Applied(y, Applied(x, doc)))
    <2>1. CASE \E x \in Change : ChangeRecord(p, x)
        <3>1. \E x \in Change : Mutate(p, Applied(x, doc))
            BY <2>1 DEF ChangeRecord
        <3>2. \A d : Applied(NoChange, d) = d
            BY DEF Applied
        <3>3. QED
            BY <3>1, <3>2
    <2>2. CASE \E x, y \in Change \cup {NoChange} : Settle(p, x, y, {}, {}, {})
        BY <2>2 DEF Settle
    <2>3. CASE \E participants, learners \in SUBSET Actor, subjects \in SUBSET (Element \cup Actor) :
                  Settle(p, NoChange, NoChange, participants, subjects, learners)
        BY <2>3 DEF Settle
    <2>4. QED
        BY <2>1, <2>2, <2>3 DEF RecordNext
<1>3. GoodDocument(Applied(x, doc)) /\ Applied(x, doc).grants = doc.grants
    BY <1>1, ApplyKeeps
<1>4. /\ GoodDocument(Applied(y, Applied(x, doc)))
      /\ Applied(y, Applied(x, doc)).grants = doc.grants
    BY <1>3, ApplyKeeps
<1>5. doc' = Applied(y, Applied(x, doc))
    BY <1>2 DEF Mutate, Write
<1>6. QED
    BY <1>2, <1>4, <1>5, MutateKeeps

LEMMA SceneKeeps ==
    ASSUME IInv, NEW p \in Principal, SceneNext(p), revision < MaxRevision
    PROVE  IInv'
<1>1. GoodDocument(doc)
    BY DEF IInv, TypeOK, GoodDocument
<1>2. /\ GoodDocument(doc') /\ doc'.grants = doc.grants
      /\ \E d : Mutate(p, d)
    <2>1. PICK s \in Scene :
              \/ \E participants \in SUBSET Actor, stewards \in StewardLists :
                    StartScene(p, s, participants, stewards)
              \/ \E participants \in SUBSET Actor : UpdateScene(p, s, participants)
              \/ EndScene(p, s)
        BY DEF SceneNext
    <2>2. CASE \E participants \in SUBSET Actor, stewards \in StewardLists :
                    StartScene(p, s, participants, stewards)
        BY <1>1, <2>2, StartGood DEF StartScene
    <2>3. CASE \E participants \in SUBSET Actor : UpdateScene(p, s, participants)
        BY <1>1, <2>3, UpdateGood DEF UpdateScene
    <2>4. CASE EndScene(p, s)
        BY <1>1, <2>4, EndGood DEF EndScene
    <2>5. QED
        BY <2>1, <2>2, <2>3, <2>4
<1>3. QED
    BY <1>2, MutateKeeps

LEMMA RecoveryKeeps ==
    ASSUME IInv, NEW p \in Principal, TakeSnapshot(p) \/ Restore(p), revision < MaxRevision
    PROVE  IInv'
<1>1. /\ role \in [Principal -> Standing] /\ control \subseteq Principal \X Actor
      /\ branch \in 0..MaxBranch /\ GoodDocument(doc)
      /\ \A x \in control : role[x[1]] # "none"
    BY DEF IInv, TypeOK, GoodDocument, NothingLeftBehind, Member
<1>2. CASE TakeSnapshot(p)
    <2>1. /\ by' = p /\ revision' = revision + 1 /\ doc' = doc /\ saved' = doc
          /\ role' = role /\ control' = control /\ branch' = branch
        BY <1>2 DEF TakeSnapshot, Write
    <2>2. QED
        BY <1>1, <2>1, StepKeeps
<1>3. CASE Restore(p)
    <2>1. /\ by' = p /\ revision' = revision + 1 /\ doc' = saved /\ saved' = saved
          /\ role' = role /\ control' = control
          /\ branch' = branch + 1 /\ branch < MaxBranch /\ saved # NoSnapshot
        BY <1>3 DEF Restore, Write
    <2>2. branch' \in 0..MaxBranch /\ GoodDocument(saved)
        BY <1>1, <2>1, PartsAssumption DEF IInv, TypeOK, GoodDocument
    <2>3. QED
        BY <1>1, <2>1, <2>2, StepKeeps
<1>4. QED
    BY <1>2, <1>3

LEMMA NextKeeps == ASSUME IInv, Next PROVE IInv'
<1>1. revision < MaxRevision /\ GoodDocument(doc)
    BY DEF Next, IInv, TypeOK, GoodDocument
<1>2. PICK p \in Principal :
          \/ \E phase \in {"lobby", "play"} : ChangePhase(p, phase)
          \/ \E f \in ProfileRoles : ActivateProfile(p, f)
          \/ AccessNext(p) \/ RecordNext(p) \/ SceneNext(p)
          \/ TakeSnapshot(p) \/ Restore(p)
    BY DEF Next
<1>3. CASE \E phase \in {"lobby", "play"} : ChangePhase(p, phase)
    BY <1>1, <1>3, PhaseGood, MutateKeeps DEF ChangePhase
<1>4. CASE \E f \in ProfileRoles : ActivateProfile(p, f)
    BY <1>1, <1>4, ProfileGood, MutateKeeps DEF ActivateProfile
<1>5. QED
    BY <1>1, <1>2, <1>3, <1>4, AccessKeeps, RecordKeeps, SceneKeeps, RecoveryKeeps

LEMMA InvariantHolds == Spec => []IInv
<1>1. ASSUME IInv, UNCHANGED vars PROVE IInv'
    BY <1>1 DEF vars, IInv, TypeOK, NothingLeftBehind, Member
<1>2. ASSUME IInv, [Next]_vars PROVE IInv'
    BY <1>1, <1>2, NextKeeps
<1>3. QED
    BY <1>2, InitKeeps, PTL DEF Spec

\* The type invariant, and the shape of documents.
THEOREM AuthorityTypeOK == Spec => []TypeOK
<1>1. IInv => TypeOK
    BY DEF IInv
<1>2. QED
    BY <1>1, InvariantHolds, PTL

\* access_change sweeps the grants of a member who leaves: none is left but what a
\* snapshot kept.
THEOREM LeaversKeepNothing == Spec => []NothingLeftBehind
<1>1. IInv => NothingLeftBehind
    BY DEF IInv
<1>2. QED
    BY <1>1, InvariantHolds, PTL

-----------------------------------------------------------------------------
(* Authority over records *)

LEMMA SameHolds ==
    ASSUME NEW q, NEW r, role' = role, control' = control,
           doc'.facilitators = doc.facilitators, doc'.grants = doc.grants,
           doc'.active = doc.active, doc'.records[r] = doc.records[r]
    PROVE  Holds(q, r)' <=> Holds(q, r)
BY DEF Holds, MayChange, Facilitates, Controls, Granted

\* When only the active scene changes, the grants scoped to it decide.
LEMMA HoldsByScene ==
    ASSUME NEW q, NEW r, role' = role, control' = control,
           doc'.facilitators = doc.facilitators, doc'.grants = doc.grants,
           doc'.records[r] = doc.records[r],
           Holds(q, r) <=> ~Holds(q, r)'
    PROVE  \E g \in doc.grants : g.principal = q /\ g.scene # NoScene /\
               (g.scene = doc.active <=> g.scene # doc'.active)
<1>1. SUFFICES ASSUME \A g \in doc.grants : g.principal = q /\ g.scene # NoScene =>
                          (g.scene = doc.active <=> g.scene = doc'.active)
               PROVE  FALSE
    OBVIOUS
<1>2. \A e : Granted(q, e, doc.active, doc) <=> Granted(q, e, doc.active, doc)'
    BY <1>1 DEF Granted
<1>3. Holds(q, r)' <=> Holds(q, r)
    BY <1>2 DEF Holds, MayChange, Facilitates, Controls
<1>4. QED
    BY <1>3

\* A change of records is made by one who holds those it changes.
LEMMA RecordByRight ==
    ASSUME IInv, NEW p \in Principal, RecordNext(p), NEW q, NEW r \in Record,
           doc.records[r] # NoRecord, Holds(q, r) <=> ~Holds(q, r)'
    PROVE  by' = p /\ Holds(p, r)
<1>1. GoodDocument(doc)
    BY DEF IInv, TypeOK, GoodDocument
<1>2. PICK x \in Change \cup {NoChange}, y \in Change \cup {NoChange} :
          /\ Mutate(p, Applied(y, Applied(x, doc)))
          /\ MayApply(p, x, doc) /\ MayApply(p, y, Applied(x, doc))
    <2>1. CASE \E x \in Change : ChangeRecord(p, x)
        <3>1. \E x \in Change : MayApply(p, x, doc) /\ Mutate(p, Applied(x, doc))
            BY <2>1 DEF ChangeRecord
        <3>2. \A d : Applied(NoChange, d) = d /\ MayApply(p, NoChange, d)
            BY DEF Applied, MayApply
        <3>3. QED
            BY <3>1, <3>2
    <2>2. CASE \E x, y \in Change \cup {NoChange} : Settle(p, x, y, {}, {}, {})
        BY <2>2 DEF Settle
    <2>3. CASE \E participants, learners \in SUBSET Actor, subjects \in SUBSET (Element \cup Actor) :
                  Settle(p, NoChange, NoChange, participants, subjects, learners)
        BY <2>3 DEF Settle
    <2>4. QED
        BY <2>1, <2>2, <2>3 DEF RecordNext
<1> DEFINE one == Applied(x, doc)
           two == Applied(y, one)
<1>3. /\ GoodDocument(one)
      /\ one.facilitators = doc.facilitators /\ one.grants = doc.grants
      /\ one.active = doc.active
      /\ one.records[r] # doc.records[r] => x # NoChange /\ x.record = r
    BY <1>1, ApplyKeeps
<1>4. /\ two.facilitators = doc.facilitators /\ two.grants = doc.grants
      /\ two.active = doc.active
      /\ two.records[r] # one.records[r] => y # NoChange /\ y.record = r
    BY <1>3, ApplyKeeps
<1>5. doc' = two /\ by' = p /\ role' = role /\ control' = control
    BY <1>2 DEF Mutate, Write
<1> HIDE DEF one, two
<1>6. doc'.records[r] # doc.records[r]
    BY <1>4, <1>5, SameHolds
<1>7. CASE one.records[r] # doc.records[r]
    <2>1. MayChange(p, doc.records[r], doc)
        BY <1>2, <1>3, <1>7 DEF MayApply
    <2>2. QED
        BY <1>5, <2>1 DEF Holds
<1>8. CASE one.records[r] = doc.records[r]
    <2>1. y # NoChange /\ y.record = r
        BY <1>4, <1>5, <1>6, <1>8
    <2>2. MayChange(p, one.records[r], one)
        BY <1>2, <1>8, <2>1 DEF MayApply, one
    <2>3. MayChange(p, doc.records[r], doc)
        BY <1>3, <1>8, <2>2 DEF MayChange, Facilitates, Controls, Granted
    <2>4. QED
        BY <1>5, <2>3 DEF Holds
<1>9. QED
    BY <1>7, <1>8

\* What a step of AuthorityMovesByRight may be.
Moved(q, r) ==
    \/ \E p \in Principal : p = by' /\ Holds(p, r)
    \/ role[by'] = "owner" /\ AccessChanged
    \/ role[by'] \in AdminRoles /\ <<doc.facilitators, branch>>' # <<doc.facilitators, branch>>
    \/ \E g \in doc.grants : g.principal = q /\ g.scene # NoScene /\
          (g.scene = doc.active <=> g.scene # doc'.active)

LEMMA AccessByOwner ==
    ASSUME IInv, NEW p \in Principal, AccessNext(p)
    PROVE  /\ by' = p /\ role[p] = "owner"
           /\ doc'.facilitators = doc.facilitators /\ doc'.records = doc.records
           /\ doc'.scenes = doc.scenes /\ doc'.active = doc.active
<1>1. doc \in Document
    BY DEF IInv, TypeOK
<1>2. by' = p /\ role[p] = "owner" /\ (doc' = doc \/ \E G : doc' = [doc EXCEPT !.grants = G])
    BY DEF AccessNext, GrantMembership, RevokeMembership, ChangeActorAccess,
           GrantElement, RevokeElement, Mutate, Write
<1>3. QED
    BY <1>1, <1>2 DEF Document

LEMMA NextByRight ==
    ASSUME IInv, Next, NEW q \in Principal, NEW r \in Record,
           doc.records[r] # NoRecord, doc'.records[r] # NoRecord,
           Holds(q, r) <=> ~Holds(q, r)'
    PROVE  Moved(q, r)
<1>1. GoodDocument(doc)
    BY DEF IInv, TypeOK, GoodDocument
<1>2. PICK p \in Principal :
          \/ \E phase \in {"lobby", "play"} : ChangePhase(p, phase)
          \/ \E f \in ProfileRoles : ActivateProfile(p, f)
          \/ AccessNext(p) \/ RecordNext(p) \/ SceneNext(p)
          \/ TakeSnapshot(p) \/ Restore(p)
    BY DEF Next
<1>3. CASE \E phase \in {"lobby", "play"} : ChangePhase(p, phase)
    <2>1. role' = role /\ control' = control
        BY <1>3 DEF ChangePhase, Mutate
    <2>2. QED
        BY <1>1, <1>3, <2>1, PhaseGood, SameHolds
<1>4. CASE \E f \in ProfileRoles : ActivateProfile(p, f)
    <2>1. role' = role /\ control' = control /\ by' = p /\ role[p] \in AdminRoles
        BY <1>4 DEF ActivateProfile, Mutate, Write
    <2>2. CASE doc'.facilitators = doc.facilitators
        BY <1>1, <1>4, <2>1, <2>2, ProfileGood, SameHolds
    <2>3. QED
        BY <2>1, <2>2 DEF Moved
<1>5. CASE AccessNext(p)
    <2>1. /\ by' = p /\ role[p] = "owner"
          /\ doc'.facilitators = doc.facilitators /\ doc'.records = doc.records
          /\ doc'.active = doc.active
        BY <1>5, AccessByOwner
    <2>2. AccessChanged
        BY <2>1, SameHolds DEF AccessChanged
    <2>3. QED
        BY <2>1, <2>2 DEF Moved
<1>6. CASE RecordNext(p)
    BY <1>6, RecordByRight DEF Moved
<1>7. CASE SceneNext(p)
    <2>1. PICK s \in Scene :
              \/ \E participants \in SUBSET Actor, stewards \in StewardLists :
                    StartScene(p, s, participants, stewards)
              \/ \E participants \in SUBSET Actor : UpdateScene(p, s, participants)
              \/ EndScene(p, s)
        BY <1>7 DEF SceneNext
    <2>2. role' = role /\ control' = control
        BY <2>1 DEF StartScene, UpdateScene, EndScene, Mutate
    <2>3. /\ doc'.facilitators = doc.facilitators /\ doc'.grants = doc.grants
          /\ doc'.records = doc.records
        BY <1>1, <2>1, StartGood, UpdateGood, EndGood
    <2>4. QED
        BY <2>2, <2>3, HoldsByScene DEF Moved
<1>8. CASE TakeSnapshot(p)
    <2>1. role' = role /\ control' = control /\ doc' = doc
        BY <1>8 DEF TakeSnapshot, Write
    <2>2. QED
        BY <2>1, SameHolds
<1>9. CASE Restore(p)
    <2>1. by' = p /\ role[p] \in AdminRoles /\ branch' = branch + 1 /\ branch \in Nat
        BY <1>9 DEF Restore, Write, IInv, TypeOK
    <2>2. branch' # branch
        BY <2>1
    <2>3. QED
        BY <2>1, <2>2 DEF Moved
<1>10. QED
    BY <1>2, <1>3, <1>4, <1>5, <1>6, <1>7, <1>8, <1>9

\* Nobody promotes themselves: of a record that exists, control is gained and lost
\* only through somebody who has it, an owner's access change, an administrator's
\* restore or profile, or the scene of a scoped grant (_record_authorized).
THEOREM AuthorityByRight == Spec => AuthorityMovesByRight
<1> DEFINE Step == \A q \in Principal, r \in Record :
              /\ doc.records[r] # NoRecord /\ doc'.records[r] # NoRecord
              /\ Holds(q, r) <=> ~Holds(q, r)'
              =>
              \/ \E p \in Principal : p = by' /\ Holds(p, r)
              \/ role[by'] = "owner" /\ AccessChanged
              \/ role[by'] \in AdminRoles /\ <<doc.facilitators, branch>>' # <<doc.facilitators, branch>>
              \/ \E g \in doc.grants : g.principal = q /\ g.scene # NoScene /\
                    (g.scene = doc.active <=> g.scene # doc'.active)
<1>1. ASSUME IInv, [Next]_vars PROVE [Step]_vars
    <2>1. CASE Next
        BY <1>1, <2>1, NextByRight DEF Moved
    <2>2. QED
        BY <1>1, <2>1
<1>2. QED
    BY <1>1, InvariantHolds, PTL DEF Spec, AuthorityMovesByRight

-----------------------------------------------------------------------------
(* Direction of scenes *)

LEMMA SameDirects ==
    ASSUME NEW p, NEW s, role' = role, control' = control,
           doc'.facilitators = doc.facilitators, doc'.grants = doc.grants,
           doc'.active = doc.active,
           doc'.scenes[s].participants = doc.scenes[s].participants,
           doc'.scenes[s].stewards = doc.scenes[s].stewards
    PROVE  Directs(p, s)' <=> Directs(p, s)
BY DEF Directs, MayDirect, Facilitates, Controls, Granted

\* How the direction of s may be lost.
Lost(s) ==
    \/ role[by'] = "owner" /\ AccessChanged
    \/ branch' # branch
    \/ /\ doc'.scenes[s].participants # doc.scenes[s].participants
       /\ \E q \in Principal : q = by' /\ Directs(q, s)

LEMMA NextKeepsDirection ==
    ASSUME IInv, Next, NEW q \in Principal, NEW s \in Scene,
           Directs(q, s), doc'.active = s, ~Directs(q, s)'
    PROVE  Lost(s)
<1>1. GoodDocument(doc) /\ doc.active = s /\ s # NoScene
    BY PartsAssumption DEF IInv, TypeOK, GoodDocument, Directs
<1>2. PICK p \in Principal :
          \/ \E phase \in {"lobby", "play"} : ChangePhase(p, phase)
          \/ \E f \in ProfileRoles : ActivateProfile(p, f)
          \/ AccessNext(p) \/ RecordNext(p) \/ SceneNext(p)
          \/ TakeSnapshot(p) \/ Restore(p)
    BY DEF Next
<1>3. CASE \E phase \in {"lobby", "play"} : ChangePhase(p, phase)
    <2>1. role' = role /\ control' = control
        BY <1>3 DEF ChangePhase, Mutate
    <2>2. QED
        BY <1>1, <1>3, <2>1, PhaseGood, SameDirects
<1>4. CASE \E f \in ProfileRoles : ActivateProfile(p, f)
    BY <1>1, <1>4, ProfileGood
<1>5. CASE AccessNext(p)
    <2>1. /\ by' = p /\ role[p] = "owner"
          /\ doc'.facilitators = doc.facilitators /\ doc'.scenes = doc.scenes
          /\ doc'.active = doc.active
        BY <1>5, AccessByOwner
    <2>2. AccessChanged
        BY <2>1, SameDirects DEF AccessChanged
    <2>3. QED
        BY <2>1, <2>2 DEF Lost
<1>6. CASE RecordNext(p)
    <2>1. PICK x \in Change \cup {NoChange}, y \in Change \cup {NoChange} :
              Mutate(p, Applied(y, Applied(x, doc)))
        <3>1. CASE \E x \in Change : ChangeRecord(p, x)
            <4>1. \E x \in Change : Mutate(p, Applied(x, doc))
                BY <3>1 DEF ChangeRecord
            <4>2. \A d : Applied(NoChange, d) = d
                BY DEF Applied
            <4>3. QED
                BY <4>1, <4>2
        <3>2. CASE \E x, y \in Change \cup {NoChange} : Settle(p, x, y, {}, {}, {})
            BY <3>2 DEF Settle
        <3>3. CASE \E participants, learners \in SUBSET Actor,
                      subjects \in SUBSET (Element \cup Actor) :
                      Settle(p, NoChange, NoChange, participants, subjects, learners)
            BY <3>3 DEF Settle
        <3>4. QED
            BY <1>6, <3>1, <3>2, <3>3 DEF RecordNext
    <2> DEFINE one == Applied(x, doc)
               two == Applied(y, one)
    <2>2. /\ GoodDocument(one)
          /\ one.facilitators = doc.facilitators /\ one.grants = doc.grants
          /\ one.active = doc.active /\ one.scenes = doc.scenes
        BY <1>1, ApplyKeeps
    <2>3. /\ two.facilitators = doc.facilitators /\ two.grants = doc.grants
          /\ two.active = doc.active /\ two.scenes = doc.scenes
        BY <2>2, ApplyKeeps
    <2>4. doc' = two /\ role' = role /\ control' = control
        BY <2>1 DEF Mutate, Write
    <2> HIDE DEF one, two
    <2>5. QED
        BY <2>3, <2>4, SameDirects
<1>7. CASE SceneNext(p)
    <2>1. PICK t \in Scene :
              \/ \E participants \in SUBSET Actor, stewards \in StewardLists :
                    StartScene(p, t, participants, stewards)
              \/ \E participants \in SUBSET Actor : UpdateScene(p, t, participants)
              \/ EndScene(p, t)
        BY <1>7 DEF SceneNext
    <2>2. CASE \E participants \in SUBSET Actor, stewards \in StewardLists :
                    StartScene(p, t, participants, stewards)
        BY <1>1, <2>2, StartGood
    <2>3. CASE \E participants \in SUBSET Actor : UpdateScene(p, t, participants)
        <3>1. PICK participants \in SUBSET Actor : UpdateScene(p, t, participants)
            BY <2>3
        <3>2. /\ role' = role /\ control' = control /\ by' = p /\ Directs(p, t)
            BY <3>1 DEF UpdateScene, Mutate, Write
        <3>3. /\ t = s /\ doc'.active = doc.active
              /\ doc'.facilitators = doc.facilitators /\ doc'.grants = doc.grants
              /\ doc'.scenes[s].stewards = doc.scenes[s].stewards
            BY <1>1, <3>1, UpdateGood
        <3>4. doc'.scenes[s].participants # doc.scenes[s].participants
            BY <3>2, <3>3, SameDirects
        <3>5. QED
            BY <3>2, <3>3, <3>4 DEF Lost
    <2>4. CASE EndScene(p, t)
        BY <1>1, <2>4, EndGood
    <2>5. QED
        BY <2>1, <2>2, <2>3, <2>4
<1>8. CASE TakeSnapshot(p)
    <2>1. role' = role /\ control' = control /\ doc' = doc
        BY <1>8 DEF TakeSnapshot, Write
    <2>2. QED
        BY <2>1, SameDirects
<1>9. CASE Restore(p)
    <2>1. branch' = branch + 1 /\ branch \in Nat
        BY <1>9 DEF Restore, IInv, TypeOK
    <2>2. QED
        BY <2>1 DEF Lost
<1>10. QED
    BY <1>2, <1>3, <1>4, <1>5, <1>6, <1>7, <1>8, <1>9

\* Whoever directs the active scene goes on directing it until an owner changes
\* access, the campaign is restored, or one who directs it changes who takes part:
\* no phase, profile or record gets in between (scene_change, set_phase).
THEOREM DirectionKept == Spec => DirectionIsKept
<1> DEFINE Step == \A p \in Principal, s \in Scene :
              Directs(p, s) /\ doc'.active = s /\ ~Directs(p, s)' =>
              \/ role[by'] = "owner" /\ AccessChanged
              \/ branch' # branch
              \/ /\ doc'.scenes[s].participants # doc.scenes[s].participants
                 /\ \E q \in Principal : q = by' /\ Directs(q, s)
<1>1. ASSUME IInv, [Next]_vars PROVE [Step]_vars
    <2>1. CASE Next
        BY <1>1, <2>1, NextKeepsDirection DEF Lost
    <2>2. QED
        BY <1>1, <2>1
<1>2. QED
    BY <1>1, InvariantHolds, PTL DEF Spec, DirectionIsKept

================================================================================
