------------------------- MODULE CampaignPacksProofs -------------------------
(***************************************************************************)
(* What CampaignPacks promises for every set of profiles, Packs, documents *)
(* and principals, and every number of restores.                           *)
(*                                                                         *)
(* A restore puts a snapshot back, so each invariant of the document is    *)
(* kept for the snapshot as well: DocumentSound and PlayInv speak of both. *)
(***************************************************************************)
EXTENDS CampaignPacks, TLAPS

\* The lifecycle of one Pack version: at most one of its draft and its finalized
\* document exists, an import has a finalized document, and an active Pack an
\* import.
Lifecycle(d) ==
    \A k \in Pack :
        /\ d.drafts[k] # Absent => d.finalized[k] = Absent /\ PackKey[d.drafts[k].content] = k
        /\ d.finalized[k] # Absent => PackKey[d.finalized[k].content] = k
        /\ d.imports[k] # "none" => d.finalized[k] # Absent
        /\ k \in d.active => d.imports[k] # "none"

Depends(d) ==
    \A k \in d.active : \A n \in Needs[d.finalized[k].content] :
        /\ n.key \in d.active
        /\ n.sum # AnySum => d.finalized[n.key] = n.sum

ManifestIn(d, k) == Manifest[d.finalized[k].content]
Designing(d) == {k \in d.active : HasManifest(d.finalized[k].content)}

Designs(d) ==
    /\ Manifests(d.design) = Designing(d)
    /\ \A k \in Designing(d) : d.design[k] = d.finalized[k].content

Lineage(d) ==
    /\ \A j, k \in Designing(d) :
          ManifestIn(d, j).generation = 0 /\ ManifestIn(d, k).generation = 0 => j = k
    /\ \A k \in Designing(d) : ManifestIn(d, k).generation > 0 =>
          \E p \in Designing(d) :
              /\ ManifestIn(d, p).id = ManifestIn(d, k).parent
              /\ ManifestIn(d, p).root = ManifestIn(d, k).root
              /\ ManifestIn(d, p).generation + 1 = ManifestIn(d, k).generation
              /\ [key |-> p, sum |-> d.finalized[p]] \in Needs[d.finalized[k].content]

Grounded(d, signed) ==
    \A k \in d.active : IsEpisode(d.finalized[k].content) =>
        /\ [branch |-> d.finalized[k].att, pack |-> PackKey[d.finalized[k].content],
            manifest |-> Manifest[d.finalized[k].content]] \in signed
        /\ Manifest[d.finalized[k].content].cites \subseteq Available(d)

\* A document that every step and every restore may leave, given what was signed.
DocumentSound(d, signed) ==
    /\ d \in Document
    /\ Lifecycle(d)
    /\ Depends(d)
    /\ Designs(d)
    /\ Lineage(d)
    /\ Grounded(d, signed)

IInv ==
    /\ TypeOK
    /\ DocumentSound(doc, issued)
    /\ snapshot # NoSnapshot => DocumentSound(snapshot, issued)

USE DocumentAssumption

-----------------------------------------------------------------------------
(* Documents *)

\* More signatures spoil no document.
LEMMA MoreSigned ==
    ASSUME NEW d, NEW signed, NEW more, DocumentSound(d, signed), signed \subseteq more
    PROVE  DocumentSound(d, more)
BY DEF DocumentSound, Grounded

\* What leaves the Packs and the design alone, and forgets no evidence, spoils
\* no document.
LEMMA LibraryUntouched ==
    ASSUME NEW d, NEW e \in Document, NEW signed, DocumentSound(d, signed),
           e.drafts = d.drafts, e.finalized = d.finalized, e.imports = d.imports,
           e.active = d.active, e.design = d.design, d.evidence \subseteq e.evidence
    PROVE  DocumentSound(e, signed)
<1>1. Lifecycle(e) BY DEF DocumentSound, Lifecycle
<1>2. Depends(e) BY DEF DocumentSound, Depends
<1>3. Designs(e) BY DEF DocumentSound, Designs, Designing
<1>4. Lineage(e) BY DEF DocumentSound, Lineage, Designing, ManifestIn
<1>5. Available(d) \subseteq Available(e) BY DEF Available
<1>6. Grounded(e, signed) BY <1>5 DEF DocumentSound, Grounded
<1> QED BY <1>1, <1>2, <1>3, <1>4, <1>6 DEF DocumentSound

\* A draft of a version that is not finalized.
LEMMA DraftSound ==
    ASSUME NEW d, NEW signed, DocumentSound(d, signed), NEW x \in Signed,
           d.finalized[PackKey[x.content]] = Absent
    PROVE  DocumentSound([d EXCEPT !.drafts[PackKey[x.content]] = x], signed)
<1> DEFINE k == PackKey[x.content]
           e == [d EXCEPT !.drafts[k] = x]
<1>1. d \in Document BY DEF DocumentSound
<1>2. k \in Pack /\ x.content \in Content BY DEF Signed
<1>3. e \in Document BY <1>1, <1>2 DEF Document
<1>4. /\ e.finalized = d.finalized /\ e.imports = d.imports /\ e.active = d.active
      /\ e.design = d.design /\ e.evidence = d.evidence
      /\ e.drafts = [d.drafts EXCEPT ![k] = x] /\ d.drafts \in [Pack -> Signed \cup {Absent}]
  BY <1>1 DEF Document
<1>5. Lifecycle(e) BY <1>2, <1>4 DEF DocumentSound, Lifecycle
<1>6. Depends(e) BY <1>4 DEF DocumentSound, Depends
<1>7. Designs(e) BY <1>4 DEF DocumentSound, Designs, Designing
<1>8. Lineage(e) BY <1>4 DEF DocumentSound, Lineage, Designing, ManifestIn
<1>9. Available(e) = Available(d) BY <1>4 DEF Available
<1>10. Grounded(e, signed) BY <1>4, <1>9 DEF DocumentSound, Grounded
<1> QED BY <1>3, <1>5, <1>6, <1>7, <1>8, <1>10 DEF DocumentSound

\* Finalizing moves a draft to a version that is not active: nothing that rests
\* on finalized Packs sees a change.
LEMMA FinalizeSound ==
    ASSUME NEW d, NEW signed, DocumentSound(d, signed), NEW k \in Pack, d.drafts[k] # Absent
    PROVE  DocumentSound([d EXCEPT !.finalized[k] = d.drafts[k], !.drafts[k] = Absent], signed)
<1> DEFINE e == [d EXCEPT !.finalized[k] = d.drafts[k], !.drafts[k] = Absent]
<1>1. d \in Document BY DEF DocumentSound
<1>2. e \in Document BY <1>1 DEF Document
<1>3. /\ e.imports = d.imports /\ e.active = d.active
      /\ e.design = d.design /\ e.evidence = d.evidence
      /\ e.finalized = [d.finalized EXCEPT ![k] = d.drafts[k]]
      /\ e.drafts = [d.drafts EXCEPT ![k] = Absent]
      /\ d.drafts \in [Pack -> Signed \cup {Absent}]
      /\ d.finalized \in [Pack -> Signed \cup {Absent}]
      /\ d.active \subseteq Pack
  BY <1>1 DEF Document
<1>4. k \notin d.active /\ d.finalized[k] = Absent BY DEF DocumentSound, Lifecycle
<1>5. \A j \in d.active : e.finalized[j] = d.finalized[j] BY <1>3, <1>4
<1>6. Lifecycle(e) BY <1>3 DEF DocumentSound, Lifecycle
<1>7. Depends(e) BY <1>3, <1>5 DEF DocumentSound, Depends
<1>8. Designing(e) = Designing(d) BY <1>3, <1>5 DEF Designing
<1>9. \A j \in Designing(d) : e.finalized[j] = d.finalized[j] BY <1>5 DEF Designing
<1>10. Designs(e) BY <1>3, <1>8, <1>9 DEF DocumentSound, Designs
<1>11. Lineage(e) BY <1>8, <1>9 DEF DocumentSound, Lineage, ManifestIn
<1>12. Available(e) = Available(d) BY <1>3 DEF Available
<1>13. Grounded(e, signed) BY <1>3, <1>5, <1>12 DEF DocumentSound, Grounded
<1> QED BY <1>2, <1>6, <1>7, <1>10, <1>11, <1>13 DEF DocumentSound

\* Importing, again or for the first time.
LEMMA ImportSound ==
    ASSUME NEW d, NEW signed, DocumentSound(d, signed), NEW k \in Pack, d.finalized[k] # Absent
    PROVE  DocumentSound([d EXCEPT !.imports[k] = "inactive"], signed)
<1> DEFINE e == [d EXCEPT !.imports[k] = "inactive"]
<1>1. d \in Document BY DEF DocumentSound
<1>2. e \in Document BY <1>1 DEF Document
<1>3. /\ e.drafts = d.drafts /\ e.finalized = d.finalized /\ e.active = d.active
      /\ e.design = d.design /\ e.evidence = d.evidence
      /\ e.imports = [d.imports EXCEPT ![k] = "inactive"]
      /\ d.imports \in [Pack -> {"none", "inactive", "active"}]
  BY <1>1 DEF Document
<1>4. Lifecycle(e) BY <1>3 DEF DocumentSound, Lifecycle
<1>5. Depends(e) BY <1>3 DEF DocumentSound, Depends
<1>6. Designs(e) BY <1>3 DEF DocumentSound, Designs, Designing
<1>7. Lineage(e) BY <1>3 DEF DocumentSound, Lineage, Designing, ManifestIn
<1>8. Available(e) = Available(d) BY <1>3 DEF Available
<1>9. Grounded(e, signed) BY <1>3, <1>8 DEF DocumentSound, Grounded
<1> QED BY <1>2, <1>4, <1>5, <1>6, <1>7, <1>9 DEF DocumentSound

\* The dependencies of the finalized Pack k are met in d.
Met(d, k) ==
    \A n \in Needs[d.finalized[k].content] :
        /\ n.key \in d.active
        /\ n.sum # AnySum => d.finalized[n.key] = n.sum

\* The finalized Pack k, if it is an episode, is within the boundary of d.
Bounded(d, k, signed) ==
    LET c == d.finalized[k].content IN
    IsEpisode(c) =>
        /\ [branch |-> d.finalized[k].att, pack |-> k, manifest |-> Manifest[c]] \in signed
        /\ Manifest[c].cites \subseteq Available(d)
        /\ \E p \in d.active : /\ HasManifest(d.finalized[p].content)
                               /\ Manifest[d.finalized[p].content].id = Manifest[c].parent
                               /\ [key |-> p, sum |-> d.finalized[p]] \in Needs[c]

\* e differs from d in that k is active, and perhaps in the design.
Lists(d, e, k) ==
    /\ e \in Document
    /\ e.drafts = d.drafts /\ e.finalized = d.finalized /\ e.evidence = d.evidence
    /\ e.active = d.active \cup {k}
    /\ e.imports = [d.imports EXCEPT ![k] = "active"]

\* Activating a Pack without a manifest leaves the design alone.
LEMMA ActivatePlainSound ==
    ASSUME NEW d, NEW e, NEW signed, DocumentSound(d, signed), NEW k \in Pack,
           d.imports[k] # "none",
           ~HasManifest(d.finalized[k].content),
           Met(d, k), Lists(d, e, k), e.design = d.design
    PROVE  DocumentSound(e, signed)
<1> USE DEF Lists, Met
<1>1. d.imports \in [Pack -> {"none", "inactive", "active"}] BY DEF DocumentSound, Document
<1>2. Lifecycle(e) BY <1>1 DEF DocumentSound, Lifecycle
<1>3. Depends(e) BY DEF DocumentSound, Depends
<1>4. Designing(e) = Designing(d) BY DEF Designing
<1>5. Designs(e) BY <1>4 DEF DocumentSound, Designs
<1>6. Lineage(e) BY <1>4 DEF DocumentSound, Lineage, ManifestIn
<1>7. Available(e) = Available(d) BY DEF Available
<1>8. Grounded(e, signed) BY <1>7 DEF DocumentSound, Grounded, IsEpisode
<1> QED BY <1>2, <1>3, <1>5, <1>6, <1>8 DEF DocumentSound

\* In a valid design an episode has its parent, one generation up.
LEMMA ParentInDesign ==
    ASSUME NEW design, ValidDesign(design), NEW k \in Manifests(design),
           ManifestOf(design, k).generation > 0
    PROVE  \E q \in Manifests(design) :
             /\ ManifestOf(design, q).id = ManifestOf(design, k).parent
             /\ ManifestOf(design, q).root = ManifestOf(design, k).root
             /\ ManifestOf(design, k).generation = ManifestOf(design, q).generation + 1
BY Zenon DEF ValidDesign

\* Activating a Pack with a manifest: the validated design has one root, and
\* the parent it was validated with is the one whose Pack is pinned, since no
\* two manifests of a design share an id.
LEMMA ActivateDesignedSound ==
    ASSUME NEW d, NEW e, NEW signed, DocumentSound(d, signed), NEW k \in Pack,
           d.imports[k] # "none",
           HasManifest(d.finalized[k].content),
           ValidDesign(e.design),
           Met(d, k), Bounded(d, k, signed), Lists(d, e, k),
           e.design = [d.design EXCEPT ![k] = d.finalized[k].content]
    PROVE  DocumentSound(e, signed)
<1> DEFINE c == d.finalized[k].content
<1> USE DEF Lists, Met, Bounded
<1>1. /\ d.imports \in [Pack -> {"none", "inactive", "active"}]
      /\ d.finalized \in [Pack -> Signed \cup {Absent}]
      /\ d.design \in [Pack -> Content \cup {Absent}]
      /\ d.active \subseteq Pack
  BY DEF DocumentSound, Document
<1>2. d.finalized[k] # Absent /\ PackKey[c] = k BY DEF DocumentSound, Lifecycle
<1>3. c \in Content /\ c # Absent /\ Manifest[c] \in ManifestType
  BY <1>1, <1>2 DEF Signed, HasManifest
<1>4. Lifecycle(e) BY <1>1 DEF DocumentSound, Lifecycle
<1>5. Depends(e) BY DEF DocumentSound, Depends
<1>6. Designing(e) = Designing(d) \cup {k} BY DEF Designing
<1>7. Manifests(e.design) = Manifests(d.design) \cup {k} BY <1>1, <1>3 DEF Manifests
<1>8. \A j \in Designing(e) : e.design[j] = e.finalized[j].content
  BY <1>1, <1>6 DEF DocumentSound, Designs, Designing
<1>9. Designs(e) BY <1>6, <1>7, <1>8 DEF DocumentSound, Designs
<1>10. \A j \in Designing(e) : ManifestOf(e.design, j) = ManifestIn(e, j)
  BY <1>8 DEF ManifestOf, ManifestIn
<1>11. Manifests(e.design) = Designing(e) BY <1>9 DEF Designs
<1>12. \A j \in Designing(e) : ManifestIn(e, j).generation > 0 =>
          \E p \in Designing(e) :
              /\ ManifestIn(e, p).id = ManifestIn(e, j).parent
              /\ ManifestIn(e, p).root = ManifestIn(e, j).root
              /\ ManifestIn(e, p).generation + 1 = ManifestIn(e, j).generation
              /\ [key |-> p, sum |-> e.finalized[p]] \in Needs[e.finalized[j].content]
  <2> SUFFICES ASSUME NEW j \in Designing(e), ManifestIn(e, j).generation > 0
               PROVE  \E p \in Designing(e) :
                        /\ ManifestIn(e, p).id = ManifestIn(e, j).parent
                        /\ ManifestIn(e, p).root = ManifestIn(e, j).root
                        /\ ManifestIn(e, p).generation + 1 = ManifestIn(e, j).generation
                        /\ [key |-> p, sum |-> e.finalized[p]] \in Needs[e.finalized[j].content]
    OBVIOUS
  <2>1. CASE j \in Designing(d)
    BY <2>1, <1>6 DEF DocumentSound, Lineage, ManifestIn
  <2>2. CASE j = k
    <3>1. ManifestIn(e, j) = Manifest[c] BY <2>2 DEF ManifestIn
    <3>2. IsEpisode(c) BY <3>1 DEF IsEpisode
    <3>3. PICK p \in d.active : /\ HasManifest(d.finalized[p].content)
                               /\ Manifest[d.finalized[p].content].id = Manifest[c].parent
                               /\ [key |-> p, sum |-> d.finalized[p]] \in Needs[c]
      BY <3>2
    <3>4. p \in Designing(e) /\ ManifestIn(e, p) = Manifest[d.finalized[p].content]
      BY <3>3 DEF Designing, ManifestIn
    <3>5. PICK q \in Designing(e) : /\ ManifestIn(e, q).id = Manifest[c].parent
                                   /\ ManifestIn(e, q).root = Manifest[c].root
                                   /\ Manifest[c].generation = ManifestIn(e, q).generation + 1
      <4>1. k \in Manifests(e.design) /\ ManifestOf(e.design, k) = Manifest[c]
        BY <1>7, <1>10, <1>11, <2>2, <3>1
      <4>2. Manifest[c].generation > 0 BY <3>2 DEF IsEpisode
      <4> HIDE DEF c, Lists, Met, Bounded
      <4>3. PICK q \in Manifests(e.design) :
              /\ ManifestOf(e.design, q).id = Manifest[c].parent
              /\ ManifestOf(e.design, q).root = Manifest[c].root
              /\ Manifest[c].generation = ManifestOf(e.design, q).generation + 1
        <5>1. ManifestOf(e.design, k).generation > 0 BY <4>1, <4>2
        <5>2. \E q \in Manifests(e.design) :
                /\ ManifestOf(e.design, q).id = ManifestOf(e.design, k).parent
                /\ ManifestOf(e.design, q).root = ManifestOf(e.design, k).root
                /\ ManifestOf(e.design, k).generation = ManifestOf(e.design, q).generation + 1
          BY <4>1, <5>1, ParentInDesign
        <5> QED BY <4>1, <5>2
      <4>4. q \in Designing(e) /\ ManifestOf(e.design, q) = ManifestIn(e, q)
        BY <1>10, <1>11
      <4> QED BY <4>3, <4>4
    <3>6. p = q
      <4>1. \A i, h \in Manifests(e.design) :
              ManifestOf(e.design, i).id = ManifestOf(e.design, h).id => i = h
        BY DEF ValidDesign
      <4>2. ManifestIn(e, p).id = ManifestIn(e, q).id BY <3>3, <3>4, <3>5
      <4>3. ManifestOf(e.design, p).id = ManifestOf(e.design, q).id
        BY ONLY <4>2, <1>10, <3>4
      <4> QED BY <4>1, <4>3, <1>11, <3>4
    <3> QED BY <2>2, <3>1, <3>3, <3>4, <3>5, <3>6
  <2> QED BY <1>6, <2>1, <2>2
<1>13. \A i, j \in Designing(e) :
          ManifestIn(e, i).generation = 0 /\ ManifestIn(e, j).generation = 0 => i = j
  BY <1>10, <1>11 DEF ValidDesign
<1>14. Lineage(e) BY <1>12, <1>13 DEF Lineage
<1>15. Available(d) \subseteq Available(e)
  <2>1. \A j \in Manifests(d.design) : ManifestOf(d.design, j) = ManifestOf(e.design, j)
    BY <1>1, <1>6, <1>7, <1>8, <1>9 DEF DocumentSound, Designs, Designing, ManifestOf
  <2> QED BY <2>1, <1>7 DEF Available
<1>16. Grounded(e, signed) BY <1>2, <1>15 DEF DocumentSound, Grounded
<1> QED BY <1>4, <1>5, <1>9, <1>14, <1>16 DEF DocumentSound

-----------------------------------------------------------------------------
(* Steps *)

\* A new campaign satisfies the invariant.
LEMMA InitSound == Init => IInv
<1> SUFFICES ASSUME Init PROVE IInv OBVIOUS
<1> USE DEF Init
<1>1. doc \in Document BY DEF Document
<1>2. Lifecycle(doc) /\ Depends(doc) BY DEF Lifecycle, Depends
<1>3. Designing(doc) = {} BY DEF Designing
<1>4. Manifests(doc.design) = {} BY DEF Manifests
<1>5. Designs(doc) /\ Lineage(doc) BY <1>3, <1>4 DEF Designs, Lineage
<1>6. Grounded(doc, issued) BY DEF Grounded
<1>7. branch \in 0..MaxBranch BY BranchAssumption
<1>8. role \in [Principal -> Standing] BY DEF Standing, Role
<1>9. TypeOK BY <1>1, <1>7, <1>8 DEF TypeOK
<1> QED BY <1>1, <1>2, <1>5, <1>6, <1>9 DEF IInv, DocumentSound

\* A request that leaves a sound document, and nothing else, keeps the invariant.
LEMMA WriteSound ==
    ASSUME IInv, DocumentSound(doc', issued), UNCHANGED <<branch, snapshot, issued>>,
           role' \in [Principal -> Standing]
    PROVE  IInv'
<1>1. TypeOK' BY DEF IInv, TypeOK, DocumentSound
<1> QED BY <1>1 DEF IInv

\* A request that leaves the Packs and the design alone keeps the invariant.
LEMMA PlainWriteSound ==
    ASSUME IInv, doc' \in Document, UNCHANGED <<branch, snapshot, issued>>,
           role' \in [Principal -> Standing],
           doc'.drafts = doc.drafts, doc'.finalized = doc.finalized, doc'.imports = doc.imports,
           doc'.active = doc.active, doc'.design = doc.design, doc.evidence \subseteq doc'.evidence
    PROVE  IInv'
<1>1. DocumentSound(doc, issued) BY DEF IInv
<1>2. DocumentSound(doc', issued) BY <1>1, LibraryUntouched
<1> QED BY <1>2, WriteSound

\* Requests about profiles, phases, progress, memberships and play.
LEMMA PlainRequestSound ==
    ASSUME IInv,
           \/ \E b \in Body : DraftProfile(b)
           \/ \E p \in Profile : FinalizeProfile(p) \/ ActivateProfile(p)
           \/ \E phase \in {"lobby", "play"} : ChangePhase(phase)
           \/ \E e \in Entity : \E status \in Status, cited \in SUBSET Ref : Advance(e, status, cited)
           \/ \E p \in Principal, k \in Pack : ApplySeed(p, k)
           \/ \E p, q \in Principal, standing \in Standing : ChangeAccess(p, q, standing)
           \/ \E r \in PlayRef : Happen(r)
    PROVE  IInv'
<1> USE DEF IInv, TypeOK
<1>1. ASSUME NEW b \in Body, DraftProfile(b) PROVE IInv'
  <2>1. doc' \in Document BY <1>1 DEF DraftProfile, Write, Document
  <2> QED BY <1>1, <2>1, PlainWriteSound DEF DraftProfile, Write, Document
<1>2. ASSUME NEW p \in Profile, FinalizeProfile(p) PROVE IInv'
  <2>1. doc' \in Document BY <1>2 DEF FinalizeProfile, Write, Document
  <2> QED BY <1>2, <2>1, PlainWriteSound DEF FinalizeProfile, Write, Document
<1>3. ASSUME NEW p \in Profile, ActivateProfile(p) PROVE IInv'
  <2>1. doc' \in Document BY <1>3 DEF ActivateProfile, Write, Document
  <2> QED BY <1>3, <2>1, PlainWriteSound DEF ActivateProfile, Write, Document
<1>4. ASSUME NEW phase \in {"lobby", "play"}, ChangePhase(phase) PROVE IInv'
  <2>1. doc' \in Document BY <1>4 DEF ChangePhase, Write, Document
  <2> QED BY <1>4, <2>1, PlainWriteSound DEF ChangePhase, Write, Document
<1>5. ASSUME NEW e \in Entity, NEW status \in Status, NEW cited \in SUBSET Ref,
             Advance(e, status, cited)
      PROVE  IInv'
  <2>1. doc.progress \in [Entity -> Seq(Step)] BY DEF Document
  <2>2. [status |-> status, evidence |-> cited] \in Step BY DEF Step
  <2>3. Append(doc.progress[e], [status |-> status, evidence |-> cited]) \in Seq(Step)
    BY <2>1, <2>2
  <2>4. doc' \in Document BY <1>5, <2>3 DEF Advance, Write, Document
  <2> QED BY <1>5, <2>4, PlainWriteSound DEF Advance, Write, Document
<1>6. ASSUME NEW p \in Principal, NEW k \in Pack, ApplySeed(p, k) PROVE IInv'
  <2> DEFINE s == Seed[doc.finalized[k].content]
  <2>1. doc.finalized[k] # Absent BY <1>6 DEF ApplySeed, DocumentSound, Lifecycle
  <2>2. doc.finalized[k] \in Signed BY <2>1 DEF Document
  <2>3. s \in SeedType BY <1>6, <2>2 DEF ApplySeed, Signed
  <2>4. doc' = [doc EXCEPT !.bound = @ \cup s.actors, !.evidence = @ \cup s.records]
    BY <1>6 DEF ApplySeed, Seeded
  <2>5. doc' \in Document BY <2>3, <2>4 DEF SeedType, Document
  <2>6. role' \in [Principal -> Standing]
    BY <1>6, <2>3 DEF ApplySeed, MembersSeeded, SeedType
  <2>7. /\ doc'.drafts = doc.drafts /\ doc'.finalized = doc.finalized
        /\ doc'.imports = doc.imports /\ doc'.active = doc.active
        /\ doc'.design = doc.design /\ doc.evidence \subseteq doc'.evidence
    BY <2>4 DEF Document
  <2> QED BY <1>6, <2>5, <2>6, <2>7, PlainWriteSound DEF ApplySeed
<1>7. ASSUME NEW p \in Principal, NEW q \in Principal, NEW standing \in Standing,
             ChangeAccess(p, q, standing)
      PROVE  IInv'
  <2>1. role' \in [Principal -> Standing] BY <1>7 DEF ChangeAccess
  <2> QED BY <1>7, <2>1, WriteSound DEF ChangeAccess
<1>8. ASSUME NEW r \in PlayRef, Happen(r) PROVE IInv'
  <2>1. doc' \in Document BY <1>8 DEF Happen, Document
  <2> QED BY <1>8, <2>1, PlainWriteSound DEF Happen, Document
<1> QED BY <1>1, <1>2, <1>3, <1>4, <1>5, <1>6, <1>7, <1>8

\* The lifecycle of Packs.
LEMMA DraftKeeps == ASSUME IInv, NEW c \in Content, NEW att \in Nat \cup {Unsigned}, Draft(c, att)
                    PROVE  IInv'
<1> DEFINE x == [content |-> c, att |-> att]
<1>1. x \in Signed /\ x.content = c BY DEF Signed
<1>2. doc.finalized[PackKey[c]] = Absent /\ doc' = [doc EXCEPT !.drafts[PackKey[c]] = x]
  BY DEF Draft, Write
<1>3. DocumentSound(doc, issued) BY DEF IInv
<1> HIDE DEF x
<1>4. DocumentSound(doc', issued) BY <1>1, <1>2, <1>3, DraftSound
<1> QED BY <1>4, WriteSound DEF Draft, Write, IInv, TypeOK

\* pack_change finalize keeps the invariant.
LEMMA FinalizeKeeps == ASSUME IInv, NEW k \in Pack, Finalize(k) PROVE IInv'
<1>1. DocumentSound(doc', issued) BY FinalizeSound DEF Finalize, Write, IInv
<1> QED BY <1>1, WriteSound DEF Finalize, Write, IInv, TypeOK

\* pack_change import keeps the invariant.
LEMMA ImportKeeps == ASSUME IInv, NEW k \in Pack, Import(k) PROVE IInv'
<1>1. DocumentSound(doc', issued) BY ImportSound DEF Import, Write, IInv
<1> QED BY <1>1, WriteSound DEF Import, Write, IInv, TypeOK

\* pack_change activate keeps the invariant, with or without a manifest.
LEMMA ActivateKeeps == ASSUME IInv, NEW k \in Pack, Activate(k) PROVE IInv'
<1> DEFINE x == doc.finalized[k]
           c == x.content
<1>1. DocumentSound(doc, issued) /\ doc \in Document BY DEF IInv, DocumentSound
<1>2. doc.imports[k] # "none" BY DEF Activate
<1>3. x \in Signed /\ PackKey[c] = k BY <1>1, <1>2 DEF DocumentSound, Lifecycle, Document
<1>4. c \in Content BY <1>3 DEF Signed
<1>5. Met(doc, k) BY DEF Activate, DependsMet, Met
<1>6. UNCHANGED <<branch, snapshot, issued, role>> BY DEF Activate, Write
<1>7. CASE HasManifest(c)
  <2>1. ValidDesign(Extended(c)) BY <1>7 DEF Activate
  <2>2. doc' = [doc EXCEPT !.imports[k] = "active", !.active = @ \cup {k}, !.design = Extended(c)]
    BY <1>7, <1>1 DEF Activate, Write, Designed, Document
  <2>3. Extended(c) = [doc.design EXCEPT ![k] = c] BY <1>3 DEF Extended
  <2>4. doc.design \in [Pack -> Content \cup {Absent}] /\ doc.active \subseteq Pack
        /\ doc.imports \in [Pack -> {"none", "inactive", "active"}]
    BY <1>1 DEF Document
  <2>5. /\ Extended(c) \in [Pack -> Content \cup {Absent}]
        /\ doc.active \cup {k} \subseteq Pack
        /\ [doc.imports EXCEPT ![k] = "active"] \in [Pack -> {"none", "inactive", "active"}]
    BY <1>4, <2>3, <2>4
  <2>6. doc' \in Document BY <1>1, <2>2, <2>5 DEF Document
  <2>7. Lists(doc, doc', k) BY <1>1, <2>2, <2>6 DEF Document, Lists
  <2>8. doc'.design = Extended(c) BY <1>1, <2>2 DEF Document
  <2>9. Bounded(doc, k, issued)
    BY <1>3 DEF Activate, WithinBoundary, SignedHere, ParentPinned, Bounded
  <2>10. DocumentSound(doc', issued)
    BY <1>1, <1>2, <1>5, <1>7, <2>1, <2>3, <2>7, <2>8, <2>9, ActivateDesignedSound
  <2> QED BY <1>6, <2>10, WriteSound DEF IInv, TypeOK
<1>8. CASE ~HasManifest(c)
  <2>1. doc' = [doc EXCEPT !.imports[k] = "active", !.active = @ \cup {k}]
    BY <1>8 DEF Activate, Write
  <2>2. doc' \in Document BY <1>1, <2>1 DEF Document
  <2>3. Lists(doc, doc', k) /\ doc'.design = doc.design
    BY <1>1, <2>1, <2>2 DEF Document, Lists
  <2>4. DocumentSound(doc', issued)
    BY <1>1, <1>2, <1>5, <1>8, <2>3, ActivatePlainSound
  <2> QED BY <1>6, <2>4, WriteSound DEF IInv, TypeOK
<1> QED BY <1>7, <1>8

\* Signing, snapshots and restores.
LEMMA AttestKeeps == ASSUME IInv, NEW c \in Content, Attest(c) PROVE IInv'
<1>1. Manifest[c] \in ManifestType BY DEF Attest, IsEpisode, HasManifest
<1>2. branch \in Nat /\ PackKey[c] \in Pack BY DEF IInv, TypeOK
<1>3. issued' \subseteq Attestation /\ issued \subseteq issued'
  BY <1>1, <1>2 DEF Attest, Attestation, IInv, TypeOK
<1>4. DocumentSound(doc', issued') BY <1>3, MoreSigned DEF Attest, IInv
<1>5. snapshot' # NoSnapshot => DocumentSound(snapshot', issued')
  BY <1>3, MoreSigned DEF Attest, IInv
<1>6. TypeOK' BY <1>3 DEF Attest, IInv, TypeOK
<1> QED BY <1>4, <1>5, <1>6 DEF IInv

\* A snapshot is as sound as the document it copies.
LEMMA SnapshotKeeps == ASSUME IInv, CreateSnapshot PROVE IInv'
BY DEF CreateSnapshot, IInv, TypeOK

\* A restore puts a sound document back.
LEMMA RestoreKeeps == ASSUME IInv, Restore PROVE IInv'
<1>1. branch' \in 0..MaxBranch BY BranchAssumption DEF Restore, IInv, TypeOK
<1> QED BY <1>1 DEF Restore, IInv, TypeOK

\* Every step keeps the invariant.
LEMMA StepSound == IInv /\ [Next]_vars => IInv'
<1> SUFFICES ASSUME IInv, [Next]_vars PROVE IInv' OBVIOUS
<1>1. CASE UNCHANGED vars BY <1>1 DEF vars, IInv, TypeOK
<1>2. CASE Next
  <2>1. ASSUME NEW c \in Content, NEW att \in IF IsEpisode(c) THEN 0..branch ELSE {Unsigned},
               Draft(c, att)
        PROVE  IInv'
    <3>1. att \in Nat \cup {Unsigned} BY DEF IInv, TypeOK
    <3> QED BY <2>1, <3>1, DraftKeeps
  <2> QED BY <1>2, <2>1, PlainRequestSound, FinalizeKeeps, ImportKeeps, ActivateKeeps,
             AttestKeeps, SnapshotKeeps, RestoreKeeps DEF Next
<1> QED BY <1>1, <1>2

-----------------------------------------------------------------------------
(* The promises *)

\* Every reachable document, live or in a snapshot, is sound.
THEOREM PacksInvariant == Spec => []IInv
BY InitSound, StepSound, PTL DEF Spec

\* The live and the restored state have their types.
THEOREM PacksTypeCorrect == Spec => []TypeOK
<1>1. IInv => TypeOK BY DEF IInv
<1> QED BY <1>1, PacksInvariant, PTL

\* An active Pack always rests on active Packs, with the documents it pinned
\* (pack_change, activate and finalize; snapshot restore).
THEOREM DependenciesAlwaysHold == Spec => []DependenciesHold
<1>1. IInv => DependenciesHold BY DEF IInv, DocumentSound, Depends, DependenciesHold
<1> QED BY <1>1, PacksInvariant, PTL

\* The campaign design is always that of the active Packs: one root, every
\* episode one generation below the parent whose Pack it pins.
THEOREM DesignAlwaysOfActivePacks == Spec => []DesignOfActivePacks
<1>1. IInv => DesignOfActivePacks
  BY DEF IInv, DocumentSound, Designs, Lineage, Designing, ManifestIn, DesignOfActivePacks
<1> QED BY <1>1, PacksInvariant, PTL

\* Active episodes are always signed, and cite what exists on the branch.
THEOREM EpisodesAlwaysGrounded == Spec => []EpisodesGrounded
<1>1. IInv => EpisodesGrounded
  BY DEF IInv, DocumentSound, Grounded, EpisodesGrounded, SignedHere
<1> QED BY <1>1, PacksInvariant, PTL

\* However seeds, grants and revocations interleave, somebody can administer the
\* campaign: a seed never changes the role of the administrator who applies it,
\* and the owner who changes access keeps or leaves an owner.
THEOREM AdministratorAlwaysRemains == Spec => []AdministratorRemains
<1>1. Init => AdministratorRemains
  BY DEF Init, AdministratorRemains, Administered, AdminRoles
<1>2. AdministratorRemains /\ TypeOK /\ [Next]_vars => AdministratorRemains'
  <2> SUFFICES ASSUME AdministratorRemains, TypeOK, [Next]_vars PROVE AdministratorRemains'
    OBVIOUS
  <2> USE DEF AdministratorRemains, Administered, AdminRoles, TypeOK
  <2>1. ASSUME role' = role PROVE AdministratorRemains' BY <2>1
  <2>2. ASSUME NEW p \in Principal, NEW k \in Pack, ApplySeed(p, k) PROVE AdministratorRemains'
    <3>1. role'[p] = role[p] /\ role[p] \in AdminRoles BY <2>2 DEF ApplySeed, MembersSeeded
    <3> QED BY <3>1
  <2>3. ASSUME NEW p \in Principal, NEW q \in Principal, NEW standing \in Standing,
               ChangeAccess(p, q, standing)
        PROVE  AdministratorRemains'
    <3>1. role' = [role EXCEPT ![q] = standing] /\ role[p] = "owner" BY <2>3 DEF ChangeAccess
    <3>2. CASE q # p BY <3>1, <3>2
    <3>3. CASE q = p /\ standing = "owner" BY <3>1, <3>3
    <3>4. CASE q = p /\ standing # "owner"
      <4>1. PICK o \in Principal \ {q} : role[o] = "owner" BY <2>3, <3>1, <3>4 DEF ChangeAccess
      <4> QED BY <3>1, <4>1
    <3> QED BY <3>2, <3>3, <3>4
  <2> QED BY <2>1, <2>2, <2>3
          DEF Next, vars, Write, DraftProfile, FinalizeProfile, ActivateProfile, ChangePhase,
              Attest, Advance, Draft, Finalize, Import, Activate, Happen, CreateSnapshot, Restore
<1> QED BY <1>1, <1>2, PacksTypeCorrect, PTL DEF Spec

\* The last owner is lost in one way only: a dm, never an owner, applies a seed.
\* Each access change keeps an owner, as access_change checks, and a seed leaves
\* the role of the principal who applies it alone.
THEOREM OnlySeedsTakeTheLastOwner ==
    Spec => [][OwnerRemains /\ ~OwnerRemains' =>
                  \E p \in Principal, k \in Pack : role[p] = "dm" /\ ApplySeed(p, k)]_vars
<1> DEFINE Taken == \E p \in Principal, k \in Pack : role[p] = "dm" /\ ApplySeed(p, k)
<1>1. ASSUME TypeOK, [Next]_vars, OwnerRemains, ~OwnerRemains' PROVE Taken
  <2> USE DEF OwnerRemains, TypeOK
  <2>1. role' # role BY <1>1
  <2>2. ASSUME NEW p \in Principal, NEW q \in Principal, NEW standing \in Standing,
               ChangeAccess(p, q, standing)
        PROVE  FALSE
    <3>1. role' = [role EXCEPT ![q] = standing] /\ role[p] = "owner" BY <2>2 DEF ChangeAccess
    <3>2. role[q] = "owner" /\ standing # "owner" BY <1>1, <3>1
    <3>3. PICK o \in Principal \ {q} : role[o] = "owner" BY <2>2, <3>2 DEF ChangeAccess
    <3> QED BY <1>1, <3>1, <3>3
  <2>3. ASSUME NEW p \in Principal, NEW k \in Pack, ApplySeed(p, k) PROVE role[p] = "dm"
    <3>1. role'[p] = role[p] /\ role[p] \in AdminRoles BY <2>3 DEF ApplySeed, MembersSeeded, AdminRoles
    <3>2. role[p] # "owner" BY <1>1, <3>1
    <3> QED BY <3>1, <3>2 DEF AdminRoles
  <2> HIDE DEF OwnerRemains, TypeOK
  <2> QED BY <1>1, <2>1, <2>2, <2>3
          DEF Next, vars, Write, DraftProfile, FinalizeProfile, ActivateProfile, ChangePhase,
              Attest, Advance, Draft, Finalize, Import, Activate, Happen, CreateSnapshot, Restore
<1>2. TypeOK /\ [Next]_vars => [OwnerRemains /\ ~OwnerRemains' => Taken]_vars
  BY <1>1
<1> QED BY <1>2, PacksTypeCorrect, PTL DEF Spec

-----------------------------------------------------------------------------
(* Demands, progress and what is never forgotten *)

\* A profile version is a draft or finalized, not both.
ProfileLifecycle(d) == \A p \in Profile : d.bodies[p] # Absent => d.released[p] = Absent

\* DemandsCanBeMet, of any document.
Demanded(d) ==
    \A k \in d.active :
        \/ Absent \in Demands[d.finalized[k].content]
        \/ \E p \in Profile : d.released[p] \in Demands[d.finalized[k].content]

\* ArcsEarned, of any document, for one line.
Earned(d, e) ==
    d.progress[e] # << >> /\ Last(d.progress[e]).status = "completed" /\ Opportunity[e] # {} =>
        /\ Last(d.progress[e]).evidence \cap Opportunity[e] # {}
        /\ Last(d.progress[e]).evidence \cap Linked[e] \cap d.evidence # {}

PlaySound(d) ==
    /\ ProfileLifecycle(d)
    /\ Demanded(d)
    /\ \A e \in Entity : Earned(d, e)

\* What a restore puts back must be as sound as what it replaces.
PlayInv == PlaySound(doc) /\ (snapshot # NoSnapshot => PlaySound(snapshot))

\* What leaves profiles, active Packs and progress alone, and forgets no evidence.
LEMMA PlayUntouched ==
    ASSUME NEW d, NEW e, PlaySound(d), e.bodies = d.bodies, e.released = d.released,
           e.progress = d.progress, d.evidence \subseteq e.evidence, e.active = d.active,
           \A k \in d.active : e.finalized[k] = d.finalized[k]
    PROVE  PlaySound(e)
<1>1. ProfileLifecycle(e) BY DEF PlaySound, ProfileLifecycle
<1>2. Demanded(e) BY DEF PlaySound, Demanded
<1>3. ASSUME NEW n \in Entity PROVE Earned(e, n)
  <2>1. Earned(d, n) BY DEF PlaySound
  <2> QED BY <2>1 DEF Earned
<1> QED BY <1>1, <1>2, <1>3 DEF PlaySound

\* Drafting and finalizing a profile: a demand that was met stays met, since a
\* finalized profile is not finalized again.
LEMMA ProfileKeepsPlay ==
    ASSUME IInv, PlayInv, NEW p \in Profile,
           (\E b \in Body : ProfileKey[b] = p /\ DraftProfile(b)) \/ FinalizeProfile(p)
    PROVE  PlaySound(doc')
<1>1. /\ doc \in Document /\ doc.bodies \in [Profile -> Body \cup {Absent}]
      /\ doc.released \in [Profile -> Body \cup {Absent}]
  BY DEF IInv, TypeOK, Document
<1>2. ProfileLifecycle(doc) /\ Demanded(doc) /\ \A e \in Entity : Earned(doc, e)
  BY DEF PlayInv, PlaySound
<1>3. ASSUME NEW b \in Body, ProfileKey[b] = p, DraftProfile(b) PROVE PlaySound(doc')
  <2>1. /\ doc'.bodies = [doc.bodies EXCEPT ![p] = b] /\ doc'.released = doc.released
        /\ doc'.progress = doc.progress /\ doc'.evidence = doc.evidence
        /\ doc'.active = doc.active /\ doc'.finalized = doc.finalized
        /\ doc.released[p] = Absent
    BY <1>1, <1>3 DEF DraftProfile, Write, Document
  <2>2. ProfileLifecycle(doc') BY <1>1, <1>2, <2>1 DEF ProfileLifecycle
  <2>3. Demanded(doc') BY <1>2, <2>1 DEF Demanded
  <2>4. \A e \in Entity : Earned(doc', e) BY <1>2, <2>1 DEF Earned
  <2> QED BY <2>2, <2>3, <2>4 DEF PlaySound
<1>4. ASSUME FinalizeProfile(p) PROVE PlaySound(doc')
  <2>1. /\ doc'.bodies = [doc.bodies EXCEPT ![p] = Absent]
        /\ doc'.released = [doc.released EXCEPT ![p] = doc.bodies[p]]
        /\ doc'.progress = doc.progress /\ doc'.evidence = doc.evidence
        /\ doc'.active = doc.active /\ doc'.finalized = doc.finalized
        /\ doc.bodies[p] # Absent
    BY <1>1, <1>4 DEF FinalizeProfile, Write, Document
  <2>2. ProfileLifecycle(doc') BY <1>1, <1>2, <2>1 DEF ProfileLifecycle
  <2>3. doc.released[p] = Absent BY <1>2, <2>1 DEF ProfileLifecycle
  <2>4. Demanded(doc')
    <3> SUFFICES ASSUME NEW k \in doc.active
                 PROVE  \/ Absent \in Demands[doc.finalized[k].content]
                        \/ \E q \in Profile : doc'.released[q] \in Demands[doc.finalized[k].content]
      BY <2>1 DEF Demanded
    <3>1. CASE Absent \in Demands[doc.finalized[k].content] BY <3>1
    <3>2. CASE \E q \in Profile : doc.released[q] \in Demands[doc.finalized[k].content]
      <4>1. PICK q \in Profile : doc.released[q] \in Demands[doc.finalized[k].content] BY <3>2
      <4>2. CASE q = p BY <4>1, <4>2, <2>3
      <4>3. CASE q # p BY <4>1, <4>3, <2>1, <1>1
      <4> QED BY <4>2, <4>3
    <3> QED BY <3>1, <3>2, <1>2 DEF Demanded
  <2>5. \A e \in Entity : Earned(doc', e) BY <1>2, <2>1 DEF Earned
  <2> QED BY <2>2, <2>4, <2>5 DEF PlaySound
<1> QED BY <1>3, <1>4

\* Activating a Pack: the profile that is active now meets its demand.
LEMMA ActivateKeepsPlay ==
    ASSUME IInv, PlayInv, NEW k \in Pack, Activate(k)
    PROVE  PlaySound(doc')
<1>1. doc \in Document BY DEF IInv, TypeOK
<1>2. ProfileLifecycle(doc) /\ Demanded(doc) /\ \A e \in Entity : Earned(doc, e)
  BY DEF PlayInv, PlaySound
<1>3. /\ doc'.bodies = doc.bodies /\ doc'.released = doc.released
      /\ doc'.progress = doc.progress /\ doc'.evidence = doc.evidence
      /\ doc'.active = doc.active \cup {k} /\ doc'.finalized = doc.finalized
  BY <1>1 DEF Activate, Write, Designed, Document
<1>4. ProfileLifecycle(doc') BY <1>2, <1>3 DEF ProfileLifecycle
<1>5. \/ Absent \in Demands[doc.finalized[k].content]
      \/ \E p \in Profile : doc.released[p] \in Demands[doc.finalized[k].content]
  <2>1. ActiveBody \in Demands[doc.finalized[k].content] BY DEF Activate, Suits
  <2>2. doc.profile \in Profile \cup {Absent} BY <1>1 DEF Document
  <2> QED BY <2>1, <2>2 DEF ActiveBody
<1>6. Demanded(doc') BY <1>2, <1>3, <1>5 DEF Demanded
<1>7. \A e \in Entity : Earned(doc', e) BY <1>2, <1>3 DEF Earned
<1> QED BY <1>4, <1>6, <1>7 DEF PlaySound

\* A narrative line advances by one step at its end.
LEMMA AdvanceAppends ==
    ASSUME IInv, NEW e \in Entity, NEW status \in Status, NEW cited \in SUBSET Ref,
           Advance(e, status, cited)
    PROVE  LET x == [status |-> status, evidence |-> cited] IN
           /\ doc'.progress = [doc.progress EXCEPT ![e] = Append(@, x)]
           /\ Append(doc.progress[e], x) # << >> /\ Last(Append(doc.progress[e], x)) = x
           /\ IsPrefix(doc.progress[e], Append(doc.progress[e], x))
<1> DEFINE x == [status |-> status, evidence |-> cited]
           s == doc.progress[e]
<1>1. doc \in Document /\ doc.progress \in [Entity -> Seq(Step)] /\ s \in Seq(Step)
  BY DEF IInv, TypeOK, Document
<1>2. x \in Step BY DEF Step
<1>3. doc'.progress = [doc.progress EXCEPT ![e] = Append(@, x)]
  BY <1>1 DEF Advance, Write, Document
<1> HIDE DEF x, s
<1>4. /\ Append(s, x) \in Seq(Step) /\ Len(Append(s, x)) = Len(s) + 1
      /\ Append(s, x)[Len(s) + 1] = x /\ Len(s) \in Nat
      /\ \A i \in 1..Len(s) : Append(s, x)[i] = s[i]
      /\ DOMAIN s = 1..Len(s) /\ DOMAIN Append(s, x) = 1..(Len(s) + 1)
  BY <1>1, <1>2
<1>5. Append(s, x) # << >> /\ Last(Append(s, x)) = x BY <1>4 DEF Last
<1>6. IsPrefix(s, Append(s, x)) BY <1>4 DEF IsPrefix
<1> QED BY <1>3, <1>5, <1>6 DEF s, x

\* A completed arc of a player was earned when its last step was taken.
LEMMA AdvanceKeepsPlay ==
    ASSUME IInv, PlayInv, NEW e \in Entity, NEW status \in Status, NEW cited \in SUBSET Ref,
           Advance(e, status, cited)
    PROVE  PlaySound(doc')
<1> DEFINE x == [status |-> status, evidence |-> cited]
           r == Append(doc.progress[e], x)
<1>1. doc \in Document /\ doc.progress \in [Entity -> Seq(Step)]
  BY DEF IInv, TypeOK, Document
<1>2. ProfileLifecycle(doc) /\ Demanded(doc) /\ \A n \in Entity : Earned(doc, n)
  BY DEF PlayInv, PlaySound
<1>3. /\ doc'.bodies = doc.bodies /\ doc'.released = doc.released
      /\ doc'.evidence = doc.evidence /\ doc'.active = doc.active
      /\ doc'.finalized = doc.finalized
  BY <1>1 DEF Advance, Write, Document
<1>4. doc'.progress = [doc.progress EXCEPT ![e] = r] /\ Last(r) = x BY AdvanceAppends
<1>5. x.status = status /\ x.evidence = cited OBVIOUS
<1> HIDE DEF x, r
<1>6. ASSUME NEW n \in Entity PROVE Earned(doc', n)
  <2>1. CASE n = e
    <3>1. doc'.progress[n] = r BY <2>1, <1>1, <1>4
    <3>2. status = "completed" /\ Opportunity[n] # {} =>
            /\ cited \cap Opportunity[n] # {}
            /\ cited \cap Linked[n] \cap doc.evidence # {}
      BY <2>1 DEF Advance, ArcEarned
    <3> QED BY <3>1, <3>2, <1>3, <1>4, <1>5 DEF Earned
  <2>2. CASE n # e
    <3>1. doc'.progress[n] = doc.progress[n] BY <2>2, <1>1, <1>4
    <3>2. Earned(doc, n) BY <1>2
    <3> QED BY <3>1, <3>2, <1>3 DEF Earned
  <2> QED BY <2>1, <2>2
<1>7. ProfileLifecycle(doc') BY <1>2, <1>3 DEF ProfileLifecycle
<1>8. Demanded(doc') BY <1>2, <1>3 DEF Demanded
<1> QED BY <1>6, <1>7, <1>8 DEF PlaySound

\* Every step keeps what play rests on.
LEMMA StepKeepsPlay == IInv /\ PlayInv /\ [Next]_vars => PlayInv'
<1> SUFFICES ASSUME IInv, PlayInv, [Next]_vars PROVE PlayInv'
  OBVIOUS
<1>1. doc \in Document /\ PlaySound(doc) BY DEF IInv, TypeOK, PlayInv
<1>2. ASSUME snapshot' = snapshot, PlaySound(doc') PROVE PlayInv'
  BY <1>2 DEF PlayInv
<1>3. ASSUME UNCHANGED <<doc, snapshot>> PROVE PlayInv'
  BY <1>3 DEF PlayInv
<1>4. ASSUME NEW b \in Body, DraftProfile(b) PROVE PlayInv'
  <2>1. ProfileKey[b] \in Profile BY DocumentAssumption
  <2>2. PlaySound(doc') BY <1>4, <2>1, ProfileKeepsPlay
  <2> QED BY <1>2, <1>4, <2>2 DEF DraftProfile, Write
<1>5. ASSUME NEW p \in Profile, FinalizeProfile(p) PROVE PlayInv'
  BY <1>2, <1>5, ProfileKeepsPlay DEF FinalizeProfile, Write
<1>6. ASSUME NEW p \in Profile, ActivateProfile(p) PROVE PlayInv'
  <2>1. PlaySound(doc')
    BY <1>1, <1>6, PlayUntouched DEF ActivateProfile, Write, Document
  <2> QED BY <1>2, <1>6, <2>1 DEF ActivateProfile, Write
<1>7. ASSUME NEW phase \in {"lobby", "play"}, ChangePhase(phase) PROVE PlayInv'
  <2>1. PlaySound(doc') BY <1>1, <1>7, PlayUntouched DEF ChangePhase, Write, Document
  <2> QED BY <1>2, <1>7, <2>1 DEF ChangePhase, Write
<1>8. ASSUME NEW e \in Entity, NEW status \in Status, NEW cited \in SUBSET Ref,
             Advance(e, status, cited)
      PROVE  PlayInv'
  BY <1>2, <1>8, AdvanceKeepsPlay DEF Advance, Write
<1>9. ASSUME NEW c \in Content, NEW att, Draft(c, att) PROVE PlayInv'
  <2>1. /\ doc'.bodies = doc.bodies /\ doc'.released = doc.released
        /\ doc'.progress = doc.progress /\ doc.evidence \subseteq doc'.evidence
        /\ doc'.active = doc.active /\ doc'.finalized = doc.finalized
    BY <1>1, <1>9 DEF Draft, Write, Document
  <2>2. PlaySound(doc') BY <1>1, <2>1, PlayUntouched
  <2> QED BY <1>2, <1>9, <2>2 DEF Draft, Write
<1>10. ASSUME NEW k \in Pack, Finalize(k) PROVE PlayInv'
  <2>1. k \notin doc.active
    BY <1>10 DEF Finalize, IInv, DocumentSound, Lifecycle
  <2>2. doc' = [doc EXCEPT !.finalized[k] = doc.drafts[k], !.drafts[k] = Absent]
    BY <1>10 DEF Finalize, Write
  <2>3. /\ doc'.bodies = doc.bodies /\ doc'.released = doc.released
        /\ doc'.progress = doc.progress /\ doc'.evidence = doc.evidence
        /\ doc'.active = doc.active
        /\ \A j \in Pack : j # k => doc'.finalized[j] = doc.finalized[j]
    BY <1>1, <2>2 DEF Document
  <2>4. doc.active \subseteq Pack BY <1>1 DEF Document
  <2>5. PlaySound(doc') BY <1>1, <2>1, <2>3, <2>4, PlayUntouched
  <2> QED BY <1>2, <1>10, <2>5 DEF Finalize, Write
<1>11. ASSUME NEW k \in Pack, Import(k) PROVE PlayInv'
  <2>1. PlaySound(doc') BY <1>1, <1>11, PlayUntouched DEF Import, Write, Document
  <2> QED BY <1>2, <1>11, <2>1 DEF Import, Write
<1>12. ASSUME NEW k \in Pack, Activate(k) PROVE PlayInv'
  BY <1>2, <1>12, ActivateKeepsPlay DEF Activate, Write
<1>13. ASSUME NEW p \in Principal, NEW k \in Pack, ApplySeed(p, k) PROVE PlayInv'
  <2>1. /\ doc'.bodies = doc.bodies /\ doc'.released = doc.released
        /\ doc'.progress = doc.progress /\ doc.evidence \subseteq doc'.evidence
        /\ doc'.active = doc.active /\ doc'.finalized = doc.finalized
    BY <1>1, <1>13 DEF ApplySeed, Seeded, Document
  <2>2. PlaySound(doc') BY <1>1, <2>1, PlayUntouched
  <2> QED BY <1>2, <1>13, <2>2 DEF ApplySeed
<1>14. ASSUME NEW r \in PlayRef, Happen(r) PROVE PlayInv'
  <2>1. PlaySound(doc') BY <1>1, <1>14, PlayUntouched DEF Happen, Document
  <2> QED BY <1>2, <1>14, <2>1 DEF Happen
<1>15. ASSUME CreateSnapshot PROVE PlayInv' BY <1>1, <1>15 DEF CreateSnapshot, PlayInv
<1>16. ASSUME Restore PROVE PlayInv' BY <1>16 DEF Restore, PlayInv
<1> QED BY <1>3, <1>4, <1>5, <1>6, <1>7, <1>8, <1>9, <1>10, <1>11, <1>12, <1>13, <1>14,
           <1>15, <1>16
        DEF Next, vars, Attest, ChangeAccess

\* Profiles with their Packs, and progress with its evidence, in every reachable
\* document and snapshot.
LEMMA AlwaysPlaySound == Spec => []PlayInv
<1>1. Init => PlayInv
  BY DEF Init, PlayInv, PlaySound, ProfileLifecycle, Demanded, Earned
<1> QED BY <1>1, StepKeepsPlay, PacksInvariant, PTL DEF Spec

\* An active Pack that demands a profile always has a finalized one to run under
\* (_require_pack_profile; profile_change finalize).
THEOREM DemandsAlwaysMet == Spec => []DemandsCanBeMet
<1>1. PlayInv => DemandsCanBeMet BY DEF PlayInv, PlaySound, Demanded, DemandsCanBeMet
<1> QED BY <1>1, AlwaysPlaySound, PTL

\* A player's completed arc always rests on its opportunity and on what happened
\* in play to its actor, also after a restore (campaign_design progress).
THEOREM ArcsAlwaysEarned == Spec => []ArcsEarned
<1>1. PlayInv => ArcsEarned BY DEF PlayInv, PlaySound, Earned, ArcsEarned
<1> QED BY <1>1, AlwaysPlaySound, PTL

\* A history is a prefix of itself.
LEMMA PrefixOfItself ==
    ASSUME NEW S, NEW s \in Seq(S)
    PROVE  IsPrefix(s, s)
BY DEF IsPrefix

\* What one step forgets: nothing that is finalized, and no progress.
LEMMA StepForgetsNothing ==
    ASSUME IInv, PlayInv, [Next]_vars, branch' = branch
    PROVE  /\ \A p \in Profile : doc.released[p] # Absent => doc'.released[p] = doc.released[p]
           /\ \A k \in Pack : doc.finalized[k] # Absent => doc'.finalized[k] = doc.finalized[k]
           /\ \A e \in Entity : IsPrefix(doc.progress[e], doc'.progress[e])
<1> DEFINE Kept ==
        /\ \A p \in Profile : doc.released[p] # Absent => doc'.released[p] = doc.released[p]
        /\ \A k \in Pack : doc.finalized[k] # Absent => doc'.finalized[k] = doc.finalized[k]
        /\ \A e \in Entity : IsPrefix(doc.progress[e], doc'.progress[e])
<1>1. /\ doc \in Document /\ doc.progress \in [Entity -> Seq(Step)]
      /\ doc.released \in [Profile -> Body \cup {Absent}]
      /\ doc.finalized \in [Pack -> Signed \cup {Absent}]
  BY DEF IInv, TypeOK, Document
<1>2. \A e \in Entity : IsPrefix(doc.progress[e], doc.progress[e])
  BY <1>1, PrefixOfItself
<1>3. ASSUME doc'.released = doc.released, doc'.finalized = doc.finalized,
             doc'.progress = doc.progress
      PROVE  Kept
  BY <1>2, <1>3
<1>4. ASSUME doc' = doc PROVE Kept BY <1>3, <1>4
<1> HIDE DEF Kept
<1>5. ASSUME NEW b \in Body, DraftProfile(b) PROVE Kept
  BY <1>1, <1>3, <1>5 DEF DraftProfile, Write, Document
<1>6. ASSUME NEW p \in Profile, FinalizeProfile(p) PROVE Kept
  <2>1. doc.released[p] = Absent
    BY <1>6 DEF PlayInv, PlaySound, ProfileLifecycle, FinalizeProfile
  <2>2. /\ doc'.released = [doc.released EXCEPT ![p] = doc.bodies[p]]
        /\ doc'.finalized = doc.finalized /\ doc'.progress = doc.progress
    BY <1>1, <1>6 DEF FinalizeProfile, Write, Document
  <2> QED BY <1>1, <1>2, <2>1, <2>2 DEF Kept
<1>7. ASSUME NEW p \in Profile, ActivateProfile(p) PROVE Kept
  BY <1>1, <1>3, <1>7 DEF ActivateProfile, Write, Document
<1>8. ASSUME NEW phase \in {"lobby", "play"}, ChangePhase(phase) PROVE Kept
  BY <1>1, <1>3, <1>8 DEF ChangePhase, Write, Document
<1>9. ASSUME NEW e \in Entity, NEW status \in Status, NEW cited \in SUBSET Ref,
             Advance(e, status, cited)
      PROVE  Kept
  <2> DEFINE r == Append(doc.progress[e], [status |-> status, evidence |-> cited])
  <2>1. doc'.progress = [doc.progress EXCEPT ![e] = r] /\ IsPrefix(doc.progress[e], r)
    BY <1>9, AdvanceAppends
  <2> HIDE DEF r
  <2>2. doc'.released = doc.released /\ doc'.finalized = doc.finalized
    BY <1>1, <1>9 DEF Advance, Write, Document
  <2>3. \A n \in Entity : IsPrefix(doc.progress[n], doc'.progress[n])
    BY <1>1, <1>2, <2>1
  <2> QED BY <2>2, <2>3 DEF Kept
<1>10. ASSUME NEW c \in Content, NEW att, Draft(c, att) PROVE Kept
  BY <1>1, <1>3, <1>10 DEF Draft, Write, Document
<1>11. ASSUME NEW k \in Pack, Finalize(k) PROVE Kept
  <2>1. doc.finalized[k] = Absent
    BY <1>11 DEF Finalize, IInv, DocumentSound, Lifecycle
  <2>2. doc' = [doc EXCEPT !.finalized[k] = doc.drafts[k], !.drafts[k] = Absent]
    BY <1>11 DEF Finalize, Write
  <2>3. /\ doc'.released = doc.released /\ doc'.progress = doc.progress
        /\ \A j \in Pack : j # k => doc'.finalized[j] = doc.finalized[j]
    BY <1>1, <2>2 DEF Document
  <2> QED BY <1>2, <2>1, <2>3 DEF Kept
<1>12. ASSUME NEW k \in Pack, Import(k) PROVE Kept
  BY <1>1, <1>3, <1>12 DEF Import, Write, Document
<1>13. ASSUME NEW k \in Pack, Activate(k) PROVE Kept
  BY <1>1, <1>3, <1>13 DEF Activate, Write, Designed, Document
<1>14. ASSUME NEW p \in Principal, NEW k \in Pack, ApplySeed(p, k) PROVE Kept
  BY <1>1, <1>3, <1>14 DEF ApplySeed, Seeded, Document
<1>15. ASSUME NEW r \in PlayRef, Happen(r) PROVE Kept
  BY <1>1, <1>3, <1>15 DEF Happen, Document
<1>16. ~Restore
  <2>1. branch \in Nat BY DEF IInv, TypeOK
  <2> QED BY <2>1 DEF Restore
<1>17. Kept
  BY <1>4, <1>5, <1>6, <1>7, <1>8, <1>9, <1>10, <1>11, <1>12, <1>13, <1>14, <1>15, <1>16
  DEF Next, vars, Attest, ChangeAccess, CreateSnapshot
<1> QED BY <1>17 DEF Kept

\* On a branch nothing finalized ever changes, and histories only grow, through
\* drafts, re-imports, seeds and the growth of the design.
THEOREM NothingEverForgotten == Spec => NothingForgotten
<1>1. IInv /\ PlayInv /\ [Next]_vars =>
        [branch' = branch =>
          /\ \A p \in Profile : doc.released[p] # Absent => doc'.released[p] = doc.released[p]
          /\ \A k \in Pack : doc.finalized[k] # Absent => doc'.finalized[k] = doc.finalized[k]
          /\ \A e \in Entity : IsPrefix(doc.progress[e], doc'.progress[e])]_vars
  BY StepForgetsNothing
<1> QED BY <1>1, PacksInvariant, AlwaysPlaySound, PTL DEF Spec, NothingForgotten

==============================================================================
