------------------------- MODULE CampaignLedgerProofs -------------------------
(***************************************************************************)
(* The guarantees of the atomic ledger, for any principals, branches,      *)
(* conversations, keys and requests.  LedgerInv is inductive; the action   *)
(* guarantees follow from it for each step.  A step that is not overrun    *)
(* starts from a state that is not, so what holds until a recovery         *)
(* overruns the campaign needs no more than the atomic steps before it.    *)
(***************************************************************************)
EXTENDS CampaignLedger, TLAPS

\* The document an accepted request leaves is a document.
LEMMA EffectType ==
    ASSUME NEW q \in Request, NEW d \in Document, NEW s \in Nat
    PROVE  Effect(q, d, s) \in Document
<1>1. q.rev + 1 \in Nat /\ q.conv \in Conversation /\ q.branch \in Branch
  BY DEF Request
<1>2. d.applied \cup {q.rev + 1} \in SUBSET Nat
  BY <1>1 DEF Document
<1>3. /\ d.open \in SUBSET Conversation
      /\ d.open \cup {q.conv} \in SUBSET Conversation
      /\ d.open \ {q.conv} \in SUBSET Conversation
  BY <1>1 DEF Document
<1>4. TalkAfter(q, d.talk[q.conv], s) \in Talk
  BY <1>1 DEF TalkAfter, Talk, Document
<1>5. [d.talk EXCEPT ![q.conv] = TalkAfter(q, d.talk[q.conv], s)] \in [Conversation -> Talk]
  BY <1>4 DEF Document
<1>6. d.talk \in [Conversation -> Talk]
  BY DEF Document
<1> QED
  BY <1>2, <1>3, <1>5, <1>6 DEF Effect, Document

\* A change of membership leaves a role for every principal.
LEMMA RoleAfterType ==
    ASSUME NEW q \in Request, NEW r \in [Principal -> Standing]
    PROVE  RoleAfter(q, r) \in [Principal -> Standing]
BY DEF RoleAfter, Request

\* A new campaign starts with a document.
LEMMA EmptyDocumentType == EmptyDocument \in Document
<1>1. [at |-> 0, read |-> 0, home |-> Root] \in Talk
  BY RootAssumption DEF Talk
<1> QED
  BY <1>1 DEF EmptyDocument, Document

\* A recovery brings back a document.
LEMMA SourceType ==
    ASSUME LedgerTypeOK, NEW q \in Request, Recoverable(q)
    PROVE  Source(q) \in Document
<1>1. q.onto \in Branch
  BY DEF Request
<1>2. CASE q.op = "fork"
  BY <1>2 DEF Recoverable, Source, LedgerTypeOK
<1>3. CASE q.op # "fork" /\ q.op = "checkout" /\ q.onto = q.branch
  BY <1>3 DEF Source, LedgerTypeOK
<1>4. CASE q.op # "fork" /\ ~(q.op = "checkout" /\ q.onto = q.branch)
  <2>1. Source(q) = head[q.onto]
    BY <1>4 DEF Source
  <2> QED
    BY <1>1, <2>1 DEF Recoverable, LedgerTypeOK
<1> QED
  BY <1>2, <1>3, <1>4

\* A fork, checkout or restore leaves typed branches, heads and documents.
LEMMA LandType ==
    ASSUME LedgerTypeOK, NEW q \in Request, NEW d \in Document, Land(q, d)
    PROVE  /\ revision' \in Nat
           /\ active' \in Branch
           /\ document' \in Document
           /\ branches' \subseteq Branch
           /\ head' \in [Branch -> Document \cup {NoSnapshot}]
<1> USE DEF LedgerTypeOK
<1>1. q.onto \in Branch /\ q.rev \in Nat
  BY DEF Request
<1>2. CASE Fork(q, d)
  BY <1>1, <1>2 DEF Fork, NewBranch, NextRevision
<1>3. CASE Checkout(q, d)
  BY <1>1, <1>3 DEF Checkout, NextRevision
<1>4. CASE Restore(q, d)
  BY <1>1, <1>4 DEF Restore, NewBranch, NextRevision
<1> QED
  BY <1>2, <1>3, <1>4 DEF Land

\* The revision a record promises is a number.
LEMMA PromisedType == ASSUME NEW q \in Request PROVE Promised(q) \in Nat
BY DEF Promised, Request

\* A recovery that lands on the campaign it validated raises the revision to the
\* one its record promises, or stays with it.
LEMMA LandPromised ==
    ASSUME NEW q \in Request, NEW d, Land(q, d), q.rev = revision
    PROVE  revision' = Promised(q)
BY DEF Land, Fork, Checkout, Restore, NextRevision, Promised

-----------------------------------------------------------------------------
(* The inductive invariant *)

Ordered ==
    /\ LedgerTypeOK
    /\ active \in branches
    /\ OwnerRemains
    /\ RevisionsAccounted

LedgerInv == OneReceiptPerSlot /\ (overrun \/ Ordered)

\* A new campaign satisfies the invariant.
LEMMA LedgerInitInv == LedgerInit => LedgerInv
<1> SUFFICES ASSUME LedgerInit PROVE LedgerInv
  OBVIOUS
<1>1. LedgerTypeOK /\ active \in branches
  BY RootAssumption, MembersAssumption, EmptyDocumentType DEF LedgerInit, LedgerTypeOK
<1>2. OwnerRemains
  BY MembersAssumption DEF LedgerInit, OwnerRemains
<1>3. OneReceiptPerSlot /\ RevisionsAccounted
  BY DEF LedgerInit, OneReceiptPerSlot, RevisionsAccounted, Accounted
<1> QED
  BY <1>1, <1>2, <1>3 DEF LedgerInv, Ordered

\* An ordinary write keeps the types.
LEMMA ApplyType ==
    ASSUME LedgerTypeOK, NEW q \in Request, Apply(q)
    PROVE  LedgerTypeOK'
<1>1. document' \in Document
  BY EffectType DEF Apply, LedgerTypeOK
<1>2. role' \in [Principal -> Standing]
  BY RoleAfterType DEF Apply, LedgerTypeOK
<1>3. head' \in [Branch -> Document \cup {NoSnapshot}]
  BY <1>1 DEF Apply, LedgerTypeOK
<1>4. [req |-> q, revision |-> revision + 1] \in Receipt
  BY DEF LedgerTypeOK, Receipt
<1> QED
  BY <1>1, <1>2, <1>3, <1>4 DEF Apply, LedgerTypeOK

\* A recovery keeps the types.
LEMMA RecoverType ==
    ASSUME LedgerTypeOK, NEW q \in Request, Recover(q)
    PROVE  LedgerTypeOK'
<1>1. /\ revision' \in Nat
      /\ active' \in Branch
      /\ document' \in Document
      /\ branches' \subseteq Branch
      /\ head' \in [Branch -> Document \cup {NoSnapshot}]
  BY SourceType, LandType DEF Recover
<1>2. [req |-> q, revision |-> Promised(q)] \in Receipt
  BY PromisedType DEF Receipt
<1> QED
  BY <1>1, <1>2 DEF Recover, Recorded, LedgerTypeOK

\* The last-owner rule keeps an owner through every change of membership.
LEMMA OwnerKept ==
    ASSUME LedgerTypeOK, ~overrun, OwnerRemains, NEW q \in Request, Apply(q)
    PROVE  OwnerRemains'
<1>1. PICK o \in Principal : role[o] = "owner"
  BY DEF OwnerRemains
<1>2. CASE q.op \notin AccessOps
  BY <1>1, <1>2 DEF Apply, RoleAfter, OwnerRemains
<1>3. CASE q.op \in AccessOps
  <2>1. role' = [role EXCEPT ![q.who] = q.as] /\ AccessAdmits(q, role)
    BY <1>3 DEF Apply, RoleAfter, Admits
  <2>2. CASE o # q.who \/ q.as = "owner"
    BY <1>1, <2>1, <2>2 DEF LedgerTypeOK, OwnerRemains, Request
  <2>3. CASE o = q.who /\ q.as # "owner"
    <3>1. PICK p \in Principal \ {q.who} : role[p] = "owner"
      BY <1>1, <1>3, <2>1, <2>3 DEF AccessAdmits
    <3> QED
      BY <2>1, <3>1 DEF LedgerTypeOK, OwnerRemains
  <2> QED
    BY <2>2, <2>3
<1> QED
  BY <1>2, <1>3

\* A new receipt occupies a slot that was free.
LEMMA SlotsKept ==
    ASSUME OneReceiptPerSlot, NEW q, NEW n, Free(q),
           receipts' = receipts \cup {[req |-> q, revision |-> n]}
    PROVE  OneReceiptPerSlot'
BY DEF OneReceiptPerSlot, Free

\* A step that raises the revision adds the receipt that accounts for it.
LEMMA AccountedAfterRise ==
    ASSUME LedgerTypeOK, Accounted, NEW q \in Request, q.rev = revision,
           revision' = revision + 1,
           receipts' = receipts \cup {[req |-> q, revision |-> revision + 1]}
    PROVE  Accounted'
<1> DEFINE new == [req |-> q, revision |-> revision + 1]
<1>1. \A r \in receipts : r.req.rev \in Nat /\ r.revision \in Nat
  BY DEF LedgerTypeOK, Receipt, Request
<1>2. revision \in Nat
  BY DEF LedgerTypeOK
<1>3. Produced(new) /\ new.revision = revision + 1 /\ new.req.rev = revision
  BY DEF Produced
<1>4. \A r \in receipts' : /\ r.revision \in {r.req.rev, r.req.rev + 1}
                            /\ r.revision <= revision'
  BY <1>1, <1>2, <1>3 DEF Accounted
<1>5. \A n \in 1..revision' : \E r \in receipts' : Produced(r) /\ r.revision = n
  <2> SUFFICES ASSUME NEW n \in 1..revision'
               PROVE  \E r \in receipts' : Produced(r) /\ r.revision = n
    OBVIOUS
  <2>1. CASE n = revision + 1
    BY <1>3, <2>1
  <2>2. CASE n # revision + 1
    <3>1. n \in 1..revision
      BY <1>2, <2>2
    <3> QED
      BY <3>1 DEF Accounted
  <2> QED
    BY <2>1, <2>2
<1>6. \A r, s \in receipts' :
          Produced(r) /\ Produced(s) /\ r.revision = s.revision => r = s
  <2>1. \A r \in receipts : r.revision # new.revision
    BY <1>1, <1>2, <1>3 DEF Accounted
  <2> QED
    BY <2>1 DEF Accounted
<1>7. \A r : Produced(r)' <=> Produced(r)
  BY DEF Produced
<1> QED
  BY <1>4, <1>5, <1>6, <1>7 DEF Accounted

\* A checkout of the active branch adds a receipt that produced no revision.
LEMMA AccountedAfterStay ==
    ASSUME LedgerTypeOK, Accounted, NEW q \in Request, q.rev = revision,
           revision' = revision,
           receipts' = receipts \cup {[req |-> q, revision |-> revision]}
    PROVE  Accounted'
<1> DEFINE new == [req |-> q, revision |-> revision]
<1>1. revision \in Nat
  BY DEF LedgerTypeOK
<1>2. ~Produced(new) /\ new.revision = revision /\ new.req.rev = revision
  BY <1>1 DEF Produced
<1>3. \A r : Produced(r)' <=> Produced(r)
  BY DEF Produced
<1>4. \A r \in receipts' : /\ r.revision \in {r.req.rev, r.req.rev + 1}
                            /\ r.revision <= revision'
  BY <1>1, <1>2 DEF Accounted
<1>5. \A n \in 1..revision' : \E r \in receipts' : Produced(r) /\ r.revision = n
  BY DEF Accounted
<1>6. \A r, s \in receipts' :
          Produced(r) /\ Produced(s) /\ r.revision = s.revision => r = s
  BY <1>2 DEF Accounted
<1> QED
  BY <1>3, <1>4, <1>5, <1>6 DEF Accounted

\* The atomic steps keep the account and everything else, the receipts aside.
LEMMA OrderedKept ==
    ASSUME ~overrun, Ordered, NEW q \in Workload, Apply(q) \/ Recover(q)
    PROVE  Ordered'
<1> USE DEF Ordered
<1>1. q \in Request
  BY WorkloadAssumption
<1>2. Accounted
  BY DEF RevisionsAccounted
<1>3. CASE Apply(q)
  <2>1. LedgerTypeOK' /\ OwnerRemains'
    BY <1>1, <1>3, ApplyType, OwnerKept
  <2>2. (active \in branches)'
    BY <1>3 DEF Apply
  <2>3. Accounted'
    BY <1>1, <1>2, <1>3, AccountedAfterRise DEF Apply
  <2> QED
    BY <2>1, <2>2, <2>3 DEF RevisionsAccounted
<1>4. CASE Recover(q)
  <2>1. LedgerTypeOK'
    BY <1>1, <1>4, RecoverType
  <2>2. OwnerRemains'
    BY <1>4 DEF Recover, OwnerRemains
  <2>3. (active \in branches)'
    BY <1>4 DEF Recover, Recoverable, Land, Fork, Checkout, Restore, NewBranch
  <2>4. q.rev = revision /\ revision' = Promised(q)
    BY <1>1, <1>4, LandPromised DEF Recover
  <2>5. receipts' = receipts \cup {[req |-> q, revision |-> revision']}
    BY <1>4, <2>4 DEF Recover, Recorded
  <2>6. revision' = revision + 1 \/ revision' = revision
    BY <2>4 DEF Promised
  <2>7. Accounted'
    BY <1>1, <1>2, <2>4, <2>5, <2>6, AccountedAfterRise, AccountedAfterStay
  <2> QED
    BY <2>1, <2>2, <2>3, <2>7 DEF RevisionsAccounted
<1> QED
  BY <1>3, <1>4

\* Every step of the ledger keeps the invariant.
LEMMA LedgerStepInv == LedgerInv /\ [LedgerNext]_ledgerVars => LedgerInv'
<1> SUFFICES ASSUME LedgerInv, [LedgerNext]_ledgerVars PROVE LedgerInv'
  OBVIOUS
<1>1. ASSUME NEW q \in Workload, Apply(q) \/ Recover(q) PROVE LedgerInv'
  <2>1. OneReceiptPerSlot'
    BY <1>1, SlotsKept DEF LedgerInv, Apply, Recover, Recorded
  <2>2. overrun' = overrun
    BY <1>1 DEF Apply, Recover
  <2> QED
    BY <1>1, <2>1, <2>2, OrderedKept DEF LedgerInv
<1>2. ASSUME NEW q \in Workload, Unordered(q) PROVE LedgerInv'
  <2>1. OneReceiptPerSlot'
    BY <1>2, SlotsKept DEF LedgerInv, Unordered, Recorded
  <2> QED
    BY <1>2, <2>1 DEF LedgerInv, Unordered
<1>3. CASE UNCHANGED ledgerVars
  BY <1>3 DEF LedgerInv, Ordered, LedgerTypeOK, OwnerRemains, OneReceiptPerSlot,
              RevisionsAccounted, Accounted, Produced, ledgerVars
<1> QED
  BY <1>1, <1>2, <1>3 DEF LedgerNext

\* The ledger has at most one receipt per idempotency slot, and until a recovery
\* overruns it an owner and exactly one receipt that produced each revision.
THEOREM LedgerInvariant == LedgerSpec => []LedgerInv
BY LedgerInitInv, LedgerStepInv, PTL DEF LedgerSpec

-----------------------------------------------------------------------------
(* The action guarantees *)

\* A receipt is only added for a principal with the role it takes (_write, 958).
LEMMA LedgerAuthorised == [LedgerNext]_ledgerVars => AuthorisedStep
BY DEF LedgerNext, ledgerVars, Apply, Recover, Recorded, Unordered, AuthorisedStep

\* A step that stays on the branch only adds effects.
LEMMA LedgerKeeping == LedgerInv /\ [LedgerNext]_ledgerVars => KeepingStep
<1> SUFFICES ASSUME LedgerInv, [LedgerNext]_ledgerVars, ~overrun', active' = active
             PROVE  document.applied \subseteq document'.applied
  BY DEF KeepingStep
<1>1. ASSUME NEW q \in Workload, Apply(q)
      PROVE  document.applied \subseteq document'.applied
  BY <1>1 DEF Apply, Effect
<1>2. ASSUME NEW q \in Workload, Recover(q) PROVE document' = document
  <2>1. ~overrun /\ active \in branches
    BY <1>2 DEF LedgerInv, Ordered, Recover
  <2> QED
    BY <1>2, <2>1 DEF Recover, Land, Fork, Checkout, Restore, NewBranch
<1>3. \A q \in Workload : ~Unordered(q)
  BY DEF Unordered
<1> QED
  BY <1>1, <1>2, <1>3 DEF LedgerNext, ledgerVars

\* A step beside an open conversation is a step of that conversation.
LEMMA LedgerFrozen == [LedgerNext]_ledgerVars => FrozenStep
<1> SUFFICES ASSUME [LedgerNext]_ledgerVars, ~overrun', document.open # {}
             PROVE  /\ \A r \in receipts' \ receipts :
                          r.req.op \in NpcOps \cup {"settle.close"}
                    /\ role' = role /\ active' = active /\ branches' = branches
  BY DEF FrozenStep
<1>1. ASSUME NEW q \in Workload, Apply(q)
      PROVE  /\ q.op \in NpcOps \cup {"settle.close"}
             /\ role' = role
  <2>1. q.op \in NpcOps \cup {"settle.close"}
    BY <1>1 DEF Apply, Admits, ConversationAdmits
  <2> QED
    BY <1>1, <2>1 DEF Apply, RoleAfter, AccessOps, NpcOps
<1>2. \A q \in Workload : ~Recover(q) /\ ~Unordered(q)
  BY DEF Recover, Unordered
<1> QED
  BY <1>1, <1>2 DEF LedgerNext, ledgerVars, Apply
==============================================================================
