------------------------- MODULE CampaignWriteProofs -------------------------
(***************************************************************************)
(* Proofs about the write path, for any number of handlers, principals,    *)
(* branches, conversations and requests.                                   *)
(*                                                                         *)
(* The argument: as long as no recovery has landed late, a step either     *)
(* leaves the revision, and with it document, roles, branches and heads,   *)
(* as they are, or raises the revision by one (CommitShape).  A request    *)
(* never names a revision later than the one at which its handler began.   *)
(* So if the conditional UPDATE finds the revision the request names, or a *)
(* recovery lands on it, nothing the handler read since it began has       *)
(* changed (InFlight), and the commit is the atomic step of the ledger.    *)
(* What the ledger preserves, the write path then preserves as well.       *)
(*                                                                         *)
(* Answers and retries need AnswerInv: a retry under way has its receipt,  *)
(* gets past no lookup, and can therefore not commit a second time.  This  *)
(* half of the argument does not need the revision, and holds whether or   *)
(* not recoveries land late.                                               *)
(***************************************************************************)
EXTENDS CampaignWrite, CampaignLedgerProofs

\* The placeholder of an idle handler is a request of the workload.
LEMMA NoRequestType == NoRequest \in Workload
BY WorkloadAssumption DEF NoRequest

-----------------------------------------------------------------------------
(* Type correctness *)

\* The initial state is typed.
LEMMA TypeInit == Init => TypeOK
<1> SUFFICES ASSUME Init PROVE TypeOK
  OBVIOUS
<1>1. LedgerTypeOK
  BY RootAssumption, MembersAssumption, EmptyDocumentType
  DEF Init, LedgerInit, LedgerTypeOK
<1>2. CallTypeOK
  BY NoRequestType, EmptyDocumentType DEF Init, CallTypeOK, PC, Outcome, TypeOK, LedgerTypeOK
<1> QED
  BY <1>1, <1>2 DEF TypeOK, LedgerTypeOK, CallTypeOK

\* What a commit does to the types, for the ordinary and the recovery commit.
LEMMA CommitType ==
    ASSUME TypeOK, NEW c \in Call, Commit(c)
    PROVE  TypeOK'
<1> DEFINE q == req[c]
<1>1. q \in Workload /\ q \in Request
  BY WorkloadAssumption DEF TypeOK, LedgerTypeOK, CallTypeOK
<1>2. document' \in Document
  <2>1. (IF q.op = "snapshot" THEN document ELSE read[c]) \in Document /\ seen[c] \in Nat
    BY DEF TypeOK, LedgerTypeOK, CallTypeOK
  <2> QED
    BY <1>1, <2>1, EffectType DEF Commit
<1>3. role' \in [Principal -> Standing]
  BY <1>1, RoleAfterType DEF Commit, TypeOK, LedgerTypeOK, CallTypeOK
<1>4. head' \in [Branch -> Document \cup {NoSnapshot}]
  BY <1>2 DEF Commit, TypeOK, LedgerTypeOK, CallTypeOK
<1>5. [req |-> q, revision |-> revision + 1] \in Receipt
  BY <1>1 DEF TypeOK, Receipt, LedgerTypeOK, CallTypeOK
<1>6. LedgerTypeOK'
  BY <1>2, <1>3, <1>4, <1>5 DEF Commit, TypeOK, LedgerTypeOK, CallTypeOK
<1>7. CallTypeOK'
  BY DEF Commit, TypeOK, CallTypeOK, PC, Outcome, LedgerTypeOK
<1> QED
  BY <1>6, <1>7 DEF TypeOK, LedgerTypeOK, CallTypeOK

\* The same for a recovery transaction of the core.
LEMMA CoreCommitType ==
    ASSUME TypeOK, NEW c \in Call, CoreCommit(c)
    PROVE  TypeOK'
<1> DEFINE q == req[c]
<1>1. q \in Workload /\ q \in Request /\ read[c] \in Document
  BY WorkloadAssumption DEF TypeOK, LedgerTypeOK, CallTypeOK
<1>2. /\ revision' \in Nat
      /\ active' \in Branch
      /\ document' \in Document
      /\ branches' \subseteq Branch
      /\ head' \in [Branch -> Document \cup {NoSnapshot}]
  BY <1>1, LandType DEF TypeOK, CoreCommit
<1>3. Promised(q) \in Nat
  BY <1>1, PromisedType
<1>4. receipts' \subseteq Receipt
  <2>1. [req |-> q, revision |-> Promised(q)] \in Receipt
    BY <1>1, <1>3 DEF Receipt
  <2> QED
    BY <2>1 DEF CoreCommit, Recorded, TypeOK, LedgerTypeOK
<1>5. overrun' \in BOOLEAN
  <2>1. overrun' = (overrun \/ LandsLate(q))
    BY Zenon DEF CoreCommit
  <2> QED
    BY <2>1, Zenon
<1>6. LedgerTypeOK'
  BY <1>2, <1>4, <1>5 DEF CoreCommit, TypeOK, LedgerTypeOK
<1>7. CallTypeOK'
  BY <1>3 DEF CoreCommit, TypeOK, CallTypeOK, PC, Outcome
<1> QED
  BY <1>6, <1>7 DEF TypeOK

\* Every other step of a handler leaves the ledger alone.
LEMMA LocalType ==
    ASSUME TypeOK, UNCHANGED ledgerVars, NEW c \in Call,
           \/ Begin(c) \/ Miss(c) \/ Replay(c) \/ RefuseReuse(c) \/ RefuseStale(c)
           \/ RefuseMutation(c) \/ Prepare(c) \/ LoseRace(c) \/ CoreRead(c)
           \/ CoreRefuse(c) \/ CoreAnswer(c) \/ Leave(c)
    PROVE  TypeOK'
<1>1. LedgerTypeOK'
  BY DEF TypeOK, LedgerTypeOK, ledgerVars, CallTypeOK
<1>2. CASE Begin(c)
  BY <1>2 DEF Begin, TypeOK, CallTypeOK, ledgerVars, PC, Outcome, FirstStep, Remembered, LedgerTypeOK
<1>3. CASE Miss(c)
  BY <1>3 DEF Miss, TypeOK, CallTypeOK, ledgerVars, PC, LedgerTypeOK
<1>4. CASE Replay(c)
  BY <1>4 DEF Replay, Finish, TypeOK, CallTypeOK, ledgerVars, PC, Outcome, Receipt, LedgerTypeOK
<1>5. CASE RefuseReuse(c) \/ RefuseStale(c) \/ RefuseMutation(c) \/ LoseRace(c) \/ CoreRefuse(c)
  BY <1>5 DEF RefuseReuse, RefuseStale, RefuseMutation, LoseRace, CoreRefuse, Finish, TypeOK, CallTypeOK, ledgerVars, PC, Outcome, LedgerTypeOK
<1>6. CASE Prepare(c)
  BY <1>6 DEF Prepare, TypeOK, CallTypeOK, ledgerVars, PC, LedgerTypeOK
<1>8. CASE CoreRead(c)
  <2>1. req[c] \in Request
    BY WorkloadAssumption DEF TypeOK, CallTypeOK
  <2>2. Source(req[c]) \in Document
    BY <1>8, <2>1, SourceType DEF CoreRead, CoreApplies, TypeOK
  <2>3. read' \in [Call -> Document]
    BY <1>8, <2>2 DEF CoreRead, TypeOK, CallTypeOK
  <2> QED
    BY <1>1, <1>8, <2>3 DEF CoreRead, TypeOK, CallTypeOK, PC
<1>9. CASE CoreAnswer(c)
  BY <1>1, <1>9 DEF CoreAnswer, Finish, TypeOK, CallTypeOK, LedgerTypeOK, PC, Outcome
<1>7. CASE Leave(c)
  <2>1. retry' \in [Call -> BOOLEAN]
    BY <1>7, Zenon DEF Leave, TypeOK, ledgerVars, LedgerTypeOK, CallTypeOK
  <2>2. req' \in [Call -> Workload]
    <3>1. req' = [req EXCEPT ![c] = NoRequest]
      BY <1>7 DEF Leave
    <3> QED
      BY <3>1, NoRequestType DEF TypeOK, LedgerTypeOK, CallTypeOK
  <2>3. read' \in [Call -> Document]
    <3>1. read' = [read EXCEPT ![c] = EmptyDocument]
      BY <1>7 DEF Leave
    <3> QED
      BY <3>1, EmptyDocumentType DEF TypeOK, LedgerTypeOK, CallTypeOK
  <2>4. pc' \in [Call -> PC] /\ seen' \in [Call -> Nat] /\ outcome' \in [Call -> Outcome]
    BY <1>7 DEF Leave, TypeOK, ledgerVars, PC, Outcome, LedgerTypeOK, CallTypeOK
  <2> QED
    BY <1>1, <2>1, <2>2, <2>3, <2>4 DEF TypeOK, CallTypeOK, LedgerTypeOK
<1> QED
  BY <1>1, <1>2, <1>3, <1>4, <1>5, <1>6, <1>7, <1>8, <1>9 DEF TypeOK, LedgerTypeOK, CallTypeOK

\* The steps of a handler that write nothing.
LocalStep(c) ==
    \/ Begin(c) \/ Miss(c) \/ Replay(c) \/ RefuseReuse(c) \/ RefuseStale(c)
    \/ RefuseMutation(c) \/ Prepare(c) \/ LoseRace(c) \/ CoreRead(c)
    \/ CoreRefuse(c) \/ CoreAnswer(c) \/ Leave(c)

\* The steps before and after the commit leave the ledger alone.
LEMMA LocalStepsLocal == ASSUME NEW c \in Call, LocalStep(c) PROVE UNCHANGED ledgerVars
BY DEF LocalStep, Begin, Miss, Replay, RefuseReuse, RefuseStale, RefuseMutation,
       Prepare, LoseRace, CoreRead, CoreRefuse, CoreAnswer, Leave, Finish

\* A step of a handler is local, a commit or a commit of the core.
LEMMA StepCases ==
    ASSUME Next PROVE \E c \in Call : LocalStep(c) \/ Commit(c) \/ CoreCommit(c)
BY DEF Next, LocalStep

\* Every step keeps the types.
LEMMA TypeStep == TypeOK /\ [Next]_vars => TypeOK'
<1> SUFFICES ASSUME TypeOK, [Next]_vars PROVE TypeOK'
  OBVIOUS
<1>1. CASE UNCHANGED vars
  BY <1>1 DEF TypeOK, LedgerTypeOK, CallTypeOK, vars, ledgerVars, callVars
<1>2. CASE Next
  <2>1. PICK c \in Call : LocalStep(c) \/ Commit(c) \/ CoreCommit(c)
    BY <1>2, StepCases
  <2>2. CASE LocalStep(c)
    BY <2>2, LocalType, LocalStepsLocal DEF LocalStep
  <2> QED
    BY <2>1, <2>2, CommitType, CoreCommitType
<1> QED
  BY <1>1, <1>2

\* Every variable keeps its type.
THEOREM TypeCorrect == Spec => []TypeOK
BY TypeInit, TypeStep, PTL DEF Spec

-----------------------------------------------------------------------------
(* What a handler in flight can rely on *)

\* A commit either raises the revision or writes nothing but the receipt of a
\* recovery operation.
Rises == revision' = revision + 1
Stays ==
    /\ revision' = revision /\ document' = document /\ role' = role /\ active' = active
    /\ branches' = branches /\ head' = head
    /\ \A r \in receipts' \ receipts : r.req.op \in RecoveryOps

\* What a commit does to the ledger that the handlers in flight can see, unless it
\* lands late.
LEMMA CommitShape ==
    ASSUME NEW c \in Call, Commit(c) \/ CoreCommit(c), ~overrun'
    PROVE  Rises \/ Stays
<1>1. CASE Commit(c)
  BY <1>1 DEF Commit, Rises
<1>2. CASE CoreCommit(c)
  <2>1. req[c].rev = revision
    BY <1>2 DEF CoreCommit, LandsLate, Current
  <2> QED
    BY <1>2, <2>1 DEF CoreCommit, Land, Fork, Checkout, Restore, NextRevision, Recorded,
                      Rises, Stays, RecoveryOps
<1> QED
  BY <1>1, <1>2

\* A handler that does not move keeps what it relies on.
LEMMA OthersInFlight ==
    ASSUME TypeOK, NEW d \in Call, Route(d), InFlight(d), Rises \/ Stays,
           pc'[d] = pc[d], req'[d] = req[d], seen'[d] = seen[d], read'[d] = read[d]
    PROVE  InFlight(d)'
<1> DEFINE q == req[d]
<1>1. q.rev \in Nat /\ seen[d] \in Nat /\ revision \in Nat
  BY WorkloadAssumption DEF TypeOK, LedgerTypeOK, CallTypeOK, Request
<1>2. CASE Rises
  BY <1>1, <1>2 DEF InFlight, Rises
<1>3. CASE Stays
  <2>1. Denied(q)' <=> Denied(q)
    BY <1>3 DEF Stays, Denied
  <2>2. q.op \notin RecoveryOps /\ ~SlotTaken(q) => ~SlotTaken(q)'
    BY <1>3 DEF Stays, SlotTaken, Slot, Scope, SettleOps, RecoveryOps
  <2>3. pc[d] = "commit" => q.op \notin RecoveryOps
    BY DEF Route
  <2>4. /\ revision' = revision /\ document' = document /\ role' = role
        /\ active' = active /\ branches' = branches /\ head' = head
    BY <1>3 DEF Stays
  <2>5. (Recoverable(q) <=> Recoverable(q)') /\ Source(q)' = Source(q)
    BY <2>4 DEF Recoverable, Source
  <2>6. /\ seen[d] = revision => ~Denied(q) /\ (q.op \in RecoveryOps => document.open = {})
        /\ q.rev <= seen[d] /\ seen[d] <= revision
        /\ pc[d] = "commit" /\ q.rev = revision =>
             /\ read[d] = document /\ q.branch = active
             /\ ~SlotTaken(q) /\ Admits(q, document, role)
        /\ pc[d] = "land" /\ q.rev = revision =>
             q.branch = active /\ Recoverable(q) /\ read[d] = Source(q)
    BY DEF InFlight
  <2> QED
    BY <2>1, <2>2, <2>3, <2>4, <2>5, <2>6 DEF InFlight
<1> QED
  BY <1>2, <1>3

\* The handler that moves without writing, if it is still in flight.
LEMMA MoverInFlight ==
    ASSUME TypeOK, ~overrun, InFlightValid, NEW c \in Call, LocalStep(c), pc'[c] \in Flying
    PROVE  InFlight(c)'
<1>1. UNCHANGED ledgerVars
  BY LocalStepsLocal
<1>2. CASE Begin(c)
  <2>1. PICK q \in Workload :
          /\ q.rev <= revision /\ ~Denied(q) /\ ~BlockedEarly(q)
          /\ req' = [req EXCEPT ![c] = q]
          /\ seen' = [seen EXCEPT ![c] = revision]
          /\ pc' = [pc EXCEPT ![c] = FirstStep(q)]
    BY <1>2 DEF Begin, TypeOK, CallTypeOK, Flying
  <2>2. req'[c] = q /\ seen'[c] = revision /\ pc'[c] = FirstStep(q)
    BY <2>1 DEF TypeOK, CallTypeOK
  <2>3. revision' = revision /\ document' = document /\ role' = role
    BY <1>1 DEF ledgerVars
  <2>4. revision \in Nat
    BY DEF TypeOK, LedgerTypeOK
  <2>5. q.op \in RecoveryOps => document.open = {}
    BY <2>1 DEF BlockedEarly
  <2>6. pc'[c] \notin {"core", "land", "commit"}
    BY <2>2 DEF FirstStep
  <2> QED
    BY <2>1, <2>2, <2>3, <2>4, <2>5, <2>6 DEF InFlight, Denied
<1>3. CASE Miss(c)
  <2>1. /\ req'[c] = req[c] /\ seen'[c] = seen[c]
        /\ pc[c] = "lookup"
        /\ pc'[c] = IF req[c].op \in RecoveryOps THEN "core" ELSE "txn"
    BY <1>3 DEF Miss, TypeOK, CallTypeOK
  <2>2. InFlight(c)
    BY <2>1 DEF InFlightValid, Flying
  <2> QED
    BY <1>1, <2>1, <2>2 DEF InFlight, Denied, ledgerVars
<1>4. CASE Prepare(c)
  <2>1. /\ req'[c] = req[c] /\ seen'[c] = seen[c] /\ read'[c] = document
        /\ pc[c] = "txn" /\ pc'[c] = "commit"
        /\ ~SlotTaken(req[c]) /\ Current(req[c]) /\ Admits(req[c], document, role)
    BY <1>4 DEF Prepare, Ready, TypeOK, CallTypeOK
  <2>2. InFlight(c)
    BY <2>1 DEF InFlightValid, Flying
  <2> QED
    BY <1>1, <2>1, <2>2 DEF InFlight, Denied, SlotTaken, Slot, Current, ledgerVars
<1>5. CASE \/ Replay(c) \/ RefuseReuse(c) \/ RefuseStale(c) \/ RefuseMutation(c)
           \/ LoseRace(c) \/ CoreRefuse(c) \/ CoreAnswer(c) \/ Leave(c)
  BY <1>5 DEF Replay, RefuseReuse, RefuseStale, RefuseMutation, LoseRace, CoreRefuse,
              CoreAnswer, Leave, Finish, TypeOK, CallTypeOK, Flying
<1>6. CASE CoreRead(c)
  <2>1. /\ req'[c] = req[c] /\ seen'[c] = seen[c] /\ read'[c] = Source(req[c])
        /\ pc[c] = "core" /\ pc'[c] = "land"
        /\ Current(req[c]) /\ Recoverable(req[c])
    BY <1>6 DEF CoreRead, CoreApplies, TypeOK, CallTypeOK
  <2>2. InFlight(c)
    BY <2>1 DEF InFlightValid, Flying
  <2>3. Source(req[c])' = Source(req[c]) /\ (Recoverable(req[c])' <=> Recoverable(req[c]))
    BY <1>1, <1>6 DEF CoreRead, Source, Recoverable, ledgerVars
  <2> QED
    BY <1>1, <2>1, <2>2, <2>3 DEF InFlight, Denied, Current, ledgerVars
<1> QED
  BY <1>2, <1>3, <1>4, <1>5, <1>6 DEF LocalStep

\* The handler that moves keeps to its route.
LEMMA MoverRoute ==
    ASSUME TypeOK, InFlightValid, NEW c \in Call, LocalStep(c), pc'[c] \in Flying
    PROVE  Route(c)'
<1> USE DEF TypeOK, CallTypeOK
<1>1. CASE Begin(c)
  <2>1. PICK q \in Workload : /\ req' = [req EXCEPT ![c] = q]
                              /\ pc' = [pc EXCEPT ![c] = FirstStep(q)]
    BY <1>1 DEF Begin, Flying
  <2> QED
    BY <2>1 DEF Route, FirstStep
<1>2. CASE Miss(c) \/ Prepare(c) \/ CoreRead(c)
  <2>1. Route(c)
    BY <1>2 DEF Miss, Prepare, Ready, CoreRead, InFlightValid, Flying
  <2> QED
    BY <1>2, <2>1 DEF Miss, Prepare, Ready, CoreRead, Route
<1>3. CASE \/ Replay(c) \/ RefuseReuse(c) \/ RefuseStale(c) \/ RefuseMutation(c)
           \/ LoseRace(c) \/ CoreRefuse(c) \/ CoreAnswer(c) \/ Leave(c)
  BY <1>3 DEF Replay, RefuseReuse, RefuseStale, RefuseMutation, LoseRace, CoreRefuse,
              CoreAnswer, Leave, Finish, Flying
<1> QED
  BY <1>1, <1>2, <1>3 DEF LocalStep

\* A step of one handler moves no other.
LEMMA OthersStay ==
    ASSUME TypeOK, NEW c \in Call, LocalStep(c) \/ Commit(c) \/ CoreCommit(c),
           NEW d \in Call, d # c
    PROVE  pc'[d] = pc[d] /\ req'[d] = req[d] /\ seen'[d] = seen[d] /\ read'[d] = read[d]
<1> USE DEF TypeOK, CallTypeOK
<1>1. CASE Begin(c) \/ Miss(c) \/ Prepare(c) \/ CoreRead(c) \/ Leave(c)
  BY <1>1 DEF Begin, Miss, Prepare, CoreRead, Leave
<1>2. CASE \/ Replay(c) \/ RefuseReuse(c) \/ RefuseStale(c) \/ RefuseMutation(c)
           \/ LoseRace(c) \/ CoreRefuse(c) \/ CoreAnswer(c)
  BY <1>2 DEF Replay, RefuseReuse, RefuseStale, RefuseMutation, LoseRace, CoreRefuse,
              CoreAnswer, Finish
<1>3. CASE Commit(c) \/ CoreCommit(c)
  BY <1>3 DEF Commit, CoreCommit
<1> QED
  BY <1>1, <1>2, <1>3 DEF LocalStep

\* No handler is in flight at first.
LEMMA InFlightInit == Init => InFlightValid
BY DEF Init, InFlightValid, Flying

\* Once overrun, a campaign stays so.
LEMMA OverrunStays ==
    ASSUME [Next]_vars, overrun PROVE overrun'
<1>1. CASE UNCHANGED vars
  BY <1>1 DEF vars, ledgerVars
<1>2. CASE Next
  <2>1. PICK c \in Call : LocalStep(c) \/ Commit(c) \/ CoreCommit(c)
    BY <1>2, StepCases
  <2> QED
    BY <2>1, LocalStepsLocal DEF ledgerVars, Commit, CoreCommit
<1> QED
  BY <1>1, <1>2

\* No step takes away what a handler in flight relies on.
LEMMA InFlightStep == TypeOK /\ InFlightValid /\ [Next]_vars => InFlightValid'
<1> SUFFICES ASSUME TypeOK, InFlightValid, [Next]_vars PROVE InFlightValid'
  OBVIOUS
<1>0. overrun => overrun'
  BY OverrunStays
<1>1. CASE UNCHANGED vars
  BY <1>1 DEF InFlightValid, Route, InFlight, Denied, SlotTaken, Recoverable, Source, vars,
              ledgerVars, callVars
<1>2. CASE Next
  <2>1. PICK c \in Call : LocalStep(c) \/ Commit(c) \/ CoreCommit(c)
    BY <1>2, StepCases
  <2>2. overrun' \/ Rises \/ Stays
    <3>1. CASE LocalStep(c)
      BY <3>1, LocalStepsLocal DEF Stays, ledgerVars
    <3> QED
      BY <2>1, <3>1, CommitShape
  <2>3. ASSUME NEW d \in Call, d # c, pc'[d] \in Flying
        PROVE  Route(d)' /\ (overrun' \/ InFlight(d)')
    <3>1. /\ pc'[d] = pc[d] /\ req'[d] = req[d] /\ seen'[d] = seen[d]
          /\ read'[d] = read[d]
      BY <2>1, <2>3, OthersStay
    <3>2. Route(d) /\ (overrun \/ InFlight(d))
      BY <2>3, <3>1 DEF InFlightValid
    <3>3. Route(d)'
      BY <3>1, <3>2 DEF Route
    <3> QED
      BY <1>0, <2>2, <3>1, <3>2, <3>3, OthersInFlight
  <2>4. ASSUME pc'[c] \in Flying PROVE Route(c)' /\ (overrun' \/ InFlight(c)')
    <3>1. LocalStep(c)
      BY <2>1, <2>4 DEF Commit, CoreCommit, TypeOK, CallTypeOK, Flying
    <3> QED
      BY <1>0, <2>4, <3>1, MoverInFlight, MoverRoute
  <2> QED
    BY <2>3, <2>4 DEF InFlightValid, Flying
<1> QED
  BY <1>1, <1>2

\* A handler in flight relies on nothing that another handler has taken away.
THEOREM InFlightAlways == Spec => []InFlightValid
<1>1. Init => TypeOK /\ InFlightValid
  BY TypeInit, InFlightInit
<1>2. TypeOK /\ InFlightValid /\ [Next]_vars => (TypeOK /\ InFlightValid)'
  BY TypeStep, InFlightStep
<1> QED
  BY <1>1, <1>2, PTL DEF Spec

-----------------------------------------------------------------------------
(* The write path implements the ledger *)

\* A commit is the atomic effect of its request, until a recovery has landed late.
LEMMA CommitApplies ==
    ASSUME TypeOK, ~overrun, InFlightValid, NEW c \in Call, Commit(c)
    PROVE  Apply(req[c])
<1> DEFINE q == req[c]
<1>1. InFlight(c) /\ Route(c) /\ pc[c] = "commit"
  BY DEF Commit, InFlightValid, Flying
<1>2. q.rev = revision /\ q.branch = active
  BY DEF Commit, UpdateMatches
<1>3. revision \in Nat /\ seen[c] \in Nat
  BY DEF TypeOK, LedgerTypeOK, CallTypeOK
<1>4. seen[c] = revision
  BY <1>1, <1>2, <1>3 DEF InFlight
<1>5. /\ q.op \notin RecoveryOps /\ read[c] = document
      /\ ~SlotTaken(q) /\ ~Denied(q) /\ Admits(q, document, role)
  BY <1>1, <1>2, <1>4 DEF InFlight, Route
<1>6. document' = Effect(q, document, revision)
  BY <1>4, <1>5 DEF Commit
<1> QED
  BY <1>2, <1>5, <1>6 DEF Commit, Apply, Free, SlotTaken, Denied

\* A commit of the core that does not land late is the atomic recovery.
LEMMA CoreCommitRecovers ==
    ASSUME TypeOK, ~overrun', InFlightValid, NEW c \in Call, CoreCommit(c)
    PROVE  Recover(req[c])
<1> DEFINE q == req[c]
<1>1. ~overrun /\ Current(q)
  BY DEF CoreCommit, LandsLate
<1>2. q.rev = revision /\ q.branch = active /\ Free(q)
  BY <1>1 DEF CoreCommit, Current, SlotTaken, Free
<1>3. InFlight(c) /\ pc[c] = "land" /\ q.op \in RecoveryOps
  BY <1>1 DEF CoreCommit, InFlightValid, Flying, Route
<1>4. revision \in Nat /\ seen[c] \in Nat
  BY DEF TypeOK, LedgerTypeOK, CallTypeOK
<1>5. seen[c] = revision
  BY <1>2, <1>3, <1>4 DEF InFlight
<1>6. ~Denied(q) /\ document.open = {} /\ Recoverable(q) /\ read[c] = Source(q)
  BY <1>2, <1>3, <1>5 DEF InFlight
<1>7. overrun' = overrun /\ role' = role
  <2>1. overrun' = (overrun \/ LandsLate(q)) /\ role' = role
    BY Zenon DEF CoreCommit
  <2>2. overrun' = FALSE /\ overrun = FALSE
    BY <1>1, <2>1, TypeStep, Zenon DEF TypeOK, LedgerTypeOK, LandsLate
  <2> QED
    BY <2>1, <2>2, Zenon
<1> QED
  BY <1>1, <1>2, <1>6, <1>7 DEF CoreCommit, Recover, Denied

\* A commit of the core that lands late, and every commit after it, still takes a
\* free slot and leaves memberships to the access operations.
LEMMA LateCommits ==
    ASSUME TypeOK, NEW c \in Call, Commit(c) \/ CoreCommit(c), overrun',
           InFlightValid
    PROVE  Unordered(req[c])
<1> DEFINE q == req[c]
<1>1. q \in Request
  BY WorkloadAssumption DEF TypeOK, CallTypeOK
<1>2. Free(q)
  BY DEF Commit, CoreCommit, SlotTaken, Free
<1>3. CASE Commit(c)
  <2>1. overrun /\ q.op \notin RecoveryOps
    BY <1>3 DEF Commit, InFlightValid, Route, Flying
  <2>2. receipts' = receipts \cup {[req |-> q, revision |-> revision + 1]} /\ q.rev = revision
    BY <1>3 DEF Commit, UpdateMatches
  <2> QED
    BY <1>2, <1>3, <2>1, <2>2 DEF Commit, Unordered, Recorded, Promised, RecoveryOps
<1>4. CASE CoreCommit(c)
  <2>1. q.op \in RecoveryOps
    BY <1>4 DEF CoreCommit, Land, Fork, Checkout, Restore, RecoveryOps
  <2>2. role' = RoleAfter(q, role)
    BY <1>4, <2>1 DEF CoreCommit, RoleAfter, RecoveryOps, AccessOps
  <2> QED
    BY <1>2, <1>4, <2>1, <2>2 DEF CoreCommit, Unordered
<1> QED
  BY <1>3, <1>4

\* Every step of a handler is a step of the ledger or leaves it alone.
LEMMA StepSimulation == TypeOK /\ InFlightValid /\ [Next]_vars => [LedgerNext]_ledgerVars
<1> SUFFICES ASSUME TypeOK, InFlightValid, [Next]_vars PROVE [LedgerNext]_ledgerVars
  OBVIOUS
<1>1. CASE UNCHANGED vars
  BY <1>1 DEF vars
<1>2. CASE Next
  <2>1. PICK c \in Call : LocalStep(c) \/ Commit(c) \/ CoreCommit(c)
    BY <1>2, StepCases
  <2>2. req[c] \in Workload
    BY DEF TypeOK, CallTypeOK
  <2>3. CASE LocalStep(c)
    BY <2>3, LocalStepsLocal
  <2>4. CASE (Commit(c) \/ CoreCommit(c)) /\ overrun'
    BY <2>2, <2>4, LateCommits DEF LedgerNext
  <2>5. CASE Commit(c) /\ ~overrun'
    <3>1. ~overrun
      BY <2>5 DEF Commit
    <3> QED
      BY <2>2, <2>5, <3>1, CommitApplies DEF LedgerNext
  <2>6. CASE CoreCommit(c) /\ ~overrun'
    BY <2>2, <2>6, CoreCommitRecovers DEF LedgerNext
  <2> QED
    BY <2>1, <2>3, <2>4, <2>5, <2>6
<1> QED
  BY <1>1, <1>2

\* Whatever handlers race, crash and repeat, the campaign changes as if each
\* accepted request had taken effect at one instant (_write and its kin), until a
\* recovery of the core lands on a campaign it did not validate; slots and the
\* source of membership changes are safe even then.
THEOREM WriteImplementsLedger == Spec => ImplementsLedger
<1>1. Init => LedgerInit
  BY DEF Init
<1> QED
  BY <1>1, TypeCorrect, InFlightAlways, StepSimulation, PTL
  DEF Spec, LedgerSpec, ImplementsLedger

-----------------------------------------------------------------------------
(* What the write path inherits from the ledger *)

\* The write path has the ledger's invariant.
LEMMA WriteLedgerInv == Spec => []LedgerInv
BY WriteImplementsLedger, LedgerInvariant DEF ImplementsLedger

\* The campaign never loses its last owner, however access changes race, before a
\* recovery lands late (access_change, 2988).
THEOREM OwnerAlwaysRemains == Spec => []OwnerRemains
<1>1. LedgerInv => OwnerRemains
  BY DEF LedgerInv, Ordered, OwnerRemains
<1> QED
  BY <1>1, WriteLedgerInv, PTL

\* No idempotency slot takes effect twice.
THEOREM SlotsTakeEffectOnce == Spec => []OneReceiptPerSlot
<1>1. LedgerInv => OneReceiptPerSlot
  BY DEF LedgerInv
<1> QED
  BY <1>1, WriteLedgerInv, PTL

\* Every revision was produced by exactly one accepted request, before a recovery
\* lands late.
THEOREM EveryRevisionAccounted == Spec => []RevisionsAccounted
<1>1. LedgerInv => RevisionsAccounted
  BY DEF LedgerInv, Ordered, RevisionsAccounted
<1> QED
  BY <1>1, WriteLedgerInv, PTL

\* Seen from the handlers, every step is one of the ledger or a stutter.
LEMMA StepsAreLedgerSteps == Spec => [][[LedgerNext]_ledgerVars]_vars
BY TypeCorrect, InFlightAlways, StepSimulation, PTL DEF Spec

\* The role checked outside the transaction still holds at the commit, for every
\* ordinary write and every recovery, before one lands late.
THEOREM AuthorityHolds == Spec => AuthorityAtCommit
BY StepsAreLedgerSteps, LedgerAuthorised, PTL DEF AuthorityAtCommit

\* No write loses the effect of another that committed before it, before a
\* recovery lands late.
THEOREM UpdatesAreKept == Spec => NoLostUpdate
BY StepsAreLedgerSteps, WriteLedgerInv, LedgerKeeping, PTL DEF NoLostUpdate

\* An open conversation freezes everything but the conversation, before a recovery
\* lands late.
THEOREM OpenConversationFreezes == Spec => FrozenWhileOpen
BY StepsAreLedgerSteps, LedgerFrozen, PTL DEF FrozenWhileOpen
-----------------------------------------------------------------------------
(* Receipts and retries *)

\* A retry that is under way has its receipt; it gets past no lookup, and to the
\* transaction only if the transaction is where its operation first looks.
RetrySound(c) ==
    retry[c] => /\ Remembered(req[c])
                /\ pc[c] \in {"lookup", "txn", "done"}
                /\ pc[c] = "txn" => req[c].op \notin SettleOps

\* A handler that has committed a fork or a checkout has its receipt, of a
\* revision that the campaign has reached.
Pending(c) ==
    pc[c] = "answer" => \E r \in receipts : r.req = req[c] /\ (overrun \/ r.revision <= revision)

AnswerInv == ReceiptIsFaithful /\ RetryHonoured /\ \A c \in Call : RetrySound(c) /\ Pending(c)

\* Only Begin and Leave change the request a handler serves.
LEMMA RetryKept ==
    ASSUME NEW c \in Call, LocalStep(c) \/ Commit(c) \/ CoreCommit(c), ~Begin(c), ~Leave(c)
    PROVE  retry' = retry /\ req' = req
<1>1. CASE LocalStep(c)
  <2>1. \/ Miss(c) \/ Replay(c) \/ RefuseReuse(c) \/ RefuseStale(c) \/ RefuseMutation(c)
        \/ Prepare(c) \/ LoseRace(c) \/ CoreRead(c) \/ CoreRefuse(c) \/ CoreAnswer(c)
    BY <1>1, Zenon DEF LocalStep
  <2> QED
    BY <2>1, Zenon DEF Miss, Replay, RefuseReuse, RefuseStale, RefuseMutation, Prepare,
                       LoseRace, CoreRead, CoreRefuse, CoreAnswer, Finish
<1>2. CASE Commit(c) \/ CoreCommit(c)
  BY <1>2, Zenon DEF Commit, CoreCommit
<1> QED
  BY <1>1, <1>2

\* A step of one handler answers for no other.
LEMMA OthersUnanswered ==
    ASSUME TypeOK, NEW c \in Call, LocalStep(c) \/ Commit(c) \/ CoreCommit(c),
           NEW d \in Call, d # c
    PROVE  outcome'[d] = outcome[d] /\ retry'[d] = retry[d]
<1>1. outcome'[d] = outcome[d]
  <2>1. CASE Begin(c) \/ Leave(c) \/ Miss(c) \/ Prepare(c) \/ CoreRead(c)
    BY <2>1 DEF TypeOK, CallTypeOK, Begin, Leave, Miss, Prepare, CoreRead
  <2>2. CASE \/ Replay(c) \/ RefuseReuse(c) \/ RefuseStale(c) \/ RefuseMutation(c)
             \/ LoseRace(c) \/ CoreRefuse(c) \/ CoreAnswer(c)
    BY <2>2 DEF TypeOK, CallTypeOK, Replay, RefuseReuse, RefuseStale, RefuseMutation,
                LoseRace, CoreRefuse, CoreAnswer, Finish
  <2>3. CASE Commit(c) \/ CoreCommit(c)
    BY <2>3 DEF TypeOK, CallTypeOK, Commit, CoreCommit
  <2> QED
    BY <2>1, <2>2, <2>3 DEF LocalStep
<1>2. CASE Begin(c)
  <2>1. PICK v : retry' = [retry EXCEPT ![c] = v]
    BY <1>2, Zenon DEF Begin
  <2>2. retry'[d] = retry[d]
    BY <2>1, Zenon DEF TypeOK, CallTypeOK
  <2> QED
    BY <1>1, <2>2
<1>3. CASE Leave(c)
  <2>1. retry' = [retry EXCEPT ![c] = FALSE]
    BY <1>3, Zenon DEF Leave
  <2>2. retry'[d] = retry[d]
    BY <2>1, Zenon DEF TypeOK, CallTypeOK
  <2> QED
    BY <1>1, <2>2
<1>4. CASE ~Begin(c) /\ ~Leave(c)
  <2>1. retry' = retry
    BY <1>4, RetryKept
  <2> QED
    BY <1>1, <2>1
<1> QED
  BY <1>2, <1>3, <1>4

\* Receipts are only added.
LEMMA ReceiptsGrow ==
    ASSUME NEW c \in Call, LocalStep(c) \/ Commit(c) \/ CoreCommit(c)
    PROVE  receipts \subseteq receipts'
<1>1. CASE LocalStep(c)
  BY <1>1, LocalStepsLocal DEF ledgerVars
<1>2. CASE Commit(c) \/ CoreCommit(c)
  BY <1>2 DEF Commit, CoreCommit, Recorded
<1> QED
  BY <1>1, <1>2

\* Until a recovery lands late the revision never falls, and it never stops being
\* late once one has.
LEMMA RevisionNeverFalls ==
    ASSUME TypeOK, NEW c \in Call, LocalStep(c) \/ Commit(c) \/ CoreCommit(c)
    PROVE  overrun' \/ (~overrun /\ revision \in Nat /\ revision' \in Nat /\ revision' >= revision)
<1> SUFFICES ASSUME ~overrun'
             PROVE  ~overrun /\ revision \in Nat /\ revision' \in Nat /\ revision' >= revision
  OBVIOUS
<1>1. ~overrun
  <2>1. CASE LocalStep(c)
    BY <2>1, LocalStepsLocal DEF ledgerVars
  <2>2. CASE Commit(c)
    BY <2>2 DEF Commit
  <2>3. CASE CoreCommit(c)
    BY <2>3, Zenon DEF CoreCommit
  <2> QED
    BY <2>1, <2>2, <2>3
<1>2. revision \in Nat
  BY DEF TypeOK, LedgerTypeOK
<1>3. revision' = revision \/ revision' = revision + 1
  <2>1. CASE LocalStep(c)
    BY <2>1, LocalStepsLocal DEF ledgerVars
  <2>2. CASE Commit(c) \/ CoreCommit(c)
    BY <2>2, CommitShape DEF Rises, Stays
  <2> QED
    BY <2>1, <2>2
<1> QED
  BY <1>1, <1>2, <1>3

\* What the answer of handler d may rest on: its own receipt, or for a fork or a
\* checkout one of its request that the campaign has reached.
Backed(d) ==
    pc[d] = "done" =>
        /\ outcome[d] = "receipt" => [req |-> req[d], revision |-> seen[d]] \in receipts
        /\ outcome[d] = "later" =>
              \E r \in receipts : r.req = req[d] /\ (overrun \/ r.revision <= seen[d])

\* The handler that moves answers with its own receipt, or finds it when it reads
\* the revision of its answer.
LEMMA MoverFaithful ==
    ASSUME TypeOK, NEW c \in Call, LocalStep(c) \/ Commit(c) \/ CoreCommit(c),
           Pending(c)
    PROVE  Backed(c)' /\ Pending(c)'
<1> USE DEF TypeOK, CallTypeOK
<1>1. CASE Replay(c)
  <2>1. PICK r \in receipts : r.req = req[c] /\ seen' = [seen EXCEPT ![c] = r.revision]
    BY <1>1 DEF Replay
  <2>2. r = [req |-> r.req, revision |-> r.revision]
    BY DEF LedgerTypeOK, Receipt
  <2>3. /\ req' = req /\ receipts' = receipts
        /\ pc'[c] = "done" /\ outcome'[c] = "receipt" /\ seen'[c] = r.revision
    BY <1>1, <2>1 DEF Replay, Finish, ledgerVars
  <2> QED
    BY <2>1, <2>2, <2>3 DEF Backed, Pending
<1>2. CASE Commit(c)
  <2>1. /\ pc'[c] = "done" /\ outcome'[c] = "receipt" /\ req' = req
        /\ seen'[c] = revision + 1
        /\ [req |-> req[c], revision |-> revision + 1] \in receipts'
    BY <1>2 DEF Commit
  <2> QED
    BY <2>1 DEF Backed, Pending
<1>3. CASE CoreCommit(c)
  <2>1. /\ req' = req /\ seen'[c] = Promised(req[c])
        /\ [req |-> req[c], revision |-> Promised(req[c])] \in receipts'
    BY <1>3 DEF CoreCommit, Recorded
  <2>2. CASE req[c].op = "restore"
    <3>1. pc'[c] = "done" /\ outcome'[c] = "receipt"
      BY <1>3, <2>2 DEF CoreCommit
    <3> QED
      BY <2>1, <3>1 DEF Backed, Pending
  <2>3. CASE req[c].op # "restore"
    <3>1. pc'[c] = "answer"
      BY <1>3, <2>3 DEF CoreCommit
    <3>2. overrun' \/ Promised(req[c]) <= revision'
      <4> SUFFICES ASSUME ~overrun' PROVE Promised(req[c]) <= revision'
        OBVIOUS
      <4>1. revision' = Promised(req[c])
        <5>1. req[c] \in Request
          BY WorkloadAssumption
        <5>2. Land(req[c], read[c]) /\ req[c].rev = revision
          <6>1. ~LandsLate(req[c])
            BY <1>3, Zenon DEF CoreCommit
          <6> QED
            BY <1>3, <6>1 DEF CoreCommit, LandsLate, Current
        <5> QED
          BY <5>1, <5>2, LandPromised
      <4>2. revision' \in Nat
        BY RevisionNeverFalls
      <4> QED
        BY <4>1, <4>2
    <3> DEFINE r == [req |-> req[c], revision |-> Promised(req[c])]
    <3>3. r \in receipts' /\ r.req = req'[c] /\ (overrun' \/ r.revision <= revision')
      BY <2>1, <3>2, Zenon
    <3> QED
      BY <3>1, <3>3, Zenon DEF Backed, Pending
  <2> QED
    BY <2>2, <2>3
<1>4. CASE CoreAnswer(c)
  <2>1. /\ pc[c] = "answer" /\ pc'[c] = "done" /\ outcome'[c] = "later"
        /\ seen'[c] = revision /\ req' = req
    BY <1>4 DEF CoreAnswer, Finish
  <2>2. receipts' = receipts /\ overrun' = overrun
    BY <1>4, Zenon DEF CoreAnswer, Finish, ledgerVars
  <2>3. \E r \in receipts : r.req = req[c] /\ (overrun \/ r.revision <= revision)
    BY <2>1 DEF Pending
  <2> QED
    BY <2>1, <2>2, <2>3, Zenon DEF Backed, Pending
<1>5. CASE Begin(c) \/ Miss(c) \/ Prepare(c) \/ CoreRead(c) \/ Leave(c)
  <2>1. pc'[c] # "answer" /\ (pc'[c] = "done" => outcome'[c] \in {"denied", "blocked"})
    <3>1. CASE Begin(c)
      BY <3>1 DEF Begin, FirstStep
    <3>2. CASE Miss(c) \/ Prepare(c) \/ CoreRead(c) \/ Leave(c)
      BY <3>2 DEF Miss, Prepare, CoreRead, Leave
    <3> QED
      BY <1>5, <3>1, <3>2
  <2> QED
    BY <2>1 DEF Backed, Pending
<1>6. CASE RefuseReuse(c) \/ RefuseStale(c) \/ RefuseMutation(c) \/ LoseRace(c) \/ CoreRefuse(c)
  <2>1. pc'[c] = "done" /\ outcome'[c] \notin {"receipt", "later"}
    BY <1>6 DEF RefuseReuse, RefuseStale, RefuseMutation, LoseRace, CoreRefuse, Finish
  <2> QED
    BY <2>1 DEF Backed, Pending
<1> QED
  BY <1>1, <1>2, <1>3, <1>4, <1>5, <1>6 DEF LocalStep

\* The answers of the others stand.
LEMMA OthersFaithful ==
    ASSUME TypeOK, NEW c \in Call, LocalStep(c) \/ Commit(c) \/ CoreCommit(c),
           NEW d \in Call, d # c, Backed(d), Pending(d)
    PROVE  Backed(d)' /\ Pending(d)'
<1>1. /\ pc'[d] = pc[d] /\ req'[d] = req[d] /\ seen'[d] = seen[d]
      /\ outcome'[d] = outcome[d]
  BY OthersStay, OthersUnanswered
<1>2. receipts \subseteq receipts'
  BY ReceiptsGrow
<1>3. overrun' \/ (~overrun /\ revision \in Nat /\ revision' \in Nat /\ revision' >= revision)
  BY RevisionNeverFalls
<1>4. \A r \in receipts : r.revision \in Nat
  BY DEF TypeOK, LedgerTypeOK, Receipt
<1>5. Backed(d)'
  <2>1. outcome[d] = "later" /\ pc[d] = "done" =>
          \E r \in receipts' : r.req = req[d] /\ (overrun' \/ r.revision <= seen[d])
    BY <1>2, <1>3 DEF Backed
  <2>2. outcome[d] = "receipt" /\ pc[d] = "done" =>
          [req |-> req[d], revision |-> seen[d]] \in receipts'
    BY <1>2 DEF Backed
  <2> QED
    BY <1>1, <2>1, <2>2, Zenon DEF Backed
<1>6. Pending(d)'
  <2>1. ASSUME pc[d] = "answer"
        PROVE  \E r \in receipts' : r.req = req[d] /\ (overrun' \/ r.revision <= revision')
    <3>1. PICK r \in receipts : r.req = req[d] /\ (overrun \/ r.revision <= revision)
      BY <2>1 DEF Pending
    <3>2. overrun' \/ r.revision <= revision'
      BY <1>3, <1>4, <3>1
    <3> QED
      BY <1>2, <3>1, <3>2, Zenon
  <2> QED
    BY <1>1, <2>1, Zenon DEF Pending
<1> QED
  BY <1>5, <1>6

\* What a retry that is done has been answered.
Honoured(d) ==
    pc[d] = "done" /\ retry[d] /\ req[d].op \notin LooksFirst
    => outcome[d] \in {"receipt", "denied"}

\* The handler that moves in a retry goes no further than its lookup, and answers
\* with the receipt if its operation looks for one first.
LEMMA MoverRetry ==
    ASSUME TypeOK, NEW c \in Call, RetrySound(c),
           LocalStep(c) \/ Commit(c) \/ CoreCommit(c)
    PROVE  RetrySound(c)' /\ Honoured(c)'
<1> USE DEF TypeOK, CallTypeOK
<1>1. receipts \subseteq receipts'
  BY ReceiptsGrow
<1>2. ASSUME retry[c]
      PROVE  Remembered(req[c]) /\ SlotTaken(req[c]) /\ \E r \in receipts' : r.req = req[c]
  BY <1>1, <1>2 DEF RetrySound, Remembered, SlotTaken
<1>3. CASE Begin(c)
  <2>1. PICK q \in Workload :
          /\ req' = [req EXCEPT ![c] = q]
          /\ retry' = [retry EXCEPT ![c] = Remembered(q)]
          /\ \/ /\ MayDeny(q)
                /\ pc' = [pc EXCEPT ![c] = "done"]
                /\ outcome' = [outcome EXCEPT ![c] = "denied"]
             \/ /\ ~Denied(q)
                /\ MayBlock(q)
                /\ pc' = [pc EXCEPT ![c] = "done"]
                /\ outcome' = [outcome EXCEPT ![c] = "blocked"]
             \/ /\ ~Denied(q) /\ ~BlockedEarly(q)
                /\ pc' = [pc EXCEPT ![c] = FirstStep(q)]
                /\ UNCHANGED outcome
    BY <1>3, Zenon DEF Begin
  <2>2. req'[c] = q
    BY <2>1
  <2>3. retry'[c] = Remembered(q)
    BY <2>1, Zenon
  <2>4. Remembered(q) => Remembered(q)'
    BY <1>1 DEF Remembered
  <2>5. CASE pc'[c] = "done"
    <3>1. outcome'[c] = "denied" \/ MayBlock(q)
      BY <2>1, <2>5 DEF FirstStep
    <3>2. MayBlock(q) => q.op \in LooksFirst
      BY DEF MayBlock, BlockedEarly, LooksFirst
    <3> QED
      BY <3>1, <3>2, <2>2, <2>3, <2>4, <2>5 DEF RetrySound, Honoured
  <2>6. CASE pc'[c] # "done"
    <3>1. pc'[c] = FirstStep(q)
      BY <2>1, <2>6
    <3> QED
      BY <3>1, <2>2, <2>3, <2>4, <2>6 DEF RetrySound, FirstStep, Honoured
  <2> QED
    BY <2>5, <2>6
<1>4. CASE Leave(c)
  <2>1. retry' = [retry EXCEPT ![c] = FALSE]
    BY <1>4, Zenon DEF Leave
  <2>2. ~retry'[c]
    BY <2>1, Zenon
  <2> QED
    BY <2>2 DEF RetrySound, Honoured
<1>5. ASSUME ~Begin(c), ~Leave(c) PROVE retry' = retry /\ req' = req
  BY <1>5, RetryKept
<1>6. CASE ~Begin(c) /\ ~Leave(c) /\ ~retry[c]
  <2>1. ~retry'[c]
    BY <1>5, <1>6, Zenon
  <2> QED
    BY <2>1 DEF RetrySound, Honoured
<1>7. CASE ~Begin(c) /\ ~Leave(c) /\ retry[c]
  <2>1. /\ Remembered(req[c]) /\ SlotTaken(req[c]) /\ \E r \in receipts' : r.req = req[c]
        /\ pc[c] \in {"lookup", "txn", "done"}
        /\ pc[c] = "txn" => req[c].op \notin SettleOps
    BY <1>2, <1>7 DEF RetrySound
  <2>2. Replay(c)
    BY <1>7, <2>1 DEF LocalStep, Miss, RefuseReuse, RefuseStale, RefuseMutation, Prepare,
                      LoseRace, CoreRead, CoreAnswer, CoreRefuse, Commit, CoreCommit,
                      Ready, Finish
  <2>3. pc'[c] = "done" /\ outcome'[c] = "receipt"
    BY <2>2 DEF Replay, Finish
  <2>4. req' = req
    BY <1>5, <1>7
  <2>5. \E r \in receipts' : r.req = req'[c]
    BY <2>1, <2>4
  <2> QED
    BY <2>3, <2>5 DEF RetrySound, Remembered, Honoured
<1> QED
  BY <1>3, <1>4, <1>6, <1>7

\* The invariant, handler by handler.
LEMMA AnswerParts ==
    AnswerInv <=> \A c \in Call : Backed(c) /\ Honoured(c) /\ RetrySound(c) /\ Pending(c)
BY Zenon DEF AnswerInv, ReceiptIsFaithful, RetryHonoured, Backed, Honoured

\* No handler has answered at first.
LEMMA AnswerInit == Init => AnswerInv
<1> SUFFICES ASSUME Init, NEW c \in Call
             PROVE  Backed(c) /\ Honoured(c) /\ RetrySound(c) /\ Pending(c)
  BY AnswerParts
<1>1. ~retry[c]
  BY Zenon DEF Init
<1>2. pc[c] = "idle"
  BY DEF Init
<1> QED
  BY <1>1, <1>2 DEF Backed, Honoured, RetrySound, Pending

\* No step spoils an answer, or a retry under way.
LEMMA AnswerStep == TypeOK /\ AnswerInv /\ [Next]_vars => AnswerInv'
<1> SUFFICES ASSUME TypeOK, AnswerInv, [Next]_vars PROVE AnswerInv'
  OBVIOUS
<1>1. CASE UNCHANGED vars
  BY <1>1, Zenon DEF AnswerInv, ReceiptIsFaithful, RetryHonoured, RetrySound, Pending, Remembered,
                     vars, ledgerVars, callVars
<1>2. CASE Next
  <2>1. PICK c \in Call : LocalStep(c) \/ Commit(c) \/ CoreCommit(c)
    BY <1>2, StepCases
  <2>2. ASSUME NEW d \in Call
        PROVE  (Backed(d) /\ Honoured(d) /\ RetrySound(d) /\ Pending(d))'
    <3>1. Backed(d) /\ Honoured(d) /\ RetrySound(d) /\ Pending(d)
      BY AnswerParts
    <3>2. CASE d = c
      BY <2>1, <3>1, <3>2, MoverFaithful, MoverRetry
    <3>3. CASE d # c
      <4>1. Backed(d)' /\ Pending(d)'
        BY <2>1, <3>1, <3>3, OthersFaithful
      <4>2. /\ pc'[d] = pc[d] /\ req'[d] = req[d]
            /\ outcome'[d] = outcome[d] /\ retry'[d] = retry[d]
        BY <2>1, <3>3, OthersStay, OthersUnanswered
      <4>3. receipts \subseteq receipts'
        BY <2>1, ReceiptsGrow
      <4>4. RetrySound(d)'
        BY <3>1, <4>2, <4>3, Zenon DEF RetrySound, Remembered
      <4>5. Honoured(d)'
        BY <3>1, <4>2, Zenon DEF Honoured
      <4> QED
        BY <4>1, <4>4, <4>5
    <3> QED
      BY <3>2, <3>3
  <2>3. (\A d \in Call : Backed(d) /\ Honoured(d) /\ RetrySound(d) /\ Pending(d))'
    BY <2>2
  <2> QED
    BY <2>3, Zenon DEF AnswerInv, ReceiptIsFaithful, RetryHonoured, Backed, Honoured
<1> QED
  BY <1>1, <1>2

\* Answers and retries under way, in every reachable state.
LEMMA AlwaysAnswered == Spec => []AnswerInv
BY AnswerInit, AnswerStep, TypeCorrect, PTL DEF Spec

\* A handler that answers with a revision answers with the one its request
\* produced, whether it wrote it or found it (_write and the lookups); a fork or a
\* checkout may answer with a later one, which it reads after its commit.
THEOREM ReceiptsAlwaysFaithful == Spec => []ReceiptIsFaithful
<1>1. AnswerInv => ReceiptIsFaithful BY DEF AnswerInv
<1> QED BY <1>1, AlwaysAnswered, PTL

\* An exact retry of an operation that looks for its receipt first gets it,
\* whatever happened to the campaign since, unless the role is gone.
THEOREM RetriesAlwaysHonoured == Spec => []RetryHonoured
<1>1. AnswerInv => RetryHonoured BY DEF AnswerInv
<1> QED BY <1>1, AlwaysAnswered, PTL

==============================================================================
