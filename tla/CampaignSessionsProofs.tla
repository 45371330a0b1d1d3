------------------------ MODULE CampaignSessionsProofs ------------------------
(***************************************************************************)
(* Theorems about CampaignSessions, for every number of sessions, calls    *)
(* and campaigns.  IInv, the type of the state with the lock queues and    *)
(* ActorGrantsOfMembers, is inductive.  The queues are needed for the type *)
(* already: that the lock passes on rests on its queue not being empty.    *)
(* Only Run changes a campaign, and each result of a tool keeps the actor  *)
(* grants with members.  AcceptedIsAuthorised needs the type only: what a  *)
(* refresh leaves loaded is what it found allowed, whatever a modern call  *)
(* set without one before, and nothing can change between the refresh and  *)
(* the acceptance.  LockIsHeldByOne is what the queues say of the locks.   *)
(***************************************************************************)
EXTENDS CampaignSessions, TLAPS

\* Only members control actors of the campaign a.
Sound(a) == \A p \in Principal : p \in a.controls => Member(a, p)

IInv == TypeOK /\ ActorGrantsOfMembers

\* An exposure told of its phase and tools stays an exposure.
LEMMA ExposureUpdated ==
    ASSUME NEW e \in Exposure, NEW phase \in Phase, NEW loaded \in SUBSET Tool, NEW n \in Nat
    PROVE  /\ [e EXCEPT !.phase = phase, !.loaded = loaded, !.revision = n] \in Exposure
           /\ [e EXCEPT !.loaded = loaded, !.revision = n] \in Exposure
BY DEF Exposure

\* A refresh keeps the type of an exposure, its principal and its campaign, and
\* what it leaves loaded is authorised.
LEMMA RefreshedSound ==
    ASSUME Typed, NEW e \in Exposure
    PROVE  /\ Refreshed(e) \in Exposure
           /\ Refreshed(e).principal = e.principal /\ Refreshed(e).campaign = e.campaign
           /\ Refreshed(e).age = e.age
           /\ \A t \in Refreshed(e).loaded :
                 Authorised(access[e.campaign], e.principal, t) /\ t \in Offered(e.phase)
<1> DEFINE phase == access[e.campaign].phase
           loaded == Allowed(e, e.loaded)
<1>1. phase \in Phase BY DEF Typed, Access, Exposure
<1>2. loaded \subseteq e.loaded /\ loaded \subseteq Tool BY DEF Allowed, Exposure
<1>3. \A t \in loaded : Authorised(access[e.campaign], e.principal, t) /\ t \in Offered(e.phase)
  BY DEF Allowed
<1>4. CASE e.phase = phase /\ e.loaded = loaded
  <2>1. Refreshed(e) = e BY <1>4 DEF Refreshed
  <2> QED BY <2>1, <1>3, <1>4
<1>5. CASE ~(e.phase = phase /\ e.loaded = loaded)
  <2> DEFINE f == [e EXCEPT !.phase = phase, !.loaded = loaded, !.revision = @ + 1]
  <2>1. Refreshed(e) = f BY <1>5 DEF Refreshed
  <2> HIDE DEF phase, loaded
  <2>2. e.revision + 1 \in Nat BY DEF Exposure
  <2>3. f \in Exposure BY <1>1, <1>2, <2>2, ExposureUpdated
  <2>4. f.principal = e.principal /\ f.campaign = e.campaign /\ f.age = e.age
           /\ f.loaded = loaded
    BY DEF Exposure
  <2> QED BY <2>1, <2>3, <2>4, <1>3
<1> QED BY <1>4, <1>5

\* Every registry that a refresh can leave has the type of a registry.
LEMMA WithFreshType ==
    ASSUME Typed, NEW xs \in SUBSET Opened
    PROVE  /\ WithFresh(xs) \in [Key -> Exposure \cup {NoExposure}]
           /\ \A registry \in AfterRefresh(xs) :
                 registry \in [Key -> Exposure \cup {NoExposure}]
<1>1. ASSUME NEW done \in SUBSET Opened
      PROVE  WithFresh(done) \in [Key -> Exposure \cup {NoExposure}]
  <2>1. ASSUME NEW s \in done PROVE Refreshed(item[s]) \in Exposure
    BY RefreshedSound, <2>1 DEF Opened, Typed
  <2> QED BY <2>1 DEF WithFresh, Typed
<1> QED BY <1>1 DEF AfterRefresh

\* Dropping an expired exposure keeps the type of a registry.
LEMMA WithoutExpiredType ==
    ASSUME NEW registry \in [Key -> Exposure \cup {NoExposure}], NEW s
    PROVE  WithoutExpired(registry, s) \in [Key -> Exposure \cup {NoExposure}]
BY DEF WithoutExpired

\* An exposure begins as an exposure.
LEMMA BegunType ==
    ASSUME Typed, NEW who \in Principal, NEW c \in Campaign
    PROVE  Begun(who, c) \in Exposure
BY DEF Begun, Typed, Access, Exposure

\* Whatever a tool does, the campaign stays well typed and only members control actors.
LEMMA ResultsSound ==
    ASSUME NEW a \in Access, NEW who \in Principal, NEW t \in Tool, Sound(a),
           NEW b \in Results(a, who, t)
    PROVE  Counted(a, b) \in Access /\ Sound(Counted(a, b))
<1>1. b \in Access /\ Sound(b)
  <2>1. CASE b \in Rostered(a)
    <3>1. PICK p \in Principal, standing \in Standing : b = WithStanding(a, p, standing)
      BY <2>1 DEF Rostered
    <3>2. b.role = [a.role EXCEPT ![p] = standing]
          /\ b.controls = IF standing = "none" THEN a.controls \ {p} ELSE a.controls
      BY <3>1 DEF WithStanding, Access
    <3>3. b \in Access BY <3>1 DEF WithStanding, Access
    <3> QED BY <3>2, <3>3 DEF Sound, Member, Access
  <2>2. CASE b \in Entrusted(a)
    <3>1. b \in Access /\ b.role = a.role BY <2>2 DEF Entrusted, Access
    <3>2. \A p \in b.controls : p \in a.controls \/ Member(a, p)
      BY <2>2 DEF Entrusted, Access
    <3> QED BY <3>1, <3>2 DEF Sound, Member, Access
  <2>3. CASE b \in Phased(a)
    <3>1. b \in Access /\ b.role = a.role /\ b.controls = a.controls
      BY <2>3 DEF Phased, Access, Phase
    <3> QED BY <3>1 DEF Sound, Member
  <2>4. CASE b \in Profiled(a)
    <3>1. b \in Access /\ b.role = a.role /\ b.controls = a.controls
      BY <2>4 DEF Profiled, Access
    <3> QED BY <3>1 DEF Sound, Member
  <2>5. CASE b \in ConflictStarted(a, who) \cup ConflictEnded(a, who)
    <3>1. b \in Access /\ b.role = a.role /\ b.controls = a.controls
      BY <2>5 DEF ConflictStarted, ConflictEnded, Access, Phase
    <3> QED BY <3>1 DEF Sound, Member
  <2>6. CASE b \in Recovered(a)
    <3>1. PICK d \in Past :
             b = [a EXCEPT !.phase = d.phase, !.profile = d.profile, !.conflict = d.conflict]
      BY <2>6 DEF Recovered
    <3>2. b \in Access /\ b.role = a.role /\ b.controls = a.controls BY <3>1 DEF Past, Access
    <3> QED BY <3>2 DEF Sound, Member
  <2>7. \/ b \in Rostered(a) \cup Entrusted(a) \cup Phased(a) \cup Profiled(a)
        \/ b \in ConflictStarted(a, who) \cup ConflictEnded(a, who) \cup Recovered(a)
        \/ b = a
    BY DEF Results
  <2> QED BY <2>1, <2>2, <2>3, <2>4, <2>5, <2>6, <2>7
<1>2. Counted(a, b) = b \/ Counted(a, b) = [b EXCEPT !.changes = @ + 1]
  <2>1. CASE b = a
    <3>1. Counted(a, b) = [b EXCEPT !.changes = @] BY <2>1 DEF Counted
    <3> QED BY <3>1, <1>1 DEF Access
  <2>2. CASE b # a BY <2>2 DEF Counted
  <2> QED BY <2>1, <2>2
<1> QED BY <1>1, <1>2 DEF Access, Sound, Member

\* Initially nobody controls an actor.
LEMMA InitSound == Init => IInv
<1> SUFFICES ASSUME Init PROVE IInv OBVIOUS
<1>1. Typed
  BY MembersAssumption DEF Init, Typed, Access, Phase
<1>2. ActorGrantsOfMembers BY DEF Init, ActorGrantsOfMembers
<1>3. Queues BY DEF Init, Queues, Waits, IsInjective, Contains
<1> QED BY <1>1, <1>2, <1>3 DEF IInv, TypeOK

\* Joining a queue.
LEMMA AppendKeeps ==
    ASSUME NEW q \in Seq(Call), NEW k \in Call, IsInjective(q), ~Contains(q, k)
    PROVE  /\ Append(q, k) \in Seq(Call) /\ IsInjective(Append(q, k))
           /\ \A j \in Call : Contains(Append(q, k), j) <=> Contains(q, j) \/ j = k
<1> DEFINE r == Append(q, k)
<1>1. /\ r \in Seq(Call) /\ Len(r) = Len(q) + 1 /\ r[Len(q) + 1] = k /\ Len(q) \in Nat
      /\ \A i \in 1..Len(q) : r[i] = q[i]
  OBVIOUS
<1> HIDE DEF r
<1>2. \A i \in 1..Len(r) : i \in 1..Len(q) \/ i = Len(q) + 1 BY <1>1
<1>3. DOMAIN r = 1..Len(r) /\ DOMAIN q = 1..Len(q) BY <1>1
<1>4. IsInjective(r) BY <1>1, <1>2, <1>3 DEF IsInjective, Contains
<1>5. ASSUME NEW j \in Call PROVE Contains(r, j) <=> Contains(q, j) \/ j = k
  <2>1. Contains(r, j) => Contains(q, j) \/ j = k BY <1>1, <1>2 DEF Contains
  <2>2. Contains(q, j) => Contains(r, j)
    <3>1. \A i \in 1..Len(q) : i \in 1..Len(r) BY <1>1
    <3> QED BY <1>1, <3>1 DEF Contains
  <2>3. Len(q) + 1 \in 1..Len(r) BY <1>1
  <2>4. j = k => Contains(r, j) BY <1>1, <2>3 DEF Contains
  <2> QED BY <2>1, <2>2, <2>4
<1> QED BY <1>1, <1>4, <1>5 DEF r

\* Leaving the head of a queue.
LEMMA TailKeeps ==
    ASSUME NEW q \in Seq(Call), q # << >>, IsInjective(q)
    PROVE  /\ Tail(q) \in Seq(Call) /\ IsInjective(Tail(q))
           /\ \A j \in Call : Contains(Tail(q), j) <=> Contains(q, j) /\ j # Head(q)
<1> DEFINE r == Tail(q)
<1>1. /\ r \in Seq(Call) /\ Len(r) = Len(q) - 1 /\ Len(q) \in Nat \ {0} /\ Head(q) = q[1]
      /\ \A i \in 1..Len(r) : r[i] = q[i + 1]
  OBVIOUS
<1> HIDE DEF r
<1>2. DOMAIN r = 1..Len(r) /\ DOMAIN q = 1..Len(q) BY <1>1
<1>3. \A i, j \in 1..Len(q) : q[i] = q[j] => i = j BY <1>2 DEF IsInjective
<1>4. \A i \in 1..Len(r) : i + 1 \in 1..Len(q) /\ i + 1 # 1 BY <1>1
<1>5. IsInjective(r)
  <2>1. ASSUME NEW i \in 1..Len(r), NEW j \in 1..Len(r), r[i] = r[j] PROVE i = j
    <3>1. q[i + 1] = q[j + 1] BY <1>1, <2>1
    <3>2. i + 1 = j + 1 BY <3>1, <1>3, <1>4
    <3> QED BY <3>2
  <2> QED BY <2>1, <1>2 DEF IsInjective
<1>6. ASSUME NEW j \in Call PROVE Contains(r, j) <=> Contains(q, j) /\ j # Head(q)
  <2>1. ASSUME NEW i \in 1..Len(r), r[i] = j PROVE Contains(q, j) /\ j # Head(q)
    <3>1. q[i + 1] = j BY <1>1, <2>1
    <3>2. 1 \in 1..Len(q) BY <1>1
    <3>3. j # q[1] BY <3>1, <3>2, <1>3, <1>4
    <3> QED BY <3>1, <3>3, <1>1, <1>4 DEF Contains
  <2>2. ASSUME NEW i \in 1..Len(q), q[i] = j, j # Head(q) PROVE Contains(r, j)
    <3>1. i - 1 \in 1..Len(r) BY <2>2, <1>1
    <3>2. r[i - 1] = q[i - 1 + 1] BY <3>1, <1>1
    <3>3. i - 1 + 1 = i OBVIOUS
    <3> QED BY <3>1, <3>2, <3>3, <2>2 DEF Contains
  <2> QED BY <2>1, <2>2 DEF Contains
<1> QED BY <1>1, <1>5, <1>6 DEF r

\* Joining the queue of a lock changes no campaign, and keeps the queues.
LEMMA EnqueueSound ==
    ASSUME TypeOK, NEW k \in Call, NEW s \in Session \cup {Modern}, NEW who \in Principal,
           NEW c \in Campaign, NEW t \in Tool, Enqueue(k, s, who, c, t)
    PROVE  /\ access' = access
           /\ call' \in [Call -> InFlight \cup {Idle}]
           /\ queue' \in [Campaign -> Seq(Call)]
           /\ Queues'
<1> DEFINE x == [stage |-> "waiting", session |-> s, who |-> who, campaign |-> c, tool |-> t]
<1>1. x \in InFlight /\ x # Idle BY IdleAssumption DEF InFlight
<1>2. x.stage = "waiting" /\ x.campaign = c OBVIOUS
<1>3. /\ call[k] = Idle /\ call' = [call EXCEPT ![k] = x]
      /\ queue' = [queue EXCEPT ![c] = Append(@, k)] /\ access' = access
  BY DEF Enqueue
<1> HIDE DEF x
<1>4. ~Contains(queue[c], k) BY <1>3 DEF TypeOK, Queues, Waits
<1>5. queue[c] \in Seq(Call) /\ IsInjective(queue[c]) BY DEF TypeOK, Typed, Queues
<1>6. /\ Append(queue[c], k) \in Seq(Call) /\ IsInjective(Append(queue[c], k))
      /\ \A j \in Call : Contains(Append(queue[c], k), j) <=> Contains(queue[c], j) \/ j = k
  BY <1>4, <1>5, AppendKeeps
<1>7. call' \in [Call -> InFlight \cup {Idle}] BY <1>1, <1>3 DEF TypeOK, Typed
<1>8. queue' \in [Campaign -> Seq(Call)] BY <1>3, <1>6 DEF TypeOK, Typed
<1>9. ASSUME NEW d \in Campaign, NEW j \in Call
      PROVE  Waits(j, d)' <=> Waits(j, d) \/ (j = k /\ d = c)
  BY <1>1, <1>2, <1>3 DEF Waits, TypeOK, Typed
<1>10. ASSUME NEW d \in Campaign
       PROVE  /\ IsInjective(queue'[d])
              /\ \A j \in Call : Contains(queue'[d], j) <=> Waits(j, d)'
  <2>1. CASE d = c
    <3>1. queue'[d] = Append(queue[c], k) BY <2>1, <1>3 DEF TypeOK, Typed
    <3> QED BY <3>1, <2>1, <1>6, <1>9 DEF TypeOK, Queues
  <2>2. CASE d # c
    <3>1. queue'[d] = queue[d] BY <2>2, <1>3 DEF TypeOK, Typed
    <3> QED BY <3>1, <2>2, <1>9 DEF TypeOK, Queues
  <2> QED BY <2>1, <2>2
<1> QED BY <1>3, <1>7, <1>8, <1>10 DEF Queues

\* A call that does not wait may be opened or ended beside the queues.
LEMMA BesideQueues ==
    ASSUME TypeOK, NEW k \in Call, NEW x \in InFlight \cup {Idle},
           call[k] = Idle \/ call[k].stage = "answering", x = Idle \/ x.stage = "answering",
           call' = [call EXCEPT ![k] = x], queue' = queue
    PROVE  call' \in [Call -> InFlight \cup {Idle}] /\ Queues'
<1>1. call' \in [Call -> InFlight \cup {Idle}] BY DEF TypeOK, Typed
<1>2. ASSUME NEW c \in Campaign, NEW j \in Call PROVE Waits(j, c)' <=> Waits(j, c)
  BY DEF Waits, TypeOK, Typed
<1> QED BY <1>1, <1>2 DEF TypeOK, Queues

\* The holder of a lock ends or is answered, and the lock passes on.
LEMMA LockPassesOn ==
    ASSUME TypeOK, NEW k \in Call, Holds(k), NEW x \in InFlight \cup {Idle},
           x = Idle \/ x.stage = "answering",
           call' = [call EXCEPT ![k] = x],
           queue' = [queue EXCEPT ![call[k].campaign] = Tail(@)]
    PROVE  /\ call' \in [Call -> InFlight \cup {Idle}]
           /\ queue' \in [Campaign -> Seq(Call)]
           /\ Queues'
<1> DEFINE c == call[k].campaign
<1>1. c \in Campaign BY DEF Holds, TypeOK, Typed, InFlight
<1>2. Waits(k, c) /\ Head(queue[c]) = k BY DEF Holds, Waits
<1>3. queue[c] \in Seq(Call) /\ IsInjective(queue[c]) /\ Contains(queue[c], k)
  BY <1>1, <1>2 DEF TypeOK, Typed, Queues
<1>4. queue[c] # << >> BY <1>3 DEF Contains
<1>5. /\ Tail(queue[c]) \in Seq(Call) /\ IsInjective(Tail(queue[c]))
      /\ \A j \in Call : Contains(Tail(queue[c]), j) <=> Contains(queue[c], j) /\ j # k
  BY <1>2, <1>3, <1>4, TailKeeps
<1>6. call' \in [Call -> InFlight \cup {Idle}] BY DEF TypeOK, Typed
<1>7. queue' \in [Campaign -> Seq(Call)] BY <1>5 DEF TypeOK, Typed
<1>8. ASSUME NEW d \in Campaign, NEW j \in Call PROVE Waits(j, d)' <=> Waits(j, d) /\ j # k
  BY DEF Waits, TypeOK, Typed
<1>9. ASSUME NEW d \in Campaign
      PROVE  /\ IsInjective(queue'[d])
             /\ \A j \in Call : Contains(queue'[d], j) <=> Waits(j, d)'
  <2>1. CASE d = c
    <3>1. queue'[d] = Tail(queue[c]) BY <2>1, <1>1 DEF TypeOK, Typed
    <3> QED BY <3>1, <2>1, <1>5, <1>8 DEF TypeOK, Queues
  <2>2. CASE d # c
    <3>1. queue'[d] = queue[d] BY <2>2 DEF TypeOK, Typed
    <3>2. ~Waits(k, d) BY <2>2 DEF Waits
    <3> QED BY <3>1, <3>2, <1>8 DEF TypeOK, Queues
  <2> QED BY <2>1, <2>2
<1> QED BY <1>6, <1>7, <1>9 DEF Queues

\* A tool that runs keeps the invariant.
LEMMA RunSound == ASSUME IInv, NEW k \in Call, Run(k) PROVE IInv'
<1> DEFINE q == call[k]
           a == access[q.campaign]
<1>1. Holds(k) /\ q.campaign \in Campaign /\ q.who \in Principal /\ q.tool \in Tool
      /\ q.session \in Session \cup {Modern}
  BY DEF IInv, TypeOK, Typed, Run, Holds, InFlight
<1>2. a \in Access /\ Sound(a)
  BY <1>1 DEF IInv, TypeOK, Typed, ActorGrantsOfMembers, Sound
<1>3. PICK b \in Results(a, q.who, q.tool) :
         /\ access' = [access EXCEPT ![q.campaign] = Counted(a, b)]
         /\ queue' = [queue EXCEPT ![q.campaign] = Tail(@)]
  BY DEF Run
<1>4. Counted(a, b) \in Access /\ Sound(Counted(a, b))
  BY <1>1, <1>2, <1>3, ResultsSound
<1>5. access' \in [Campaign -> Access] BY <1>1, <1>3, <1>4 DEF IInv, TypeOK, Typed
<1>6. ActorGrantsOfMembers'
  <2>1. ASSUME NEW c \in Campaign PROVE Sound(access'[c])
    <3>1. CASE c = q.campaign
      BY <3>1, <1>1, <1>3, <1>4 DEF IInv, TypeOK, Typed
    <3>2. CASE c # q.campaign
      <4>1. access'[c] = access[c] BY <3>2, <1>3 DEF IInv, TypeOK, Typed
      <4> QED BY <4>1 DEF IInv, ActorGrantsOfMembers, Sound
    <3> QED BY <3>1, <3>2
  <2> QED BY <2>1 DEF ActorGrantsOfMembers, Sound
<1>7. /\ call' \in [Call -> InFlight \cup {Idle}]
      /\ queue' \in [Campaign -> Seq(Call)]
      /\ Queues'
  <2> DEFINE x == IF q.session = Modern THEN Idle
                  ELSE Answering(q.session, q.who, q.campaign)
  <2>1. x \in InFlight \cup {Idle} /\ (x = Idle \/ x.stage = "answering")
    BY <1>1 DEF Answering, InFlight
  <2>2. call' = [call EXCEPT ![k] = x] BY DEF Run
  <2> HIDE DEF x
  <2> QED BY <2>1, <2>2, <1>1, <1>3, LockPassesOn DEF IInv
<1>8. item' = item BY DEF Run
<1> QED BY <1>5, <1>6, <1>7, <1>8 DEF IInv, TypeOK, Typed

\* Every step keeps the invariant.
LEMMA NextKeeps == ASSUME IInv, [Next]_vars PROVE IInv'
<1> USE DEF IInv, TypeOK
<1>1. ASSUME access' = access,
             item' \in [Key -> Exposure \cup {NoExposure}],
             call' \in [Call -> InFlight \cup {Idle}],
             queue' \in [Campaign -> Seq(Call)],
             Queues'
      PROVE  IInv'
  BY <1>1 DEF Typed, ActorGrantsOfMembers, Member
<1>0. UNCHANGED <<call, queue>> => Queues' BY DEF Queues, Waits
<1>2. \A s \in Opened : item[s] \in Exposure BY DEF Opened, Typed
<1>3. ASSUME NEW s \in Key, Expire(s) PROVE IInv'
  <2>1. [item[s] EXCEPT !.age = "expired"] \in Exposure
    BY <1>2, <1>3 DEF Expire, InUse, Exposure
  <2> QED BY <2>1, <1>0, <1>1, <1>3 DEF Expire, Typed
<1>4. ASSUME NEW s \in Key, Ask(s) PROVE IInv'
  <2>1. PICK registry \in AfterRefresh(Opened) :
           item' = IF Healthy THEN WithoutExpired(registry, s) ELSE registry
    BY <1>4 DEF Ask
  <2>2. registry \in [Key -> Exposure \cup {NoExposure}] BY <2>1, WithFreshType
  <2>3. item' \in [Key -> Exposure \cup {NoExposure}]
    BY <2>1, <2>2, WithoutExpiredType
  <2> QED BY <2>3, <1>0, <1>1, <1>4 DEF Ask, Typed
<1>14. ASSUME NEW x \in Key, AskModern(x) PROVE IInv'
  <2>1. item' \in [Key -> Exposure \cup {NoExposure}]
    BY <1>14, WithoutExpiredType DEF AskModern, Typed
  <2> QED BY <2>1, <1>0, <1>1, <1>14 DEF AskModern, Typed
<1>15. ASSUME NEW x \in Key, NEW add \in SUBSET Loadable, NEW remove \in SUBSET Loadable,
              SetModern(x, add, remove)
       PROVE  IInv'
  <2> DEFINE e == item[x]
             loaded == (e.loaded \cup add) \ remove
             f == [e EXCEPT !.loaded = loaded, !.revision = @ + 1]
  <2>1. e \in Exposure BY <1>2, <1>15 DEF SetModern, InUse
  <2>2. loaded \subseteq Tool BY <2>1, ClientAssumption DEF Exposure
  <2>3. e.phase \in Phase /\ e.revision + 1 \in Nat BY <2>1 DEF Exposure
  <2>4. item' = [item EXCEPT ![x] = f] BY <1>15, <2>1 DEF SetModern, Typed
  <2>5. f \in Exposure
    <3> HIDE DEF e, loaded
    <3> QED BY <2>1, <2>2, <2>3, ExposureUpdated
  <2> HIDE DEF f
  <2>6. item' \in [Key -> Exposure \cup {NoExposure}] BY <2>4, <2>5 DEF Typed
  <2> QED BY <2>6, <1>0, <1>1, <1>15 DEF SetModern, Typed
<1>16. ASSUME NEW h \in Handle, NEW who \in Principal, NEW c \in Campaign,
              OpenModern(h, who, c)
       PROVE  IInv'
  <2>1. Begun(who, c) \in Exposure BY BegunType
  <2>2. item' = [item EXCEPT ![h] = Begun(who, c)] BY <1>16 DEF OpenModern
  <2>3. item' \in [Key -> Exposure \cup {NoExposure}] BY <2>1, <2>2 DEF Typed
  <2> QED BY <2>3, <1>0, <1>1, <1>16 DEF OpenModern, Typed
<1>5. WithFresh(Opened) \in [Key -> Exposure \cup {NoExposure}] BY WithFreshType
<1>6. ASSUME NEW s \in Session, OpenUnbound(s) PROVE IInv'
  BY <1>0, <1>1, <1>5, <1>6 DEF OpenUnbound, Typed
<1>7. ASSUME NEW k \in Call, NEW s \in Session, NEW who \in Principal, NEW c \in Campaign,
             Open(k, s, who, c)
      PROVE  IInv'
  <2>1. Begun(who, c) \in Exposure BY BegunType
  <2> DEFINE x == Answering(s, IF InUse(s) THEN item[s].principal ELSE who, c)
  <2>2. x \in InFlight /\ x.stage = "answering"
    BY <1>2 DEF Answering, InFlight, InUse, Exposure
  <2>5. call' = [call EXCEPT ![k] = x] BY <1>7 DEF Open
  <2>3. item' \in [Key -> Exposure \cup {NoExposure}] BY <2>1, <1>5, <1>7 DEF Open
  <2>4. call' \in [Call -> InFlight \cup {Idle}] /\ Queues'
    <3> HIDE DEF x
    <3> QED BY <2>2, <2>5, <1>7, BesideQueues DEF Open
  <2> QED BY <2>3, <2>4, <1>1, <1>7 DEF Open, Typed
<1>8. ASSUME NEW k \in Call, NEW s \in Session, NEW x \in Key,
             NEW add \in SUBSET Loadable, NEW remove \in SUBSET Loadable,
             SetTools(k, s, x, add, remove)
      PROVE  IInv'
  <2> DEFINE e == Refreshed(item[x])
             loaded == (e.loaded \cup add) \ remove
             f == [e EXCEPT !.loaded = loaded, !.revision = @ + 1]
  <2>1. e \in Exposure BY <1>2, <1>8, RefreshedSound DEF SetTools
  <2>2. loaded \subseteq Tool BY <2>1, ClientAssumption DEF Exposure
  <2>3. f \in Exposure
    <3>1. e.phase \in Phase /\ e.revision + 1 \in Nat BY <2>1 DEF Exposure
    <3> HIDE DEF e, loaded
    <3> QED BY <2>1, <2>2, <3>1, ExposureUpdated
  <2>4. Answering(s, e.principal, e.campaign) \in InFlight
    BY <2>1 DEF Answering, InFlight, Exposure
  <2>5. /\ item' = [WithFresh(Opened) EXCEPT ![x] = f]
        /\ call' = [call EXCEPT ![k] = Answering(s, e.principal, e.campaign)]
        /\ UNCHANGED <<access, queue>>
    BY <1>8 DEF SetTools
  <2> HIDE DEF f, e
  <2>6. item' \in [Key -> Exposure \cup {NoExposure}] BY <2>3, <2>5, <1>5
  <2>7. call' \in [Call -> InFlight \cup {Idle}] /\ Queues'
    BY <2>4, <2>5, <1>8, BesideQueues DEF SetTools, Answering
  <2> QED BY <2>5, <2>6, <2>7, <1>1 DEF Typed
<1>9. ASSUME NEW k \in Call, NEW s \in Session, NEW t \in Loadable, Accept(k, s, t)
      PROVE  IInv'
  <2>1. item[s] \in Exposure BY <1>2, <1>9 DEF Accept, InUse
  <2>2. item[s].principal \in Principal /\ item[s].campaign \in Campaign /\ t \in Tool
    BY <2>1, ClientAssumption DEF Exposure
  <2>3. Enqueue(k, s, item[s].principal, item[s].campaign, t) BY <1>9 DEF Accept
  <2>4. item' = WithFresh(Opened) BY <1>9 DEF Accept
  <2> QED BY <2>2, <2>3, <2>4, <1>1, <1>5, EnqueueSound
<1>10. ASSUME NEW k \in Call, NEW who \in Principal, NEW c \in Campaign, NEW t \in Callable,
              AcceptModern(k, who, c, t)
       PROVE  IInv'
  <2>1. t \in Tool BY ClientAssumption
  <2>2. Enqueue(k, Modern, who, c, t) /\ item' = item BY <1>10 DEF AcceptModern
  <2> QED BY <2>1, <2>2, <1>1, EnqueueSound DEF Typed
<1>11. ASSUME NEW k \in Call, Fail(k) PROVE IInv'
  <2>1. /\ call' \in [Call -> InFlight \cup {Idle}]
        /\ queue' \in [Campaign -> Seq(Call)]
        /\ Queues'
    BY <1>11, LockPassesOn DEF Fail
  <2> QED BY <2>1, <1>1, <1>11 DEF Fail, Typed
<1>12. ASSUME NEW k \in Call, Answer(k) PROVE IInv'
  <2> DEFINE q == call[k]
             xs == {s \in Opened : item[s].campaign = q.campaign}
  <2>1. PICK registry \in AfterRefresh(xs) :
           item' = IF (\A s \in xs : ~Orphaned(s)) /\ Member(access[q.campaign], q.who)
                   THEN WithoutExpired(registry, q.session) ELSE registry
    BY <1>12 DEF Answer
  <2>2. xs \in SUBSET Opened OBVIOUS
  <2>3. registry \in [Key -> Exposure \cup {NoExposure}]
    BY <2>1, <2>2, WithFreshType
  <2>4. item' \in [Key -> Exposure \cup {NoExposure}]
    BY <2>1, <2>3, WithoutExpiredType
  <2>5. call' \in [Call -> InFlight \cup {Idle}] /\ Queues'
    BY <1>12, BesideQueues DEF Answer
  <2> QED BY <2>4, <2>5, <1>1, <1>12 DEF Answer, Typed
<1>13. ASSUME UNCHANGED vars PROVE IInv'
  BY <1>0, <1>1, <1>13 DEF vars, Typed
<1> QED
  BY <1>3, <1>4, <1>6, <1>7, <1>8, <1>9, <1>10, <1>11, <1>12, <1>13, <1>14, <1>15, <1>16,
     RunSound DEF Next, Registers, Opens, Calls

\* The invariant holds of every behaviour.
THEOREM SessionsInvariant == Spec => []IInv
<1> QED BY InitSound, NextKeeps, PTL DEF Spec

\* Type correctness: the queue of every lock holds the calls that wait for it, each
\* once (the asyncio.Lock of a campaign in the dispatcher).
THEOREM SessionsTypeCorrect == Spec => []TypeOK
<1>1. IInv => TypeOK BY DEF IInv
<1> QED BY <1>1, SessionsInvariant, PTL

\* Only members control actors, in whatever order principals join, are granted
\* actors, and leave (access_change).
THEOREM ActorGrantsAlwaysOfMembers == Spec => []ActorGrantsOfMembers
<1>1. IInv => ActorGrantsOfMembers BY DEF IInv
<1> QED BY <1>1, SessionsInvariant, PTL

\* A legacy call is accepted only with a tool that the caller is authorised to use
\* at that moment, in a phase that lags by one refresh at most: the refresh before the
\* acceptance is enough.
THEOREM AcceptedAlwaysAuthorised == Spec => AcceptedIsAuthorised
<1> DEFINE Accepted(k) ==
             call[k] = Idle /\ call'[k] # Idle /\ call'[k].stage = "waiting"
                            /\ call'[k].session # Modern =>
               /\ Authorised(access[call'[k].campaign], call'[k].who, call'[k].tool)
               /\ call'[k].tool \in Offered(item[call'[k].session].phase)
               /\ item[call'[k].session].age = "fresh"
<1>1. ASSUME IInv, [Next]_vars, NEW k \in Call PROVE Accepted(k)
  <2> USE <1>1 DEF IInv, TypeOK
  <2>1. ASSUME call' = call PROVE Accepted(k) BY <2>1
  <2>2. ASSUME NEW j \in Call, call' = [call EXCEPT ![j] = Idle] PROVE Accepted(k)
    BY <2>2 DEF Typed
  <2>3. ASSUME NEW j \in Call, NEW s, NEW who, NEW c,
               call' = [call EXCEPT ![j] = Answering(s, who, c)]
        PROVE  Accepted(k)
    <3>1. CASE j = k BY <2>3, <3>1 DEF Typed, Answering
    <3>2. CASE j # k BY <2>3, <3>2 DEF Typed
    <3> QED BY <3>1, <3>2
  <2>4. ASSUME NEW j \in Call, NEW s \in Session, NEW t \in Loadable, Accept(j, s, t)
        PROVE  Accepted(k)
    <3> DEFINE e == item[s]
    <3>1. e \in Exposure /\ s \in Opened /\ e.age = "fresh"
      BY <2>4 DEF Accept, InUse, Opened, Typed
    <3>2. Authorised(access[e.campaign], e.principal, t) /\ t \in Offered(e.phase)
      <4>1. t \in Refreshed(e).loaded BY <2>4, <3>1 DEF Accept, WithFresh, Key
      <4> QED BY <4>1, <3>1, RefreshedSound
    <3>3. call' = [call EXCEPT ![j] = [stage |-> "waiting", session |-> s,
                      who |-> e.principal, campaign |-> e.campaign, tool |-> t]]
      BY <2>4 DEF Accept, Enqueue
    <3>4. CASE j = k
      <4>1. call'[k] = [stage |-> "waiting", session |-> s,
                      who |-> e.principal, campaign |-> e.campaign, tool |-> t]
        BY <3>3, <3>4 DEF Typed
      <4> QED BY <4>1, <3>1, <3>2
    <3>5. CASE j # k BY <3>3, <3>5 DEF Typed
    <3> QED BY <3>4, <3>5
  <2>5. ASSUME NEW j \in Call, NEW who \in Principal, NEW c \in Campaign, NEW t \in Callable,
               AcceptModern(j, who, c, t)
        PROVE  Accepted(k)
    <3>1. call' = [call EXCEPT ![j] = [stage |-> "waiting", session |-> Modern,
                      who |-> who, campaign |-> c, tool |-> t]]
      BY <2>5 DEF AcceptModern, Enqueue
    <3>2. CASE j = k
      <4>1. call'[k].session = Modern BY <3>1, <3>2 DEF Typed
      <4> QED BY <4>1
    <3>3. CASE j # k BY <3>1, <3>3 DEF Typed
    <3> QED BY <3>2, <3>3
  <2>6. ASSUME NEW j \in Call, Run(j) PROVE Accepted(k)
    <3>1. CASE call[j].session = Modern
      <4>1. call' = [call EXCEPT ![j] = Idle] BY <2>6, <3>1 DEF Run
      <4> QED BY <4>1, <2>2
    <3>2. CASE call[j].session # Modern
      <4>1. call' = [call EXCEPT ![j] =
                        Answering(call[j].session, call[j].who, call[j].campaign)]
        BY <2>6, <3>2 DEF Run
      <4> QED BY <4>1, <2>3
    <3> QED BY <3>1, <3>2
  <2>7. ASSUME Registers PROVE Accepted(k)
    <3>1. PICK x \in Key :
             \/ Expire(x) \/ Ask(x) \/ AskModern(x)
             \/ \E add, remove \in SUBSET Loadable :
                   \/ SetModern(x, add, remove)
                   \/ \E j \in Call, s \in Session : SetTools(j, s, x, add, remove)
      BY <2>7 DEF Registers
    <3>2. CASE \/ Expire(x) \/ Ask(x) \/ AskModern(x)
               \/ \E add, remove \in SUBSET Loadable : SetModern(x, add, remove)
      BY <3>2, <2>1 DEF Expire, Ask, AskModern, SetModern
    <3>3. CASE \E add, remove \in SUBSET Loadable, j \in Call, s \in Session :
                  SetTools(j, s, x, add, remove)
      <4>1. PICK add \in SUBSET Loadable, remove \in SUBSET Loadable, j \in Call,
                 s \in Session : SetTools(j, s, x, add, remove)
        BY <3>3
      <4>2. call' = [call EXCEPT ![j] = Answering(s, Refreshed(item[x]).principal,
                                                  Refreshed(item[x]).campaign)]
        BY <4>1 DEF SetTools
      <4> QED BY <4>2, <2>3
    <3> QED BY <3>1, <3>2, <3>3
  <2>10. ASSUME Opens PROVE Accepted(k)
    <3>1. CASE \/ \E s \in Session : OpenUnbound(s)
               \/ \E h \in Handle, who \in Principal, c \in Campaign : OpenModern(h, who, c)
      BY <3>1, <2>1 DEF OpenUnbound, OpenModern
    <3>2. CASE \E s \in Session, j \in Call, who \in Principal, c \in Campaign :
                  Open(j, s, who, c)
      <4>1. PICK s \in Session, j \in Call, who \in Principal, c \in Campaign :
                 Open(j, s, who, c)
        BY <3>2
      <4>2. call' = [call EXCEPT ![j] =
                        Answering(s, IF InUse(s) THEN item[s].principal ELSE who, c)]
        BY <4>1 DEF Open
      <4> QED BY <4>2, <2>3
    <3> QED BY <2>10, <3>1, <3>2 DEF Opens
  <2>8. ASSUME Calls PROVE Accepted(k)
    BY <2>8, <2>2, <2>4, <2>5, <2>6 DEF Calls, Fail, Answer
  <2>9. CASE UNCHANGED vars BY <2>9, <2>1 DEF vars
  <2> QED BY <2>7, <2>8, <2>9, <2>10 DEF Next
<1>2. IInv /\ [Next]_vars => [\A k \in Call : Accepted(k)]_vars BY <1>1
<1> QED BY <1>2, SessionsInvariant, PTL DEF Spec, AcceptedIsAuthorised

\* What the queue of a lock says of the calls that wait for it.
LEMMA WaitersAreQueued ==
    ASSUME TypeOK, NEW c \in Campaign, NEW k \in Call
    PROVE  /\ Waits(k, c) <=> \E i \in 1..Len(queue[c]) : queue[c][i] = k
           /\ queue[c] \in Seq(Call)
<1>1. queue[c] \in Seq(Call) BY DEF TypeOK, Typed
<1>2. Contains(queue[c], k) <=> Waits(k, c) BY DEF TypeOK, Queues
<1> QED BY <1>1, <1>2 DEF Contains

\* The lock of a campaign excludes and never goes missing: as long as a call waits
\* for it, exactly one call of that campaign holds it, whatever calls failed, were
\* accepted or were answered before.
THEOREM LockIsHeldByOne ==
    Spec => [](\A c \in Campaign, k \in Call : Waits(k, c) =>
                  \E h \in Call : /\ Holds(h) /\ Waits(h, c)
                                   /\ \A j \in Call : Holds(j) /\ Waits(j, c) => j = h)
<1> DEFINE Held == \A c \in Campaign, k \in Call : Waits(k, c) =>
                      \E h \in Call : /\ Holds(h) /\ Waits(h, c)
                                       /\ \A j \in Call : Holds(j) /\ Waits(j, c) => j = h
<1>1. IInv => Held
  <2> SUFFICES ASSUME IInv, NEW c \in Campaign, NEW k \in Call, Waits(k, c)
               PROVE  \E h \in Call : /\ Holds(h) /\ Waits(h, c)
                                       /\ \A j \in Call : Holds(j) /\ Waits(j, c) => j = h
    BY Zenon
  <2>1. TypeOK BY DEF IInv
  <2>2. PICK i \in 1..Len(queue[c]) : queue[c][i] = k BY <2>1, WaitersAreQueued
  <2>3. queue[c] \in Seq(Call) BY <2>1, WaitersAreQueued
  <2>4. 1 \in 1..Len(queue[c]) /\ Head(queue[c]) = queue[c][1] /\ Head(queue[c]) \in Call
    BY <2>2, <2>3
  <2> DEFINE h == Head(queue[c])
  <2>5. Waits(h, c) BY <2>1, <2>4, WaitersAreQueued
  <2>6. Holds(h) BY <2>5 DEF Holds, Waits
  <2>7. \A j \in Call : Holds(j) /\ Waits(j, c) => j = h BY DEF Holds, Waits
  <2> QED BY <2>4, <2>5, <2>6, <2>7
<1> QED BY <1>1, SessionsInvariant, PTL
===============================================================================
