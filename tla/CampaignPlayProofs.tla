--------------------------- MODULE CampaignPlayProofs ---------------------------
(***************************************************************************)
(* What CampaignPlay promises for every set of principals, scenes and      *)
(* conversations, and for every lease time and limit.                      *)
(*                                                                         *)
(* Recovery puts a snapshot back, so everything that a document keeps is   *)
(* stated of the head of every branch as well: DocumentSound speaks of     *)
(* both.  It also names what makes the steps agree.  No conversation is more recent than  *)
(* the revision, so whatever raises the revision makes stale every open    *)
(* conversation that it does not write.  No activation has a runtime that  *)
(* a later refresh could draw again.  A conversation that was not drawn    *)
(* is not in any document.                                                 *)
(*                                                                         *)
(* The last theorems bound what the run play_stuck shows: only a step that *)
(* changes the branch leaves a conversation that cannot be aborted, and    *)
(* never on the branch the campaign was created on.                        *)
(***************************************************************************)
EXTENDS CampaignPlay, SequenceTheorems, TLAPS

\* Nothing in the conversation t comes from a revision after n.
Past(t, n) ==
    /\ t.at <= n
    /\ \A i \in DOMAIN t.activations : t.activations[i].runtime <= n

\* The last activation works, under the conversation's own runtime; the others
\* do not work and hold no lease.
LastWorks(t) ==
    /\ t.activations # << >>
    /\ Working(Last(t.activations)) /\ Last(t.activations).runtime = t.runtime
    /\ \A i \in 1..Len(t.activations) - 1 :
          /\ ~Working(t.activations[i])
          /\ t.activations[i].lease = NoLease
          /\ t.activations[i].runtime # t.runtime

\* What an open conversation has: a context, one working activation, and the
\* publication of every proposal that is marked as published.
Going(t) ==
    /\ t.context \in Context
    /\ LastWorks(t)
    /\ \A p \in t.proposals : p.published => p.id \in t.publications

\* What a conversation that has ended keeps.
Over(t) ==
    /\ t.proposals = {} /\ t.context = NoContext
    /\ t.accepted \subseteq t.publications
    /\ t.status = "aborted" => t.accepted = {}

TalkSound(t, n) ==
    /\ Past(t, n)
    /\ t.status = "open" => Going(t)
    /\ t.status \in {"closed", "aborted"} => Over(t)

\* PhaseDiscipline, of any document.
Disciplined(d) ==
    /\ d.conflict # Nobody <=> d.phase = "conflict"
    /\ d.phase = "lobby" => d.scene = NoScene
    /\ (\E c \in Conversation : d.talk[c].status = "open") =>
          d.phase = "play" /\ d.conflict = Nobody
    /\ d.scene \notin d.ended

\* A document that every step and every restore may leave at revision n, when
\* the conversations in drawn exist.
DocumentSound(d, n, drawn) ==
    /\ d \in Document
    /\ Disciplined(d)
    /\ \A c \in Conversation :
          /\ TalkSound(d.talk[c], n)
          /\ d.talk[c].status # "absent" => c \in drawn

\* What the branches have at their heads at revision n.
HeadsSound(h, n, drawn) ==
    \A b \in DOMAIN h : h[b] # NoSnapshot => DocumentSound(h[b], n, drawn)

\* A write leaves the heads alone or puts its document at that of its branch.
KeepsHeads == heads' = heads \/ heads' = [heads EXCEPT ![branch] = doc']

IInv ==
    /\ TypeOK
    /\ DocumentSound(doc, revision, used)
    /\ HeadsSound(heads, revision, used)
    /\ OneCurrent
    /\ CurrentContext

USE BoundsAssumption, FacilitatorAssumption, NullsAssumption

-----------------------------------------------------------------------------
(* Conversations *)

\* The parts of a conversation have their types.
LEMMA TalkParts ==
    ASSUME NEW t \in Talk
    PROVE  /\ t.status \in Status /\ t.at \in Nat /\ t.runtime \in Nat
           /\ t.context \in Context \cup {NoContext}
           /\ t.activations \in Seq(Activation) /\ t.proposals \subseteq Proposal
           /\ t.publications \subseteq Nat /\ t.accepted \subseteq Nat
BY DEF Talk

\* A sequence with one element replaced.
LEMMA ReplaceOne ==
    ASSUME NEW S, NEW s \in Seq(S), NEW i \in DOMAIN s, NEW x \in S
    PROVE  /\ [s EXCEPT ![i] = x] \in Seq(S) /\ Len([s EXCEPT ![i] = x]) = Len(s)
           /\ i \in 1..Len(s) /\ DOMAIN [s EXCEPT ![i] = x] = DOMAIN s
           /\ \A j \in DOMAIN s : [s EXCEPT ![i] = x][j] = IF j = i THEN x ELSE s[j]
OBVIOUS

\* When only the last activation works, a refresh finds it.
LEMMA RefreshFindsLast ==
    ASSUME NEW t \in Talk, LastWorks(t)
    PROVE  /\ SelectLastInSeq(t.activations, Working) = Len(t.activations)
           /\ Len(t.activations) \in DOMAIN t.activations
<1> DEFINE s == t.activations
           I == {i \in 1..Len(s) : Working(s[i])}
<1>1. s \in Seq(Activation) /\ s # << >> BY TalkParts DEF LastWorks
<1>2. Len(s) \in Nat /\ Len(s) > 0 /\ DOMAIN s = 1..Len(s) BY <1>1
<1>3. Working(s[Len(s)]) /\ \A i \in 1..Len(s) - 1 : ~Working(s[i])
  BY DEF LastWorks, Last
<1>4. I = {Len(s)}
  <2> SUFFICES ASSUME NEW i \in 1..Len(s) PROVE Working(s[i]) <=> i = Len(s)
    BY <1>2
  <2>1. i = Len(s) \/ i \in 1..Len(s) - 1 BY <1>2
  <2> QED BY <2>1, <1>3, <1>2
<1>5. Max({Len(s)}) = Len(s) BY <1>2 DEF Max
<1>6. SelectLastInSeq(s, Working) = IF I # {} THEN Max(I) ELSE 0 BY DEF SelectLastInSeq
<1> QED BY <1>2, <1>4, <1>5, <1>6

\* Only the last activation can be claimed.
LEMMA WorkingIsLast ==
    ASSUME NEW t \in Talk, LastWorks(t), NEW i \in DOMAIN t.activations,
           Working(t.activations[i]) \/ t.activations[i].lease # NoLease
    PROVE  i = Len(t.activations)
<1>1. t.activations \in Seq(Activation) BY TalkParts
<1>2. i \in 1..Len(t.activations) /\ Len(t.activations) \in Nat BY <1>1
<1>3. i \notin 1..Len(t.activations) - 1 BY DEF LastWorks
<1> QED BY <1>2, <1>3

\* A later revision makes no document worse, nor does another conversation.
LEMMA LaterSound ==
    ASSUME NEW d, NEW n \in Nat, NEW m \in Nat, NEW drawn, NEW more,
           DocumentSound(d, n, drawn), n <= m, drawn \subseteq more
    PROVE  DocumentSound(d, m, more)
<1>1. ASSUME NEW c \in Conversation PROVE TalkSound(d.talk[c], m)
  <2> DEFINE t == d.talk[c]
  <2>1. t \in Talk /\ TalkSound(t, n) BY DEF DocumentSound, Document
  <2>2. t.at \in Nat /\ t.activations \in Seq(Activation) BY <2>1, TalkParts
  <2>3. ASSUME NEW i \in DOMAIN t.activations PROVE t.activations[i].runtime <= m
    <3>1. t.activations[i] \in Activation BY <2>2
    <3>2. t.activations[i].runtime \in Nat BY <3>1 DEF Activation
    <3>3. t.activations[i].runtime <= n BY <2>1 DEF TalkSound, Past
    <3> QED BY <3>2, <3>3
  <2>4. t.at <= m BY <2>1, <2>2 DEF TalkSound, Past
  <2>5. Past(t, m) BY <2>3, <2>4 DEF Past
  <2> QED BY <2>1, <2>5 DEF TalkSound
<1> QED BY <1>1 DEF DocumentSound

\* Marking the time of a conversation.
LEMMA Marked ==
    ASSUME NEW t \in Talk, NEW n \in Nat
    PROVE  /\ [t EXCEPT !.at = n] \in Talk /\ [t EXCEPT !.at = n].at = n
           /\ [t EXCEPT !.at = n].status = t.status
           /\ [t EXCEPT !.at = n].context = t.context
           /\ [t EXCEPT !.at = n].runtime = t.runtime
           /\ [t EXCEPT !.at = n].activations = t.activations
           /\ [t EXCEPT !.at = n].proposals = t.proposals
           /\ [t EXCEPT !.at = n].publications = t.publications
           /\ [t EXCEPT !.at = n].accepted = t.accepted
BY DEF Talk

\* That a conversation has not more than it should says nothing of its time.
LEMMA MarkedSound ==
    ASSUME NEW t \in Talk, NEW n \in Nat, NEW s \in Talk,
           s.status = t.status, s.context = t.context, s.runtime = t.runtime,
           s.activations = t.activations, s.proposals = t.proposals,
           s.publications = t.publications, s.accepted = t.accepted, s.at <= n,
           \A i \in DOMAIN t.activations : t.activations[i].runtime <= n,
           t.status = "open" => Going(t),
           t.status \in {"closed", "aborted"} => Over(t)
    PROVE  TalkSound(s, n)
BY DEF TalkSound, Past, Going, LastWorks, Over

\* The same of the heads of the branches.
LEMMA LaterHeads ==
    ASSUME NEW h, NEW n \in Nat, NEW m \in Nat, NEW drawn, NEW more,
           HeadsSound(h, n, drawn), n <= m, drawn \subseteq more
    PROVE  HeadsSound(h, m, more)
BY LaterSound DEF HeadsSound

\* A sound document makes a sound head.
LEMMA KeptHeads ==
    ASSUME IInv, KeepsHeads, branch' = branch, NEW n \in Nat, NEW drawn,
           HeadsSound(heads, n, drawn), DocumentSound(doc', n, drawn)
    PROVE  /\ HeadsSound(heads', n, drawn)
           /\ heads' \in Seq(Document \cup {NoSnapshot}) /\ branch' \in DOMAIN heads'
<1>1. heads \in Seq(Document \cup {NoSnapshot}) /\ branch \in DOMAIN heads
  BY DEF IInv, TypeOK
<1>2. CASE heads' = heads
  BY <1>1, <1>2
<1>3. CASE heads' = [heads EXCEPT ![branch] = doc']
  <2>1. doc' \in Document \cup {NoSnapshot}
    BY DEF DocumentSound
  <2>2. /\ heads' \in Seq(Document \cup {NoSnapshot}) /\ DOMAIN heads' = DOMAIN heads
        /\ \A b \in DOMAIN heads : heads'[b] = IF b = branch THEN doc' ELSE heads[b]
    BY <1>1, <1>3, <2>1, ReplaceOne
  <2> QED
    BY <1>1, <2>2 DEF HeadsSound
<1> QED
  BY <1>2, <1>3 DEF KeepsHeads

-----------------------------------------------------------------------------
(* Steps *)

\* A write while no conversation is open: there is nothing to make stale.
LEMMA CalmStep ==
    ASSUME IInv, ~Frozen, revision < MaxRevision, revision' = revision + 1,
           branch' = branch, now' = now, used' = used, packets' = packets,
           doc' \in Document, Disciplined(doc'), doc'.talk = doc.talk, KeepsHeads
    PROVE  IInv'
<1>1. revision \in Nat /\ revision + 1 \in Nat /\ revision <= revision + 1
      /\ revision + 1 \in 0..MaxRevision
  BY DEF IInv, TypeOK
<1>2. DocumentSound(doc, revision + 1, used) BY <1>1, LaterSound DEF IInv
<1>3. DocumentSound(doc', revision + 1, used) BY <1>2 DEF DocumentSound
<1>4. HeadsSound(heads, revision + 1, used) BY <1>1, LaterHeads DEF IInv
<1>5. /\ HeadsSound(heads', revision + 1, used)
      /\ heads' \in Seq(Document \cup {NoSnapshot}) /\ branch' \in DOMAIN heads'
  BY <1>1, <1>3, <1>4, KeptHeads
<1>6. TypeOK' BY <1>1, <1>5 DEF IInv, TypeOK
<1>7. \A c \in Conversation : ~Open(c)' BY DEF Frozen, Open
<1>8. OneCurrent' BY <1>7 DEF OneCurrent
<1>9. CurrentContext' BY <1>7 DEF CurrentContext, Live
<1> QED BY <1>3, <1>5, <1>6, <1>8, <1>9 DEF IInv

\* A write to the conversation c makes all others stale.
LEMMA TalkStep ==
    ASSUME IInv, Quiet, revision < MaxRevision, revision' = revision + 1,
           branch' = branch, now' = now, packets' \subseteq Packet,
           used \subseteq used', used' \subseteq Conversation,
           KeepsHeads,
           doc' \in Document, doc'.phase = doc.phase, doc'.conflict = doc.conflict,
           doc'.scene = doc.scene, doc'.ended = doc.ended,
           NEW c \in Conversation, c \in used', NEW s \in Talk,
           doc'.talk = [doc.talk EXCEPT ![c] = s],
           TalkSound(s, revision + 1),
           s.status = "open" =>
               /\ doc'.memory = doc.memory /\ s.context = MemoryContext
               /\ \A p \in s.proposals : p.context = MemoryContext
    PROVE  IInv'
<1>1. revision \in Nat /\ revision + 1 \in Nat /\ revision <= revision + 1
      /\ revision + 1 \in 0..MaxRevision
  BY DEF IInv, TypeOK
<1>2. DocumentSound(doc, revision + 1, used') BY <1>1, LaterSound DEF IInv
<1>3. doc.talk \in [Conversation -> Talk] BY DEF IInv, TypeOK, Document
<1>4. doc'.talk[c] = s /\ \A d \in Conversation : d # c => doc'.talk[d] = doc.talk[d]
  BY <1>3
<1>5. Disciplined(doc') BY DEF IInv, DocumentSound, Disciplined, Quiet
<1>6. DocumentSound(doc', revision + 1, used') BY <1>2, <1>4, <1>5 DEF DocumentSound
<1>7. HeadsSound(heads, revision + 1, used') BY <1>1, LaterHeads DEF IInv
<1>8. /\ HeadsSound(heads', revision + 1, used')
      /\ heads' \in Seq(Document \cup {NoSnapshot}) /\ branch' \in DOMAIN heads'
  BY <1>1, <1>6, <1>7, KeptHeads
<1>9. TypeOK' BY <1>1, <1>8 DEF IInv, TypeOK
<1>10. \A d \in Conversation : d # c => doc'.talk[d].at # revision + 1
  <2> SUFFICES ASSUME NEW d \in Conversation, d # c PROVE doc.talk[d].at # revision + 1
    BY <1>4
  <2>1. doc.talk[d].at <= revision BY DEF IInv, DocumentSound, TalkSound, Past
  <2>2. doc.talk[d].at \in Nat BY <1>3, TalkParts
  <2> QED BY <2>1, <2>2, <1>1
<1>11. OneCurrent' BY <1>10 DEF OneCurrent
<1>12. CurrentContext'
  <2> SUFFICES ASSUME NEW d \in Conversation, Live(d)', doc'.talk[d].at = revision + 1
               PROVE  /\ doc'.talk[d].context = MemoryContext'
                      /\ \A p \in doc'.talk[d].proposals : p.context = MemoryContext'
    BY DEF CurrentContext
  <2>1. d = c /\ s.status = "open" BY <1>4, <1>10 DEF Live, Open
  <2>2. MemoryContext' = MemoryContext BY <2>1 DEF MemoryContext
  <2> QED BY <2>1, <2>2, <1>4
<1> QED BY <1>6, <1>8, <1>9, <1>11, <1>12 DEF IInv

\* What a conversation operation makes of its conversation.
LEMMA BecomesStep ==
    ASSUME IInv, Quiet, NEW c \in Conversation, NEW t \in Talk, Becomes(c, t),
           packets' \subseteq Packet, heads' = heads,
           used \subseteq used', used' \subseteq Conversation, c \in used',
           \A i \in DOMAIN t.activations : t.activations[i].runtime <= revision + 1,
           t.status = "open" => Going(t),
           t.status \in {"closed", "aborted"} => Over(t),
           t.status = "open" =>
               /\ t.context = MemoryContext
               /\ \A p \in t.proposals : p.context = MemoryContext
    PROVE  IInv'
<1> DEFINE s == [t EXCEPT !.at = revision + 1]
<1>1. revision \in Nat /\ revision + 1 \in Nat BY DEF IInv, TypeOK
<1>2. /\ s \in Talk /\ s.at = revision + 1 /\ s.status = t.status /\ s.context = t.context
      /\ s.runtime = t.runtime /\ s.activations = t.activations
      /\ s.proposals = t.proposals /\ s.publications = t.publications
      /\ s.accepted = t.accepted
  BY <1>1, Marked
<1>3. /\ revision < MaxRevision /\ revision' = revision + 1 /\ branch' = branch /\ now' = now
      /\ doc' = [doc EXCEPT !.talk[c] = s]
  BY DEF Becomes, Write
<1> HIDE DEF s
<1>4. doc \in Document /\ doc.talk \in [Conversation -> Talk] BY DEF IInv, TypeOK, Document
<1>5. /\ doc' \in Document /\ doc'.phase = doc.phase /\ doc'.conflict = doc.conflict
      /\ doc'.scene = doc.scene /\ doc'.ended = doc.ended /\ doc'.memory = doc.memory
      /\ doc'.talk = [doc.talk EXCEPT ![c] = s]
  BY <1>2, <1>3, <1>4 DEF Document
<1>6. TalkSound(s, revision + 1)
  <2>1. s.at <= revision + 1 BY <1>1, <1>2
  <2> QED BY <1>1, <1>2, <2>1, MarkedSound
<1>7. KeepsHeads BY DEF KeepsHeads
<1> QED BY <1>2, <1>3, <1>5, <1>6, <1>7, TalkStep

\* What an operation on a current conversation finds.
LEMMA CurrentTalk ==
    ASSUME IInv, NEW c \in Conversation, Live(c)
    PROVE  /\ Quiet /\ c \in used /\ used \subseteq Conversation
           /\ doc.talk[c] \in Talk /\ doc.talk[c].status = "open" /\ Going(doc.talk[c])
           /\ \A i \in DOMAIN doc.talk[c].activations :
                 /\ doc.talk[c].activations[i] \in Activation
                 /\ doc.talk[c].activations[i].runtime \in Nat
                 /\ doc.talk[c].activations[i].runtime <= revision
                 /\ doc.talk[c].activations[i].runtime <= revision + 1
           /\ Current(c) =>
                 /\ doc.talk[c].context = MemoryContext
                 /\ \A p \in doc.talk[c].proposals : p.context = MemoryContext
<1> DEFINE t == doc.talk[c]
<1>1. t \in Talk BY DEF IInv, TypeOK, Document
<1>2. Quiet /\ t.status = "open" BY DEF Live, Open
<1>3. TalkSound(t, revision) /\ c \in used BY <1>2 DEF IInv, DocumentSound
<1>4. Going(t) BY <1>2, <1>3 DEF TalkSound
<1>5. used \subseteq Conversation /\ revision \in Nat BY DEF IInv, TypeOK
<1>6. ASSUME NEW i \in DOMAIN t.activations
      PROVE  /\ t.activations[i] \in Activation /\ t.activations[i].runtime \in Nat
             /\ t.activations[i].runtime <= revision
             /\ t.activations[i].runtime <= revision + 1
  <2>1. t.activations[i] \in Activation BY <1>1, TalkParts
  <2>2. t.activations[i].runtime \in Nat BY <2>1 DEF Activation
  <2>3. t.activations[i].runtime <= revision BY <1>3 DEF TalkSound, Past
  <2> QED BY <2>1, <2>2, <2>3, <1>5
<1>7. Current(c) => /\ t.context = MemoryContext
                    /\ \A p \in t.proposals : p.context = MemoryContext
  BY DEF IInv, CurrentContext, Current
<1> QED BY <1>1, <1>2, <1>3, <1>4, <1>5, <1>6, <1>7

\* The memory that a conversation is opened on, and that a refresh reads.
LEMMA MemoryContextType ==
    ASSUME IInv
    PROVE  MemoryContext \in Context /\ revision \in Nat /\ revision + 1 \in Nat /\ now \in Nat
BY DEF IInv, TypeOK, Document, Context, MemoryContext

\* A conversation that was never opened has nothing.
LEMMA NoTalkType == NoTalk \in Talk
<1>1. << >> \in Seq(Activation) OBVIOUS
<1> QED BY <1>1 DEF NoTalk, Talk, Status

\* Opening a conversation.
LEMMA OpenTalkStep ==
    ASSUME IInv, NEW c \in Conversation, OpenTalk(c)
    PROVE  IInv'
<1> DEFINE a == FreshActivation(revision + 1)
           t == [NoTalk EXCEPT !.status = "open", !.context = MemoryContext,
                               !.runtime = revision + 1, !.activations = <<a>>]
<1>1. MemoryContext \in Context /\ revision \in Nat /\ revision + 1 \in Nat
  BY MemoryContextType
<1>2. a \in Activation /\ a.runtime = revision + 1 /\ Working(a)
  BY <1>1 DEF FreshActivation, Activation, Working
<1> HIDE DEF a
<1>3. <<a>> \in Seq(Activation) /\ Len(<<a>>) = 1 /\ <<a>>[1] = a /\ DOMAIN <<a>> = 1..1
  BY <1>2
<1>4. /\ t.status = "open" /\ t.context = MemoryContext /\ t.runtime = revision + 1
      /\ t.activations = <<a>> /\ t.proposals = {} /\ t.publications = {} /\ t.accepted = {}
  BY DEF NoTalk
<1>5. t \in Talk BY <1>1, <1>3, NoTalkType DEF NoTalk, Talk, Status
<1>6. Becomes(c, t) /\ Quiet BY DEF OpenTalk, a
<1> HIDE DEF t
<1>7. LastWorks(t) BY <1>2, <1>3, <1>4 DEF LastWorks, Last
<1>8. Going(t) BY <1>1, <1>4, <1>7 DEF Going
<1>9. \A i \in DOMAIN t.activations : t.activations[i].runtime <= revision + 1
  BY <1>1, <1>2, <1>3, <1>4
<1>10. /\ packets' \subseteq Packet /\ heads' = heads /\ used \subseteq used'
       /\ used' \subseteq Conversation /\ c \in used'
  BY DEF OpenTalk, IInv, TypeOK
<1> QED BY <1>4, <1>5, <1>6, <1>8, <1>9, <1>10, BecomesStep

\* Claiming the work of an activation: it is the last one.
LEMMA ClaimStep ==
    ASSUME IInv, NEW c \in Conversation, NEW i \in DOMAIN doc.talk[c].activations, Claim(c, i)
    PROVE  IInv'
<1> DEFINE t == doc.talk[c]
           lease == [id |-> revision + 1, expires |-> now + LeaseTime, context |-> t.context]
           a == t.activations[i]
           x == [a EXCEPT !.status = "claimed", !.lease = lease]
           u == [t EXCEPT !.activations[i].status = "claimed",
                          !.activations[i].lease = lease]
           k == [talk |-> c, activation |-> i, lease |-> lease.id,
                 runtime |-> a.runtime, context |-> t.context]
<1>1. Live(c) /\ Current(c) /\ a.status = "pending" /\ Becomes(c, u)
      /\ packets' = packets \cup {k} /\ heads' = heads /\ used' = used
  BY DEF Claim, Current
<1>2. /\ Quiet /\ c \in used /\ used \subseteq Conversation
      /\ t \in Talk /\ t.status = "open" /\ Going(t)
      /\ \A j \in DOMAIN t.activations :
            t.activations[j] \in Activation /\ t.activations[j].runtime <= revision + 1
      /\ t.context = MemoryContext /\ \A p \in t.proposals : p.context = MemoryContext
  BY <1>1, CurrentTalk
<1>3. t.activations \in Seq(Activation) /\ a \in Activation BY <1>2, TalkParts
<1>4. LastWorks(t) BY <1>2 DEF Going
<1>5. i = Len(t.activations) /\ i \in 1..Len(t.activations) /\ i \in Nat
  BY <1>1, <1>2, <1>3, <1>4, WorkingIsLast DEF Working
<1>6. lease \in Lease BY <1>2, MemoryContextType DEF Lease, BoundsAssumption
<1> HIDE DEF lease
<1>7. x \in Activation /\ x.runtime = a.runtime /\ Working(x)
  BY <1>3, <1>6 DEF Activation, Working
<1> DEFINE claimed == [t.activations EXCEPT ![i] = x]
<1>8. /\ u.activations = claimed
      /\ u.status = t.status /\ u.context = t.context /\ u.runtime = t.runtime
      /\ u.proposals = t.proposals /\ u.publications = t.publications
  BY <1>2, <1>3 DEF Talk, Activation
<1>9. k \in Packet
  BY <1>2, <1>3, <1>5, <1>6, MemoryContextType DEF Packet, Lease, Activation
<1> HIDE DEF x, k
<1>10. /\ claimed \in Seq(Activation) /\ Len(claimed) = Len(t.activations)
      /\ DOMAIN claimed = DOMAIN t.activations
      /\ \A j \in DOMAIN t.activations : claimed[j] = IF j = i THEN x ELSE t.activations[j]
  BY <1>3, <1>7, ReplaceOne
<1> HIDE DEF claimed
<1>11. u \in Talk BY <1>2, <1>8, <1>10 DEF Talk
<1> HIDE DEF u
<1>12. packets' \subseteq Packet BY <1>1, <1>9 DEF IInv, TypeOK
<1>13. LastWorks(u)
  <2>1. u.activations # << >> BY <1>5, <1>8, <1>10
  <2>2. Last(u.activations) = x BY <1>5, <1>8, <1>10 DEF Last
  <2>3. Last(t.activations) = a BY <1>5 DEF Last
  <2>4. \A j \in 1..Len(t.activations) - 1 : j \in DOMAIN t.activations /\ j # i
    BY <1>3, <1>5
  <2> QED BY <2>1, <2>2, <2>3, <2>4, <1>4, <1>7, <1>8, <1>10 DEF LastWorks
<1>14. Going(u) BY <1>2, <1>8, <1>13 DEF Going
<1>15. \A j \in DOMAIN u.activations : u.activations[j].runtime <= revision + 1
  BY <1>2, <1>7, <1>8, <1>10
<1> QED BY <1>1, <1>2, <1>8, <1>11, <1>12, <1>14, <1>15, BecomesStep

\* Refreshing a conversation: what it replaces was its last activation.
LEMMA RefreshStep ==
    ASSUME IInv, NEW c \in Conversation, Refresh(c)
    PROVE  IInv'
<1> DEFINE t == doc.talk[c]
           n == Len(t.activations)
           x == [t.activations[n] EXCEPT !.status = "invalidated", !.lease = NoLease]
           replaced == [t.activations EXCEPT ![n] = x]
           a == FreshActivation(revision + 1)
           u == [t EXCEPT !.context = MemoryContext, !.runtime = revision + 1,
                          !.activations = Append(replaced, a)]
<1>1. Live(c) /\ Current(c) BY DEF Refresh, Current
<1>2. /\ Quiet /\ c \in used /\ used \subseteq Conversation
      /\ t \in Talk /\ t.status = "open" /\ Going(t)
      /\ \A j \in DOMAIN t.activations :
            /\ t.activations[j] \in Activation /\ t.activations[j].runtime \in Nat
            /\ t.activations[j].runtime <= revision
      /\ t.context = MemoryContext /\ \A p \in t.proposals : p.context = MemoryContext
  BY <1>1, CurrentTalk
<1>3. MemoryContext \in Context /\ revision \in Nat /\ revision + 1 \in Nat
  BY MemoryContextType
<1>4. t.activations \in Seq(Activation) BY <1>2, TalkParts
<1>5. LastWorks(t) BY <1>2 DEF Going
<1>6. SelectLastInSeq(t.activations, Working) = n /\ n \in DOMAIN t.activations
  BY <1>2, <1>5, RefreshFindsLast
<1>7. n \in Nat /\ n \in 1..n /\ DOMAIN t.activations = 1..n BY <1>4, <1>6
<1>8. replaced = [t.activations EXCEPT ![n].status = "invalidated", ![n].lease = NoLease]
  BY <1>2, <1>4, <1>6 DEF Activation
<1>9. Becomes(c, u) /\ heads' = heads /\ packets' = packets /\ used' = used
  BY <1>6, <1>8 DEF Refresh
<1>10. x \in Activation /\ x.runtime = t.activations[n].runtime /\ x.lease = NoLease
       /\ ~Working(x)
  BY <1>2, <1>6 DEF Activation, Working
<1>11. a \in Activation /\ a.runtime = revision + 1 /\ Working(a)
  BY <1>3 DEF FreshActivation, Activation, Working
<1> HIDE DEF x, a
<1>12. /\ replaced \in Seq(Activation) /\ Len(replaced) = n
       /\ \A j \in 1..n : replaced[j] = IF j = n THEN x ELSE t.activations[j]
  BY <1>4, <1>6, <1>7, <1>10, ReplaceOne
<1> HIDE DEF replaced
<1>13. /\ Append(replaced, a) \in Seq(Activation) /\ Len(Append(replaced, a)) = n + 1
       /\ Append(replaced, a)[n + 1] = a
       /\ \A j \in 1..n : Append(replaced, a)[j] = replaced[j]
  BY <1>7, <1>11, <1>12
<1>14. /\ u.activations = Append(replaced, a) /\ u.context = MemoryContext
       /\ u.runtime = revision + 1 /\ u.status = t.status
       /\ u.proposals = t.proposals /\ u.publications = t.publications
  BY <1>2 DEF Talk
<1>15. u \in Talk BY <1>2, <1>3, <1>13 DEF Talk
<1> HIDE DEF u
<1>16. /\ u.activations[n + 1] = a /\ Len(u.activations) = n + 1
       /\ DOMAIN u.activations = 1..(n + 1)
       /\ \A j \in 1..n : u.activations[j] = IF j = n THEN x ELSE t.activations[j]
  BY <1>7, <1>12, <1>13, <1>14
<1> HIDE DEF n
<1>17. LastWorks(u)
  <2>1. u.activations # << >> BY <1>7, <1>16
  <2>2. Last(u.activations) = a BY <1>16 DEF Last
  <2>3. ASSUME NEW j \in 1..Len(u.activations) - 1
        PROVE  /\ ~Working(u.activations[j]) /\ u.activations[j].lease = NoLease
               /\ u.activations[j].runtime # u.runtime
    <3>1. j \in 1..n /\ j \in DOMAIN t.activations BY <1>7, <1>16
    <3>2. u.activations[j].runtime = t.activations[j].runtime BY <3>1, <1>10, <1>16
    <3>3. t.activations[j].runtime # revision + 1 BY <3>1, <1>2, <1>3
    <3>4. CASE j = n BY <3>1, <3>2, <3>3, <3>4, <1>10, <1>14, <1>16
    <3>5. CASE j # n
      <4>1. j \in 1..n - 1 BY <3>1, <3>5, <1>7
      <4>2. ~Working(t.activations[j]) /\ t.activations[j].lease = NoLease
        BY <4>1, <1>5 DEF LastWorks, n
      <4> QED BY <4>2, <3>1, <3>2, <3>3, <3>5, <1>14, <1>16
    <3> QED BY <3>4, <3>5
  <2> QED BY <2>1, <2>2, <2>3, <1>11, <1>14 DEF LastWorks
<1>18. Going(u) BY <1>2, <1>3, <1>14, <1>17 DEF Going
<1>19. \A j \in DOMAIN u.activations : u.activations[j].runtime <= revision + 1
  <2> SUFFICES ASSUME NEW j \in 1..(n + 1) PROVE u.activations[j].runtime <= revision + 1
    BY <1>16
  <2>1. CASE j = n + 1 BY <2>1, <1>3, <1>11, <1>16
  <2>2. CASE j # n + 1
    <3>1. j \in 1..n /\ j \in DOMAIN t.activations BY <2>2, <1>7
    <3>2. u.activations[j].runtime = t.activations[j].runtime BY <3>1, <1>10, <1>16
    <3> QED BY <3>1, <3>2, <1>2, <1>3
  <2> QED BY <2>1, <2>2
<1>20. packets' \subseteq Packet BY <1>9 DEF IInv, TypeOK
<1> QED BY <1>2, <1>9, <1>14, <1>15, <1>18, <1>19, <1>20, BecomesStep

\* A proposal comes from the context that the conversation has.
LEMMA ProposeStep ==
    ASSUME IInv, NEW k \in packets, Propose(k)
    PROVE  IInv'
<1> DEFINE c == k.talk
           t == doc.talk[c]
           p == [id |-> revision + 1, context |-> k.context, published |-> FALSE]
           u == [t EXCEPT !.proposals = @ \cup {p}]
<1>1. Live(c) /\ Current(c) /\ Answers(k, t) /\ Becomes(c, u)
      /\ packets' = packets /\ heads' = heads /\ used' = used
  BY DEF Propose, Current
<1>2. k \in Packet /\ c \in Conversation /\ k.context \in Context
  BY DEF IInv, TypeOK, Packet
<1>3. /\ Quiet /\ c \in used /\ used \subseteq Conversation
      /\ t \in Talk /\ t.status = "open" /\ Going(t)
      /\ \A j \in DOMAIN t.activations : t.activations[j].runtime <= revision + 1
      /\ t.context = MemoryContext /\ \A q \in t.proposals : q.context = MemoryContext
  BY <1>1, <1>2, CurrentTalk
<1>4. k.context = t.context BY <1>1 DEF Answers
<1>5. p \in Proposal BY <1>2, MemoryContextType DEF Proposal
<1>6. p.context = MemoryContext /\ ~p.published BY <1>3, <1>4
<1> HIDE DEF p
<1>7. /\ u.proposals = t.proposals \cup {p}
      /\ u.status = t.status /\ u.context = t.context /\ u.runtime = t.runtime
      /\ u.activations = t.activations /\ u.publications = t.publications
  BY <1>3 DEF Talk
<1>8. u \in Talk BY <1>3, <1>5 DEF Talk
<1> HIDE DEF u
<1>9. LastWorks(u) BY <1>3, <1>7 DEF Going, LastWorks
<1>10. Going(u) BY <1>3, <1>6, <1>7, <1>9 DEF Going
<1>11. /\ \A j \in DOMAIN u.activations : u.activations[j].runtime <= revision + 1
       /\ u.context = MemoryContext /\ \A q \in u.proposals : q.context = MemoryContext
  BY <1>3, <1>6, <1>7
<1>12. packets' \subseteq Packet BY <1>1 DEF IInv, TypeOK
<1> QED BY <1>1, <1>2, <1>3, <1>7, <1>8, <1>10, <1>11, <1>12, BecomesStep

\* Publishing records the publication along with its mark.
LEMMA PublishStep ==
    ASSUME IInv, NEW c \in Conversation, NEW p \in doc.talk[c].proposals, Publish(c, p)
    PROVE  IInv'
<1> DEFINE t == doc.talk[c]
           q == [p EXCEPT !.published = TRUE]
           u == [t EXCEPT !.proposals = (@ \ {p}) \cup {q}, !.publications = @ \cup {p.id}]
<1>1. Live(c) /\ Current(c) /\ Becomes(c, u)
      /\ packets' = packets /\ heads' = heads /\ used' = used
  BY DEF Publish, Current
<1>2. /\ Quiet /\ c \in used /\ used \subseteq Conversation
      /\ t \in Talk /\ t.status = "open" /\ Going(t)
      /\ \A j \in DOMAIN t.activations : t.activations[j].runtime <= revision + 1
      /\ t.context = MemoryContext /\ \A r \in t.proposals : r.context = MemoryContext
  BY <1>1, CurrentTalk
<1>3. p \in Proposal BY <1>2, TalkParts
<1>4. q \in Proposal /\ q.id = p.id /\ q.context = MemoryContext /\ p.id \in Nat
  BY <1>2, <1>3 DEF Proposal
<1> HIDE DEF q
<1>5. /\ u.proposals = (t.proposals \ {p}) \cup {q}
      /\ u.publications = t.publications \cup {p.id}
      /\ u.status = t.status /\ u.context = t.context /\ u.runtime = t.runtime
      /\ u.activations = t.activations
  BY <1>2 DEF Talk
<1>6. u \in Talk BY <1>2, <1>4 DEF Talk
<1> HIDE DEF u
<1>7. LastWorks(u) BY <1>2, <1>5 DEF Going, LastWorks
<1>8. \A r \in u.proposals : r.published => r.id \in u.publications
  BY <1>2, <1>4, <1>5 DEF Going
<1>9. Going(u) BY <1>2, <1>5, <1>7, <1>8 DEF Going
<1>10. /\ \A j \in DOMAIN u.activations : u.activations[j].runtime <= revision + 1
       /\ u.context = MemoryContext /\ \A r \in u.proposals : r.context = MemoryContext
  BY <1>2, <1>4, <1>5
<1>11. packets' \subseteq Packet BY <1>1 DEF IInv, TypeOK
<1> QED BY <1>1, <1>2, <1>5, <1>6, <1>9, <1>10, <1>11, BecomesStep

\* What remains of a conversation that ends with publications selected.
LEMMA EndedTalk ==
    ASSUME NEW t \in Talk, NEW status \in {"closed", "aborted"}, NEW selected,
           selected \subseteq t.publications, status = "aborted" => selected = {}
    PROVE  LET u == Ended(t, status, selected) IN
           /\ u \in Talk /\ u.status = status /\ Over(u)
           /\ u.activations = t.activations
<1> DEFINE u == Ended(t, status, selected)
<1>1. /\ u.status = status /\ u.accepted = selected /\ u.proposals = {}
      /\ u.context = NoContext /\ u.activations = t.activations
      /\ u.publications = t.publications
  BY DEF Ended, Talk
<1>2. selected \subseteq Nat BY TalkParts
<1>3. u \in Talk BY <1>2 DEF Ended, Talk, Status
<1>4. Over(u) BY <1>1 DEF Over
<1> QED BY <1>1, <1>3, <1>4

\* What a close may select has been published.
LEMMA SelectablePublished ==
    ASSUME NEW c \in Conversation, Going(doc.talk[c])
    PROVE  Selectable(c) \subseteq doc.talk[c].publications
BY DEF Selectable, Going

\* Closing.
LEMMA CloseStep ==
    ASSUME IInv, NEW c \in Conversation, NEW selected, CloseTalk(c, selected)
    PROVE  IInv'
<1> DEFINE t == doc.talk[c]
           u == Ended(t, "closed", selected)
<1>1. Live(c) /\ Becomes(c, u) /\ packets' = packets /\ heads' = heads /\ used' = used
      /\ selected \subseteq Selectable(c)
  BY DEF CloseTalk, Current
<1>2. /\ Quiet /\ c \in used /\ used \subseteq Conversation /\ t \in Talk /\ Going(t)
      /\ \A j \in DOMAIN t.activations : t.activations[j].runtime <= revision + 1
  BY <1>1, CurrentTalk
<1>3. selected \subseteq t.publications BY <1>1, <1>2, SelectablePublished
<1>4. u \in Talk /\ u.status = "closed" /\ Over(u) /\ u.activations = t.activations
  BY <1>2, <1>3, EndedTalk
<1> HIDE DEF u
<1>5. packets' \subseteq Packet BY <1>1 DEF IInv, TypeOK
<1>6. u.status # "open" BY <1>4
<1> QED BY <1>1, <1>2, <1>4, <1>5, <1>6, BecomesStep

\* Aborting, also of a conversation that is stale.
LEMMA AbortStep ==
    ASSUME IInv, NEW c \in Conversation, AbortTalk(c)
    PROVE  IInv'
<1> DEFINE t == doc.talk[c]
           u == Ended(t, "aborted", {})
<1>1. Live(c) /\ Becomes(c, u) /\ packets' = packets /\ heads' = heads /\ used' = used
  BY DEF AbortTalk
<1>2. /\ Quiet /\ c \in used /\ used \subseteq Conversation /\ t \in Talk
      /\ \A j \in DOMAIN t.activations : t.activations[j].runtime <= revision + 1
  BY <1>1, CurrentTalk
<1>3. u \in Talk /\ u.status = "aborted" /\ Over(u) /\ u.activations = t.activations
  BY <1>2, EndedTalk
<1> HIDE DEF u
<1>4. packets' \subseteq Packet BY <1>1 DEF IInv, TypeOK
<1>5. u.status # "open" BY <1>3
<1> QED BY <1>1, <1>2, <1>3, <1>4, <1>5, BecomesStep

\* What a settlement makes of the activations has their type and their runtimes.
LEMMA SettledType ==
    ASSUME NEW s \in Seq(Activation)
    PROVE  LET all == [i \in DOMAIN s |-> Settled(s[i])] IN
           /\ all \in Seq(Activation) /\ DOMAIN all = DOMAIN s
           /\ \A i \in DOMAIN s : all[i].runtime = s[i].runtime
<1> DEFINE all == [i \in DOMAIN s |-> Settled(s[i])]
<1>1. \A a \in Activation : Settled(a) \in Activation /\ Settled(a).runtime = a.runtime
  BY DEF Settled, Activation
<1>2. DOMAIN s = 1..Len(s) /\ Len(s) \in Nat /\ \A i \in DOMAIN s : s[i] \in Activation
  OBVIOUS
<1>3. all \in [1..Len(s) -> Activation] BY <1>1, <1>2
<1>4. all \in Seq(Activation) BY <1>2, <1>3, IsASeq
<1> QED BY <1>1, <1>2, <1>4

\* Closing with a settlement: the conversations left open, and the snapshot of
\* them, are stale.
LEMMA SettleCloseStep ==
    ASSUME IInv, NEW c \in Conversation, NEW selected, NEW learns \in BOOLEAN,
           NEW takes \in BOOLEAN, SettleClose(c, selected, learns, takes)
    PROVE  IInv'
<1> DEFINE t == doc.talk[c]
           u == Ended(t, "closed", selected)
           acts == [i \in DOMAIN u.activations |-> Settled(u.activations[i])]
           s == [u EXCEPT !.activations = acts, !.at = revision + 1]
           d == [doc EXCEPT !.talk[c] = s]
<1>1. [u EXCEPT !.activations = [i \in DOMAIN @ |-> Settled(@[i])], !.at = revision + 1] = s
  OBVIOUS
<1>2. /\ Live(c) /\ revision < MaxRevision /\ revision' = revision + 1
      /\ branch' = branch /\ now' = now /\ packets' = packets /\ used' = used
      /\ doc' = Remember(d, learns) /\ KeepsHeads
      /\ selected \subseteq Selectable(c)
  BY <1>1 DEF SettleClose, Current, Write, Keep, KeepsHeads
<1>3. /\ Quiet /\ c \in used /\ used \subseteq Conversation /\ t \in Talk /\ Going(t)
      /\ \A j \in DOMAIN t.activations : t.activations[j].runtime <= revision + 1
  BY <1>2, CurrentTalk
<1>4. selected \subseteq t.publications BY <1>2, <1>3, SelectablePublished
<1>5. u \in Talk /\ u.status = "closed" /\ Over(u) /\ u.activations = t.activations
  BY <1>3, <1>4, EndedTalk
<1> HIDE DEF u
<1>6. u.activations \in Seq(Activation) BY <1>5, TalkParts
<1>7. /\ acts \in Seq(Activation) /\ DOMAIN acts = DOMAIN u.activations
      /\ \A i \in DOMAIN acts : acts[i].runtime = u.activations[i].runtime
  BY <1>6, SettledType
<1> HIDE DEF acts
<1>8. revision \in Nat /\ revision + 1 \in Nat BY MemoryContextType
<1>9. /\ s \in Talk /\ s.at = revision + 1 /\ s.status = "closed"
      /\ s.activations = acts /\ s.proposals = u.proposals /\ s.context = u.context
      /\ s.accepted = u.accepted /\ s.publications = u.publications
  BY <1>5, <1>7, <1>8 DEF Talk
<1> HIDE DEF s
<1>10. TalkSound(s, revision + 1)
  <2>1. Past(s, revision + 1) BY <1>3, <1>5, <1>7, <1>8, <1>9 DEF Past
  <2>2. Over(s) BY <1>5, <1>9 DEF Over
  <2> QED BY <2>1, <2>2, <1>9 DEF TalkSound
<1>11. doc \in Document BY DEF IInv, TypeOK
<1>12. /\ doc' \in Document /\ doc'.phase = doc.phase /\ doc'.conflict = doc.conflict
       /\ doc'.scene = doc.scene /\ doc'.ended = doc.ended
       /\ doc'.talk = [doc.talk EXCEPT ![c] = s]
  <2>1. /\ d \in Document /\ d.phase = doc.phase /\ d.conflict = doc.conflict
        /\ d.scene = doc.scene /\ d.ended = doc.ended
        /\ d.talk = [doc.talk EXCEPT ![c] = s]
    BY <1>9, <1>11 DEF Document
  <2> HIDE DEF d
  <2> QED BY <2>1, <1>2, <1>8 DEF Remember, Document
<1>13. packets' \subseteq Packet /\ used \subseteq used' BY <1>2 DEF IInv, TypeOK
<1>14. s.status # "open" BY <1>9
<1> HIDE DEF d
<1> QED BY <1>2, <1>3, <1>9, <1>10, <1>12, <1>13, <1>14, TalkStep

\* A request that leaves conversations, snapshot and workers alone.
LEMMA MutateStep ==
    ASSUME IInv, NEW d \in Document, Mutate(d), Disciplined(d), d.talk = doc.talk
    PROVE  IInv'
<1>1. /\ ~Frozen /\ revision < MaxRevision /\ revision' = revision + 1
      /\ branch' = branch /\ now' = now /\ used' = used /\ packets' = packets
      /\ KeepsHeads /\ doc' = d
  BY DEF Mutate, Write, KeepsHeads
<1> QED BY <1>1, CalmStep

\* The parts of a document have their types, and it keeps the phase discipline.
LEMMA DocumentParts ==
    ASSUME IInv
    PROVE  /\ doc \in Document /\ Disciplined(doc)
           /\ doc.phase \in Phase /\ doc.conflict \in Principal \cup {Nobody}
           /\ doc.scene \in Scene \cup {NoScene} /\ doc.ended \subseteq Scene
           /\ doc.memory \in Nat /\ doc.talk \in [Conversation -> Talk]
BY DEF IInv, TypeOK, DocumentSound, Document

\* No conversation is open in a document that is not frozen.
LEMMA NotFrozen ==
    ASSUME ~Frozen
    PROVE  \A c \in Conversation : doc.talk[c].status # "open"
BY DEF Frozen, Open

\* Phases, scenes and conflicts.
LEMMA DirectionStep ==
    ASSUME IInv,
           \/ \E phase \in {"lobby", "play"} : ChangePhase(phase)
           \/ \E s \in Scene : StartScene(s)
           \/ UpdateScene
           \/ EndScene
           \/ \E p \in Principal : StartConflict(p)
           \/ \E p \in Principal : ActInConflict(p)
           \/ \E p \in Principal : EndConflict(p)
    PROVE  IInv'
<1> USE DocumentParts, NotFrozen DEF Mutate
<1>1. ASSUME NEW phase \in {"lobby", "play"}, ChangePhase(phase) PROVE IInv'
  <2> DEFINE d == [doc EXCEPT !.phase = phase]
  <2>1. Mutate(d) BY <1>1 DEF ChangePhase
  <2>2. d \in Document /\ d.talk = doc.talk BY DEF Document, Phase
  <2>3. Disciplined(d) BY <1>1 DEF ChangePhase, Disciplined, Document
  <2> QED BY <2>1, <2>2, <2>3, MutateStep
<1>2. ASSUME NEW s \in Scene, StartScene(s) PROVE IInv'
  <2> DEFINE d == [doc EXCEPT !.scene = s]
  <2>1. Mutate(d) BY <1>2 DEF StartScene
  <2>2. d \in Document /\ d.talk = doc.talk BY DEF Document
  <2>3. Disciplined(d) BY <1>2 DEF StartScene, Disciplined, Document
  <2> QED BY <2>1, <2>2, <2>3, MutateStep
<1>3. ASSUME UpdateScene PROVE IInv'
  BY <1>3, MutateStep DEF UpdateScene
<1>4. ASSUME EndScene PROVE IInv'
  <2> DEFINE d == [doc EXCEPT !.scene = NoScene, !.ended = @ \cup {doc.scene}]
  <2>1. Mutate(d) BY <1>4 DEF EndScene
  <2>2. d \in Document /\ d.talk = doc.talk BY <1>4 DEF EndScene, Document
  <2>3. Disciplined(d) BY <1>4 DEF EndScene, Disciplined, Document, NullsAssumption
  <2> QED BY <2>1, <2>2, <2>3, MutateStep
<1>5. ASSUME NEW p \in Principal, StartConflict(p) PROVE IInv'
  <2> DEFINE d == [doc EXCEPT !.conflict = p, !.phase = "conflict"]
  <2>1. Mutate(d) BY <1>5 DEF StartConflict
  <2>2. d \in Document /\ d.talk = doc.talk BY DEF Document, Phase
  <2>3. Disciplined(d) BY <1>5 DEF StartConflict, Disciplined, Document, NullsAssumption
  <2> QED BY <2>1, <2>2, <2>3, MutateStep
<1>6. ASSUME NEW p \in Principal, ActInConflict(p) PROVE IInv'
  BY <1>6, MutateStep DEF ActInConflict
<1>7. ASSUME NEW p \in Principal, EndConflict(p) PROVE IInv'
  <2> DEFINE d == [doc EXCEPT !.conflict = Nobody, !.phase = "play"]
  <2>1. Mutate(d) BY <1>7 DEF EndConflict
  <2>2. d \in Document /\ d.talk = doc.talk BY DEF Document, Phase
  <2>3. Disciplined(d) BY <1>7 DEF EndConflict, Disciplined, Document
  <2> QED BY <2>1, <2>2, <2>3, MutateStep
<1> QED BY <1>1, <1>2, <1>3, <1>4, <1>5, <1>6, <1>7

\* Settlements and snapshots while no conversation is open.
LEMMA SettleStep ==
    ASSUME IInv, NEW learns \in BOOLEAN, NEW takes \in BOOLEAN, Settle(learns, takes)
    PROVE  IInv'
<1>1. /\ ~Frozen /\ revision < MaxRevision /\ revision' = revision + 1
      /\ branch' = branch /\ now' = now /\ used' = used /\ packets' = packets
      /\ KeepsHeads /\ doc' = Remember(doc, learns)
  BY DEF Settle, Write, Keep, KeepsHeads
<1>2. revision + 1 \in Nat BY MemoryContextType
<1>3. doc' \in Document /\ Disciplined(doc') /\ doc'.talk = doc.talk
  BY <1>1, <1>2, DocumentParts DEF Remember, Disciplined, Document
<1> QED BY <1>1, <1>2, <1>3, CalmStep

LEMMA SnapshotStep ==
    ASSUME IInv, CreateSnapshot
    PROVE  IInv'
<1>1. /\ ~Frozen /\ revision < MaxRevision /\ revision' = revision + 1
      /\ branch' = branch /\ now' = now /\ used' = used /\ packets' = packets
      /\ KeepsHeads /\ doc' = doc
  BY DEF CreateSnapshot, Write, Keep, KeepsHeads
<1> QED BY <1>1, DocumentParts, CalmStep

\* A recovery finds its document where documents are, and leaves the heads as they
\* are, or with one of them copied.  On a branch that exists it finds its head.
LEMMA RecoveryShape ==
    ASSUME IInv, \/ \E b \in DOMAIN heads : Restore(b) \/ Checkout(b)
                 \/ Fork \/ ForkAndCheckout
    PROVE  /\ ~Frozen /\ revision < MaxRevision /\ revision' = revision + 1
           /\ now' = now /\ packets' = packets /\ used' = used
           /\ branch' \in DOMAIN heads'
           /\ \/ heads' = heads
              \/ \E b \in DOMAIN heads : heads[b] # NoSnapshot /\ heads' = Append(heads, heads[b])
           /\ \/ branch' = branch /\ doc' = doc
              \/ /\ branch' # branch
                 /\ \E b \in DOMAIN heads : /\ heads[b] # NoSnapshot /\ doc' = heads[b]
                                           /\ (branch' = b \/ branch' \notin DOMAIN heads)
<1>1. heads \in Seq(Document \cup {NoSnapshot}) /\ branch \in DOMAIN heads
  BY DEF IInv, TypeOK
<1>2. Len(heads) \in Nat /\ DOMAIN heads = 1..Len(heads) /\ Len(heads) + 1 # branch
  BY <1>1
<1>3. ASSUME NEW x \in Document \cup {NoSnapshot}
      PROVE  DOMAIN Append(heads, x) = 1..(Len(heads) + 1)
  BY <1>1
<1>4. /\ \A b \in DOMAIN heads : heads[b] \in Document \cup {NoSnapshot}
      /\ Len(heads) + 1 \notin DOMAIN heads
      /\ Len(heads) + 1 \in 1..(Len(heads) + 1) /\ branch \in 1..(Len(heads) + 1)
  BY <1>1, <1>2
<1>5. CASE Fork
  <2>1. Recover(branch, doc) /\ heads[branch] # NoSnapshot /\ heads' = Append(heads, heads[branch])
    BY <1>5 DEF Fork, NewBranch
  <2> QED
    BY <2>1, <1>1, <1>3, <1>4 DEF Recover
<1>6. ASSUME NEW b \in DOMAIN heads, Recover(Len(heads) + 1, heads[b]), NewBranch(heads[b])
      PROVE  /\ branch' # branch /\ branch' \notin DOMAIN heads /\ branch' \in DOMAIN heads'
             /\ heads' = Append(heads, heads[b]) /\ heads[b] # NoSnapshot /\ doc' = heads[b]
  <2>1. /\ branch' = Len(heads) + 1 /\ heads' = Append(heads, heads[b])
        /\ heads[b] # NoSnapshot /\ doc' = heads[b]
    BY <1>6 DEF Recover, NewBranch
  <2>2. DOMAIN heads' = 1..(Len(heads) + 1)
    BY <1>3, <1>4, <2>1
  <2> QED
    BY <2>1, <2>2, <1>1, <1>4
<1>7. CASE ForkAndCheckout
  <2>1. Recover(Len(heads) + 1, heads[branch]) /\ NewBranch(heads[branch])
    BY <1>7 DEF ForkAndCheckout
  <2> QED
    BY <2>1, <1>1, <1>6 DEF Recover
<1>8. ASSUME NEW b \in DOMAIN heads, Restore(b)
      PROVE  Recover(Len(heads) + 1, heads[b]) /\ NewBranch(heads[b])
  BY <1>8 DEF Restore
<1>9. CASE \E b \in DOMAIN heads : Restore(b)
  <2>1. PICK b \in DOMAIN heads : Recover(Len(heads) + 1, heads[b]) /\ NewBranch(heads[b])
    BY <1>8, <1>9
  <2> QED
    BY <2>1, <1>6 DEF Recover
<1>10. CASE \E b \in DOMAIN heads : Checkout(b)
  <2>1. PICK b \in DOMAIN heads : b # branch /\ Recover(b, heads[b]) /\ heads' = heads
    BY <1>10 DEF Checkout
  <2> QED
    BY <2>1 DEF Recover
<1> QED
  BY <1>5, <1>7, <1>9, <1>10

\* A copy of a sound head is as sound.
LEMMA CopiedHeads ==
    ASSUME NEW h \in Seq(Document \cup {NoSnapshot}), NEW b \in DOMAIN h, NEW n, NEW drawn,
           HeadsSound(h, n, drawn)
    PROVE  /\ Append(h, h[b]) \in Seq(Document \cup {NoSnapshot})
           /\ HeadsSound(Append(h, h[b]), n, drawn)
<1> DEFINE x == h[b]
           g == Append(h, x)
<1>1. x \in Document \cup {NoSnapshot} /\ Len(h) \in Nat /\ DOMAIN h = 1..Len(h)
  OBVIOUS
<1>2. x # NoSnapshot => DocumentSound(x, n, drawn)
  BY DEF HeadsSound
<1> HIDE DEF x
<1>3. /\ g \in Seq(Document \cup {NoSnapshot}) /\ DOMAIN g = 1..(Len(h) + 1)
      /\ g[Len(h) + 1] = x /\ \A i \in 1..Len(h) : g[i] = h[i]
  BY <1>1
<1> HIDE DEF g
<1>4. ASSUME NEW i \in DOMAIN g, g[i] # NoSnapshot PROVE DocumentSound(g[i], n, drawn)
  <2>1. i = Len(h) + 1 \/ i \in DOMAIN h
    BY <1>1, <1>3
  <2> QED
    BY <2>1, <1>1, <1>2, <1>3, <1>4 DEF HeadsSound
<1> QED
  BY <1>3, <1>4 DEF HeadsSound, g, x

\* A recovery raises the revision, so what it finds open is stale.
LEMMA RecoveryStep ==
    ASSUME IInv, \/ \E b \in DOMAIN heads : Restore(b) \/ Checkout(b)
                 \/ Fork \/ ForkAndCheckout
    PROVE  IInv'
<1>1. /\ revision < MaxRevision /\ revision' = revision + 1
      /\ now' = now /\ packets' = packets /\ used' = used /\ branch' \in DOMAIN heads'
      /\ \/ heads' = heads
         \/ \E b \in DOMAIN heads : heads[b] # NoSnapshot /\ heads' = Append(heads, heads[b])
      /\ \/ doc' = doc
         \/ \E b \in DOMAIN heads : heads[b] # NoSnapshot /\ doc' = heads[b]
  BY RecoveryShape
<1>2. revision \in Nat /\ revision + 1 \in Nat /\ revision <= revision + 1
  BY DEF IInv, TypeOK
<1>3. DocumentSound(doc', revision, used)
  BY <1>1 DEF IInv, HeadsSound
<1>4. DocumentSound(doc', revision + 1, used)
  BY <1>2, <1>3, LaterSound
<1>5. doc' \in Document
  BY <1>3 DEF DocumentSound
<1>6. HeadsSound(heads, revision + 1, used) /\ heads \in Seq(Document \cup {NoSnapshot})
  BY <1>2, LaterHeads DEF IInv, TypeOK
<1>7. HeadsSound(heads', revision + 1, used) /\ heads' \in Seq(Document \cup {NoSnapshot})
  BY <1>1, <1>6, CopiedHeads
<1>8. TypeOK'
  BY <1>1, <1>2, <1>5, <1>7 DEF IInv, TypeOK
<1>9. \A c \in Conversation : doc'.talk[c].at # revision + 1
  <2> SUFFICES ASSUME NEW c \in Conversation PROVE doc'.talk[c].at # revision + 1
    OBVIOUS
  <2>1. doc'.talk[c].at <= revision
    BY <1>3 DEF DocumentSound, TalkSound, Past
  <2>2. doc'.talk[c] \in Talk
    BY <1>5 DEF Document
  <2>3. doc'.talk[c].at \in Nat
    BY <2>2, TalkParts
  <2> QED
    BY <2>1, <2>3, <1>2
<1>10. OneCurrent'
  BY <1>1, <1>9 DEF OneCurrent
<1>11. CurrentContext'
  BY <1>1, <1>9 DEF CurrentContext
<1> QED
  BY <1>1, <1>4, <1>7, <1>8, <1>10, <1>11 DEF IInv

\* The clock.
LEMMA TickStep ==
    ASSUME IInv, Tick
    PROVE  IInv'
<1>1. TypeOK' BY DEF IInv, TypeOK, Tick, BoundsAssumption
<1> QED BY <1>1 DEF IInv, Tick, OneCurrent, CurrentContext, Live, Open, Quiet, MemoryContext

-----------------------------------------------------------------------------
(* The inductive invariant *)

LEMMA InitSound == Init => IInv
<1> SUFFICES ASSUME Init PROVE IInv
  OBVIOUS
<1>1. doc \in Document BY NoTalkType DEF Init, Document, Phase
<1>2. TypeOK
  <2>1. heads \in Seq(Document \cup {NoSnapshot}) /\ branch \in DOMAIN heads
    BY DEF Init, Root
  <2> QED BY <1>1, <2>1 DEF Init, TypeOK, BoundsAssumption
<1>3. \A c \in Conversation : doc.talk[c] = NoTalk BY DEF Init
<1>4. TalkSound(NoTalk, 0) BY DEF NoTalk, TalkSound, Past
<1>5. Disciplined(doc) BY <1>3, NullsAssumption DEF Init, Disciplined, NoTalk
<1>6. DocumentSound(doc, revision, used) BY <1>1, <1>3, <1>4, <1>5 DEF Init, DocumentSound, NoTalk
<1>7. \A c \in Conversation : ~Open(c) BY <1>3 DEF Open, NoTalk
<1>8. OneCurrent BY <1>7 DEF OneCurrent
<1>9. CurrentContext BY <1>7 DEF CurrentContext, Live
<1>10. HeadsSound(heads, revision, used) BY DEF Init, HeadsSound
<1> QED BY <1>2, <1>6, <1>8, <1>9, <1>10 DEF IInv

LEMMA NextSound == IInv /\ [Next]_vars => IInv'
<1> SUFFICES ASSUME IInv, [Next]_vars PROVE IInv'
  OBVIOUS
<1>1. CASE \/ \E phase \in {"lobby", "play"} : ChangePhase(phase)
           \/ \E s \in Scene : StartScene(s)
           \/ UpdateScene
           \/ EndScene
           \/ \E p \in Principal : StartConflict(p)
           \/ \E p \in Principal : ActInConflict(p)
           \/ \E p \in Principal : EndConflict(p)
  BY <1>1, DirectionStep
<1>2. CASE TalkNext
  <2> SUFFICES ASSUME NEW c \in Conversation,
                      \/ OpenTalk(c)
                      \/ \E i \in DOMAIN doc.talk[c].activations : Claim(c, i)
                      \/ Refresh(c)
                      \/ \E p \in doc.talk[c].proposals : Publish(c, p)
                      \/ \E selected \in SUBSET Selectable(c) : CloseTalk(c, selected)
                      \/ AbortTalk(c)
                      \/ \E selected \in SUBSET Selectable(c), learns, takes \in BOOLEAN :
                            SettleClose(c, selected, learns, takes)
               PROVE IInv'
    BY <1>2 DEF TalkNext
  <2> QED BY OpenTalkStep, ClaimStep, RefreshStep, PublishStep, CloseStep, AbortStep,
             SettleCloseStep
<1>3. CASE \E k \in packets : Propose(k) BY <1>3, ProposeStep
<1>4. CASE \E learns, takes \in BOOLEAN : Settle(learns, takes) BY <1>4, SettleStep
<1>5. CASE CreateSnapshot BY <1>5, SnapshotStep
<1>6. CASE \/ \E b \in DOMAIN heads : Restore(b) \/ Checkout(b)
           \/ Fork \/ ForkAndCheckout
  BY <1>6, RecoveryStep
<1>7. CASE Tick BY <1>7, TickStep
<1>8. CASE UNCHANGED vars
  BY <1>8 DEF vars, IInv, TypeOK, OneCurrent, CurrentContext, Live, Open, Quiet,
              MemoryContext
<1> QED BY <1>1, <1>2, <1>3, <1>4, <1>5, <1>6, <1>7, <1>8 DEF Next

LEMMA AlwaysSound == Spec => []IInv
<1> QED BY InitSound, NextSound, PTL DEF Spec

-----------------------------------------------------------------------------
(* Stale conversations *)

\* A conversation that a step does not write stays stale if it was.
LEMMA StaysStale ==
    ASSUME IInv, NEW c \in Conversation, doc.talk[c].at # revision,
           doc'.talk[c] = doc.talk[c], revision' = revision + 1
    PROVE  doc'.talk[c].at # revision'
<1>1. doc.talk[c].at <= revision BY DEF IInv, DocumentSound, TalkSound, Past
<1>2. doc.talk[c].at \in Nat BY DocumentParts, TalkParts
<1>3. revision \in Nat BY MemoryContextType
<1> QED BY <1>1, <1>2, <1>3

\* An operation on one conversation does not write another.
LEMMA BecomesOthers ==
    ASSUME IInv, NEW c \in Conversation, NEW d \in Conversation, c # d, NEW t, Becomes(d, t)
    PROVE  doc'.talk[c] = doc.talk[c] /\ revision' = revision + 1
<1>1. doc' = [doc EXCEPT !.talk[d] = [t EXCEPT !.at = revision + 1]]
      /\ revision' = revision + 1
  BY DEF Becomes, Write
<1>2. doc \in Document /\ doc.talk \in [Conversation -> Talk] BY DocumentParts
<1> QED BY <1>1, <1>2 DEF Document

\* What a conversation operation does to a stale conversation: it ends it, or it
\* does not write it.
LEMMA TalkStale ==
    ASSUME IInv, TalkNext, NEW c \in Conversation, Open(c), doc.talk[c].at # revision
    PROVE  \/ doc'.talk[c].status # "open"
           \/ doc'.talk[c].at # revision'
<1>1. c \in used /\ ~Current(c)
  BY DocumentParts DEF IInv, DocumentSound, Open, Current
<1>2. doc \in Document /\ doc.talk \in [Conversation -> Talk] BY DocumentParts
<1> SUFFICES ASSUME NEW d \in Conversation,
                    \/ OpenTalk(d)
                    \/ \E i \in DOMAIN doc.talk[d].activations : Claim(d, i)
                    \/ Refresh(d)
                    \/ \E p \in doc.talk[d].proposals : Publish(d, p)
                    \/ \E selected \in SUBSET Selectable(d) : CloseTalk(d, selected)
                    \/ AbortTalk(d)
                    \/ \E selected \in SUBSET Selectable(d), learns, takes \in BOOLEAN :
                          SettleClose(d, selected, learns, takes)
             PROVE \/ doc'.talk[c].status # "open"
                   \/ doc'.talk[c].at # revision'
  BY DEF TalkNext
<1>3. CASE OpenTalk(d) \/ (\E i \in DOMAIN doc.talk[d].activations : Claim(d, i))
           \/ Refresh(d) \/ (\E p \in doc.talk[d].proposals : Publish(d, p))
           \/ (\E selected \in SUBSET Selectable(d) : CloseTalk(d, selected))
  <2>1. c # d BY <1>1, <1>3 DEF OpenTalk, Claim, Refresh, Publish, CloseTalk
  <2>2. \E t : Becomes(d, t) BY <1>3 DEF OpenTalk, Claim, Refresh, Publish, CloseTalk
  <2> QED BY <2>1, <2>2, BecomesOthers, StaysStale
<1>4. CASE AbortTalk(d)
  <2> DEFINE u == Ended(doc.talk[d], "aborted", {})
  <2>1. Becomes(d, u) BY <1>4 DEF AbortTalk
  <2>2. CASE c # d BY <2>1, <2>2, BecomesOthers, StaysStale
  <2>3. CASE c = d
    <3>1. u \in Talk /\ u.status = "aborted" BY <1>2, EndedTalk
    <3> HIDE DEF u
    <3>2. [u EXCEPT !.at = revision + 1].status = "aborted"
      BY <3>1, Marked, MemoryContextType
    <3>3. doc' = [doc EXCEPT !.talk[d] = [u EXCEPT !.at = revision + 1]]
      BY <2>1 DEF Becomes, Write
    <3>4. doc'.talk[c] = [u EXCEPT !.at = revision + 1] BY <2>3, <3>3, <1>2 DEF Document
    <3> QED BY <3>2, <3>4
  <2> QED BY <2>2, <2>3
<1>5. ASSUME NEW selected, NEW learns, NEW takes, SettleClose(d, selected, learns, takes)
      PROVE  doc'.talk[c].at # revision'
  <2>1. c # d BY <1>1, <1>5 DEF SettleClose
  <2>2. PICK s : /\ doc' = Remember([doc EXCEPT !.talk[d] = s], learns)
                 /\ revision' = revision + 1
    BY <1>5 DEF SettleClose, Write
  <2>3. doc'.talk[c] = doc.talk[c] BY <2>1, <2>2, <1>2 DEF Remember, Document
  <2> QED BY <2>2, <2>3, StaysStale
<1> QED BY <1>3, <1>4, <1>5

\* Every step leaves a stale conversation stale or ended.
LEMMA StepStale ==
    ASSUME IInv, [Next]_vars, NEW c \in Conversation, Open(c), doc.talk[c].at # revision
    PROVE  \/ doc'.talk[c].status # "open"
           \/ doc'.talk[c].at # revision'
<1>1. Frozen BY DEF Frozen
<1>2. CASE TalkNext BY <1>2, TalkStale
<1>3. CASE \E k \in packets : Propose(k)
  <2>1. PICK k \in packets : Propose(k) BY <1>3
  <2>2. k.talk \in Conversation BY DEF IInv, TypeOK, Packet
  <2>3. c # k.talk BY <2>1 DEF Propose, Current
  <2>4. \E t : Becomes(k.talk, t) BY <2>1 DEF Propose
  <2> QED BY <2>2, <2>3, <2>4, BecomesOthers, StaysStale
<1>4. CASE Tick \/ UNCHANGED vars BY <1>4 DEF Tick, vars
<1> QED BY <1>1, <1>2, <1>3, <1>4
        DEF Next, ChangePhase, StartScene, UpdateScene, EndScene, StartConflict,
            ActInConflict, EndConflict, Mutate, Settle, CreateSnapshot, Recover, Restore,
            Checkout, Fork, ForkAndCheckout

-----------------------------------------------------------------------------
(* Stranded conversations *)

\* What an operation on a conversation leaves in it.
LEMMA BecomesSelf ==
    ASSUME IInv, NEW c \in Conversation, NEW t, Becomes(c, t), DOMAIN t = DOMAIN NoTalk
    PROVE  doc'.talk[c].status = t.status /\ doc'.talk[c].context = t.context
<1>1. doc' = [doc EXCEPT !.talk[c] = [t EXCEPT !.at = revision + 1]]
  BY DEF Becomes, Write
<1>2. doc \in Document /\ doc.talk \in [Conversation -> Talk] BY DocumentParts
<1>3. doc'.talk[c] = [t EXCEPT !.at = revision + 1] BY <1>1, <1>2 DEF Document
<1>4. "status" \in DOMAIN t /\ "context" \in DOMAIN t BY DEF NoTalk
<1> QED BY <1>3, <1>4

\* The fields of a conversation.
LEMMA TalkDomain == \A t \in Talk : DOMAIN t = DOMAIN NoTalk
BY DEF Talk, NoTalk

\* What an operation that leaves its conversation open makes of its context: it
\* keeps it or reads the memory of the active branch.
LEMMA TalkOnBranch ==
    ASSUME IInv, NEW c \in Conversation,
           \/ OpenTalk(c)
           \/ \E i \in DOMAIN doc.talk[c].activations : Claim(c, i)
           \/ Refresh(c)
           \/ \E p \in doc.talk[c].proposals : Publish(c, p)
           \/ \E k \in packets : k.talk = c /\ Propose(k)
    PROVE  doc'.talk[c].context.branch = branch
<1> DEFINE t == doc.talk[c]
<1>1. t \in Talk BY DocumentParts
<1>2. DOMAIN t = DOMAIN NoTalk /\ "context" \in DOMAIN t
  BY <1>1, TalkDomain DEF NoTalk
<1>3. MemoryContext.branch = branch BY DEF MemoryContext
<1>4. Current(c) => t.context.branch = branch BY DEF Current, Live
<1>5. CASE OpenTalk(c)
  <2> DEFINE u == [NoTalk EXCEPT !.status = "open", !.context = MemoryContext,
                                 !.runtime = revision + 1,
                                 !.activations = <<FreshActivation(revision + 1)>>]
  <2>1. Becomes(c, u) BY <1>5 DEF OpenTalk
  <2>2. DOMAIN u = DOMAIN NoTalk /\ u.context = MemoryContext BY DEF NoTalk
  <2> HIDE DEF u
  <2> QED BY <1>3, <2>1, <2>2, BecomesSelf
<1>6. CASE Refresh(c)
  <2>1. PICK acts : Becomes(c, [t EXCEPT !.context = MemoryContext, !.runtime = revision + 1,
                                         !.activations = acts])
    BY <1>6 DEF Refresh
  <2> DEFINE u == [t EXCEPT !.context = MemoryContext, !.runtime = revision + 1,
                            !.activations = acts]
  <2>2. DOMAIN u = DOMAIN NoTalk /\ u.context = MemoryContext BY <1>2
  <2>3. Becomes(c, u) BY <2>1
  <2> HIDE DEF u
  <2> QED BY <1>3, <2>2, <2>3, BecomesSelf
<1>7. ASSUME NEW i \in DOMAIN t.activations, Claim(c, i)
      PROVE  doc'.talk[c].context.branch = branch
  <2> DEFINE lease == [id |-> revision + 1, expires |-> now + LeaseTime, context |-> t.context]
             u == [t EXCEPT !.activations[i].status = "claimed",
                            !.activations[i].lease = lease]
  <2>1. Current(c) /\ Becomes(c, u) BY <1>7 DEF Claim
  <2>2. DOMAIN u = DOMAIN NoTalk /\ u.context = t.context BY <1>2
  <2> HIDE DEF u
  <2> QED BY <1>4, <2>1, <2>2, BecomesSelf
<1>8. ASSUME NEW p \in t.proposals, Publish(c, p)
      PROVE  doc'.talk[c].context.branch = branch
  <2> DEFINE u == [t EXCEPT !.proposals = (@ \ {p}) \cup {[p EXCEPT !.published = TRUE]},
                            !.publications = @ \cup {p.id}]
  <2>1. Current(c) /\ Becomes(c, u) BY <1>8 DEF Publish
  <2>2. DOMAIN u = DOMAIN NoTalk /\ u.context = t.context BY <1>2
  <2> HIDE DEF u
  <2> QED BY <1>4, <2>1, <2>2, BecomesSelf
<1>9. ASSUME NEW k \in packets, k.talk = c, Propose(k)
      PROVE  doc'.talk[c].context.branch = branch
  <2> DEFINE p == [id |-> revision + 1, context |-> k.context, published |-> FALSE]
             u == [t EXCEPT !.proposals = @ \cup {p}]
  <2>1. Current(c) /\ Becomes(c, u) BY <1>9 DEF Propose
  <2>2. DOMAIN u = DOMAIN NoTalk /\ u.context = t.context BY <1>2
  <2> HIDE DEF u
  <2> QED BY <1>4, <2>1, <2>2, BecomesSelf
<1> QED BY <1>5, <1>6, <1>7, <1>8, <1>9

\* Closing and aborting end their conversation.
LEMMA TalkEnds ==
    ASSUME IInv, NEW c \in Conversation,
           \/ \E selected : CloseTalk(c, selected)
           \/ AbortTalk(c)
    PROVE  doc'.talk[c].status # "open"
<1>1. PICK status, selected : /\ status \in {"closed", "aborted"}
                              /\ Becomes(c, Ended(doc.talk[c], status, selected))
  BY DEF CloseTalk, AbortTalk
<1> DEFINE u == Ended(doc.talk[c], status, selected)
<1>2. DOMAIN doc.talk[c] = DOMAIN NoTalk BY DocumentParts, TalkDomain
<1>3. DOMAIN u = DOMAIN NoTalk /\ u.status = status BY <1>2 DEF Ended, NoTalk
<1> HIDE DEF u
<1>4. doc'.talk[c].status = status BY <1>1, <1>3, BecomesSelf DEF u
<1> QED BY <1>1, <1>4

\* So does closing with a settlement, which leaves the others as they are.
LEMMA SettleEnds ==
    ASSUME IInv, NEW c \in Conversation, NEW d \in Conversation,
           NEW selected, NEW learns, NEW takes, SettleClose(d, selected, learns, takes)
    PROVE  doc'.talk[c] = doc.talk[c] \/ doc'.talk[c].status # "open"
<1> DEFINE t == Ended(doc.talk[d], "closed", selected)
           s == [t EXCEPT !.activations = [i \in DOMAIN @ |-> Settled(@[i])],
                          !.at = revision + 1]
<1>1. doc \in Document /\ doc.talk \in [Conversation -> Talk] BY DocumentParts
<1>2. DOMAIN doc.talk[d] = DOMAIN NoTalk BY <1>1, TalkDomain
<1>3. "status" \in DOMAIN t /\ t.status = "closed" BY <1>2 DEF Ended, NoTalk
<1>4. doc' = Remember([doc EXCEPT !.talk[d] = s], learns) BY DEF SettleClose, Write
<1> HIDE DEF t
<1>5. s.status = "closed" BY <1>3
<1> HIDE DEF s
<1>6. doc'.talk = [doc.talk EXCEPT ![d] = s] BY <1>1, <1>4 DEF Remember, Document
<1> QED BY <1>1, <1>5, <1>6

\* The steps of recovery.
Recovers ==
    \/ \E b \in DOMAIN heads : Restore(b) \/ Checkout(b)
    \/ Fork \/ ForkAndCheckout

\* Only recovery changes the branch; every other step keeps the heads of the others.
LEMMA StepBranch == [Next]_vars => Recovers \/ (branch' = branch /\ KeepsHeads)
<1> SUFFICES ASSUME [Next]_vars, ~Recovers PROVE branch' = branch /\ KeepsHeads
  OBVIOUS
<1>1. ASSUME TalkNext PROVE branch' = branch /\ KeepsHeads
  <2>1. ASSUME NEW c, NEW selected, NEW learns, NEW takes, SettleClose(c, selected, learns, takes)
        PROVE  branch' = branch /\ KeepsHeads
    <3>1. branch' = branch /\ Keep(takes)
      BY <2>1 DEF SettleClose, Write
    <3> QED
      BY <3>1 DEF Keep, KeepsHeads
  <2>2. ASSUME NEW c, NEW t, Becomes(c, t), heads' = heads
        PROVE  branch' = branch /\ KeepsHeads
    BY <2>2 DEF Becomes, Write, KeepsHeads
  <2>3. ASSUME NEW c, OpenTalk(c) \/ Refresh(c) \/ AbortTalk(c)
        PROVE  branch' = branch /\ KeepsHeads
    <3>1. heads' = heads /\ \E t : Becomes(c, t)
      BY <2>3 DEF OpenTalk, Refresh, AbortTalk
    <3> QED
      BY <2>2, <3>1
  <2>4. ASSUME NEW c, NEW x, Claim(c, x) \/ Publish(c, x) \/ CloseTalk(c, x)
        PROVE  branch' = branch /\ KeepsHeads
    <3>1. heads' = heads /\ \E t : Becomes(c, t)
      BY <2>4 DEF Claim, Publish, CloseTalk
    <3> QED
      BY <2>2, <3>1
  <2> QED
    BY <1>1, <2>1, <2>3, <2>4 DEF TalkNext
<1>2. ASSUME NEW k \in packets, Propose(k) PROVE branch' = branch /\ KeepsHeads
  BY <1>2 DEF Propose, Becomes, Write, KeepsHeads
<1> QED BY <1>1, <1>2
        DEF Next, ChangePhase, StartScene, UpdateScene, EndScene, StartConflict, ActInConflict,
            EndConflict, Mutate, Write, Settle, CreateSnapshot, Keep, KeepsHeads, Tick, vars,
            Recovers

\* A conversation that a step leaves open is as it was, or of the active branch,
\* unless the step changes the branch.
LEMMA StepOnBranch ==
    ASSUME IInv, [Next]_vars, branch' = branch, NEW c \in Conversation,
           doc'.talk[c].status = "open"
    PROVE  doc'.talk[c] = doc.talk[c] \/ doc'.talk[c].context.branch = branch
<1>1. doc \in Document /\ doc.talk \in [Conversation -> Talk] BY DocumentParts
<1>2. CASE TalkNext
  <2>1. PICK d \in Conversation :
           \/ OpenTalk(d)
           \/ \E i \in DOMAIN doc.talk[d].activations : Claim(d, i)
           \/ Refresh(d)
           \/ \E p \in doc.talk[d].proposals : Publish(d, p)
           \/ \E selected \in SUBSET Selectable(d) : CloseTalk(d, selected)
           \/ AbortTalk(d)
           \/ \E selected \in SUBSET Selectable(d), learns, takes \in BOOLEAN :
                 SettleClose(d, selected, learns, takes)
    BY <1>2 DEF TalkNext
  <2>2. CASE \E selected \in SUBSET Selectable(d), learns, takes \in BOOLEAN :
                SettleClose(d, selected, learns, takes)
    BY <2>2, SettleEnds
  <2>3. CASE c = d BY <2>1, <2>2, <2>3, TalkOnBranch, TalkEnds
  <2>4. CASE /\ c # d
             /\ \/ OpenTalk(d)
                \/ \E i \in DOMAIN doc.talk[d].activations : Claim(d, i)
                \/ Refresh(d)
                \/ \E p \in doc.talk[d].proposals : Publish(d, p)
                \/ \E selected \in SUBSET Selectable(d) : CloseTalk(d, selected)
                \/ AbortTalk(d)
    <3>1. \E t : Becomes(d, t)
      BY <2>4 DEF OpenTalk, Claim, Refresh, Publish, CloseTalk, AbortTalk
    <3> QED BY <2>4, <3>1, BecomesOthers
  <2> QED BY <2>1, <2>2, <2>3, <2>4
<1>3. CASE \E k \in packets : Propose(k)
  <2>1. PICK k \in packets : Propose(k) BY <1>3
  <2>2. k.talk \in Conversation BY DEF IInv, TypeOK, Packet
  <2>3. \E t : Becomes(k.talk, t) BY <2>1 DEF Propose
  <2>4. CASE c = k.talk BY <2>1, <2>4, TalkOnBranch
  <2>5. CASE c # k.talk BY <2>2, <2>3, <2>5, BecomesOthers
  <2> QED BY <2>4, <2>5
<1>4. CASE Tick \/ UNCHANGED vars BY <1>4 DEF Tick, vars
<1>5. CASE \/ \E phase \in {"lobby", "play"} : ChangePhase(phase)
           \/ \E s \in Scene : StartScene(s)
           \/ UpdateScene
           \/ EndScene
           \/ \E p \in Principal : StartConflict(p)
           \/ \E p \in Principal : ActInConflict(p)
           \/ \E p \in Principal : EndConflict(p)
           \/ \E learns, takes \in BOOLEAN : Settle(learns, takes)
           \/ CreateSnapshot
  <2>1. doc'.talk = doc.talk
    BY <1>1, <1>5 DEF ChangePhase, StartScene, UpdateScene, EndScene, StartConflict,
                      ActInConflict, EndConflict, Settle, CreateSnapshot, Remember, Mutate,
                      Write, Document
  <2> QED BY <2>1
<1>6. CASE Recovers
  <2>1. doc' = doc BY <1>6, RecoveryShape DEF Recovers
  <2> QED BY <2>1
<1> QED BY <1>2, <1>3, <1>4, <1>5, <1>6 DEF Next, Recovers

\* A step that keeps the branch strands no conversation.
LEMMA StepStranded ==
    ASSUME IInv, [Next]_vars, branch' = branch, NEW c \in Conversation, Open(c)', ~Live(c)'
    PROVE  Open(c) /\ ~Live(c)
<1>1. IInv' BY NextSound
<1>2. Quiet' BY <1>1 DEF IInv, DocumentSound, Disciplined, Open, Quiet
<1>3. doc'.talk[c].status = "open" /\ doc'.talk[c].context.branch # branch
  BY <1>2 DEF Live, Open
<1>4. doc'.talk[c] = doc.talk[c] BY <1>3, StepOnBranch
<1> QED BY <1>3, <1>4 DEF Live, Open

\* Every conversation open in the document d belongs to the first branch.
AtHome(d) ==
    \A c \in Conversation : d.talk[c].status = "open" => d.talk[c].context.branch = Root

RootInv ==
    /\ branch = Root => AtHome(doc)
    /\ heads[Root] # NoSnapshot => AtHome(heads[Root])

\* Nothing from another branch ever comes back to the first one.
LEMMA RootStep ==
    ASSUME IInv, RootInv, [Next]_vars
    PROVE  RootInv'
<1>1. heads \in Seq(Document \cup {NoSnapshot}) /\ branch \in DOMAIN heads
  BY DEF IInv, TypeOK
<1>2. Root \in DOMAIN heads
  BY <1>1 DEF Root
<1>3. CASE Recovers
  <2>1. /\ \/ heads' = heads
           \/ \E b \in DOMAIN heads : heads' = Append(heads, heads[b])
        /\ \/ branch' = branch /\ doc' = doc
           \/ \E b \in DOMAIN heads : /\ heads[b] # NoSnapshot /\ doc' = heads[b]
                                     /\ (branch' = b \/ branch' \notin DOMAIN heads)
    BY <1>3, RecoveryShape DEF Recovers
  <2>2. ASSUME NEW x PROVE Append(heads, x)[Root] = heads[Root]
    BY <1>1, <1>2
  <2>3. heads'[Root] = heads[Root]
    BY <2>1, <2>2, Zenon
  <2>4. branch' = Root => AtHome(doc')
    BY <2>1, <1>2 DEF RootInv
  <2>5. (heads[Root] # NoSnapshot => AtHome(heads[Root]))'
    BY <2>3 DEF RootInv, AtHome
  <2> QED
    BY <2>4, <2>5 DEF RootInv, AtHome
<1>4. CASE branch' = branch /\ KeepsHeads
  <2>1. ASSUME branch = Root, NEW c \in Conversation, doc'.talk[c].status = "open"
        PROVE  doc'.talk[c].context.branch = Root
    <3>1. doc'.talk[c] = doc.talk[c] \/ doc'.talk[c].context.branch = branch
      BY <1>4, <2>1, StepOnBranch
    <3> QED
      BY <2>1, <3>1 DEF RootInv, AtHome
  <2>2. branch = Root => AtHome(doc')
    BY <2>1 DEF AtHome
  <2>3. heads'[Root] = heads[Root] \/ (branch = Root /\ heads'[Root] = doc')
    BY <1>1, <1>2, <1>4 DEF KeepsHeads
  <2>4. (heads[Root] # NoSnapshot => AtHome(heads[Root]))'
    BY <2>2, <2>3 DEF RootInv, AtHome
  <2> QED
    BY <1>4, <2>2, <2>4 DEF RootInv, AtHome
<1> QED
  BY <1>3, <1>4, StepBranch

-----------------------------------------------------------------------------
(* Theorems *)

\* The state has its type: documents, leases and the revisions that name them.
THEOREM PlayTypeCorrect == Spec => []TypeOK
<1>1. IInv => TypeOK BY DEF IInv
<1> QED BY <1>1, AlwaysSound, PTL

\* The phase always agrees with scene, conflict and open conversations.
THEOREM PhasesAgree == Spec => []PhaseDiscipline
<1>1. IInv => PhaseDiscipline
  BY DEF IInv, DocumentSound, Disciplined, PhaseDiscipline, Frozen, Open, Quiet
<1> QED BY <1>1, AlwaysSound, PTL

\* Of the open conversations at most one is current.
THEOREM AtMostOneCurrent == Spec => []OneCurrent
<1>1. IInv => OneCurrent BY DEF IInv
<1> QED BY <1>1, AlwaysSound, PTL

\* A conversation that can go on works from the present memory of its branch.
THEOREM WorksFromPresentMemory == Spec => []CurrentContext
<1>1. IInv => CurrentContext BY DEF IInv
<1> QED BY <1>1, AlwaysSound, PTL

\* An open conversation has one working activation, its last.
THEOREM OneActivationWorks == Spec => []OneWorkingActivation
<1>1. IInv => OneWorkingActivation
  <2> SUFFICES ASSUME IInv, NEW c \in Conversation, Open(c)
               PROVE  LastWorks(doc.talk[c])
    BY DEF OneWorkingActivation, LastWorks
  <2> QED BY DEF IInv, DocumentSound, TalkSound, Going, Open
<1> QED BY <1>1, AlwaysSound, PTL

\* A worker whose activation was replaced is never heard again, whatever packet
\* it still holds.
THEOREM SupersededNeverAnswers == Spec => []SupersededCannotAnswer
<1>1. IInv => SupersededCannotAnswer
  <2> SUFFICES ASSUME IInv, NEW k \in packets, Open(k.talk),
                      k.activation \in DOMAIN doc.talk[k.talk].activations,
                      Answers(k, doc.talk[k.talk])
               PROVE  k.activation = Len(doc.talk[k.talk].activations)
    BY DEF SupersededCannotAnswer
  <2>1. k.talk \in Conversation BY DEF IInv, TypeOK, Packet
  <2>2. LastWorks(doc.talk[k.talk]) /\ doc.talk[k.talk] \in Talk
    BY <2>1, DocumentParts DEF IInv, DocumentSound, TalkSound, Going, Open
  <2>3. doc.talk[k.talk].activations[k.activation].lease # NoLease BY DEF Answers
  <2> QED BY <2>2, <2>3, WorkingIsLast
<1> QED BY <1>1, AlwaysSound, PTL

\* A conversation that ended keeps its publications and nothing private, also
\* after its document was restored.
THEOREM EndedKeepsPublications == Spec => []EndedKeepsOnlyPublications
<1>1. IInv => EndedKeepsOnlyPublications
  BY DEF IInv, DocumentSound, TalkSound, Over, EndedKeepsOnlyPublications
<1> QED BY <1>1, AlwaysSound, PTL

\* A conversation that was overtaken by another request never goes on.
THEOREM StaleNeverGoesOn == Spec => StaleForever
<1>1. IInv /\ [Next]_vars =>
        [\A c \in Conversation :
            Open(c) /\ doc.talk[c].at # revision =>
                \/ doc'.talk[c].status # "open"
                \/ doc'.talk[c].at # revision']_vars
  BY StepStale
<1> QED BY <1>1, AlwaysSound, PTL DEF Spec, StaleForever

\* Only a step that changes the branch strands a conversation (restore, checkout,
\* fork with a checkout): one that can be aborted can still be aborted, or has
\* ended, after any other.
THEOREM OnlyBranchChangesStrand ==
    Spec => [][branch' = branch =>
                  \A c \in Conversation : Open(c)' /\ ~Live(c)' => Open(c) /\ ~Live(c)]_vars
<1>1. ASSUME IInv, [Next]_vars, branch' = branch, NEW c \in Conversation, Open(c)', ~Live(c)'
      PROVE  Open(c) /\ ~Live(c)
  BY <1>1, StepStranded
<1>2. IInv /\ [Next]_vars =>
        [branch' = branch =>
            \A c \in Conversation : Open(c)' /\ ~Live(c)' => Open(c) /\ ~Live(c)]_vars
  BY <1>1
<1> QED BY <1>2, AlwaysSound, PTL DEF Spec

\* On the branch the campaign was created on every open conversation can be
\* aborted, as architecture.md promises of a conversation at any time: before the
\* first fork or restore, and whatever was forked, restored and checked out since.
THEOREM AbortableOnFirstBranch == Spec => [](branch = Root => StaleCanBeAborted)
<1>1. Init => RootInv
  BY DEF Init, RootInv, AtHome, NoTalk, Root
<1>2. IInv /\ RootInv /\ [Next]_vars => RootInv'
  BY RootStep
<1>3. ASSUME IInv, RootInv PROVE branch = Root => StaleCanBeAborted
  <2> SUFFICES ASSUME branch = Root, NEW c \in Conversation, Open(c) PROVE Live(c)
    BY DEF StaleCanBeAborted
  <2>1. Quiet BY <1>3 DEF IInv, DocumentSound, Disciplined, Open, Quiet
  <2>2. doc.talk[c].context.branch = branch BY <1>3 DEF RootInv, AtHome, Open
  <2> QED BY <2>1, <2>2 DEF Live
<1>4. IInv /\ RootInv => (branch = Root => StaleCanBeAborted)
  BY <1>3
<1> QED BY <1>1, <1>2, <1>4, AlwaysSound, PTL DEF Spec
===============================================================================
