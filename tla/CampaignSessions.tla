--------------------------- MODULE CampaignSessions ---------------------------
(***************************************************************************)
(* The front of the server: the exposures of connected sessions, the tools *)
(* they have loaded, and the way of a tool call through the dispatcher.    *)
(*                                                                         *)
(* The server runs on one event loop.  What happens between two awaits is  *)
(* one step; a call waits for the lock of its campaign between the checks  *)
(* of the dispatcher and the run of its tool, and a campaign may change    *)
(* there.  A legacy call refreshes the registry before and after its tool; *)
(* a modern call (2026-07-28) names no session and refreshes nothing, but  *)
(* its `exposure` opens and changes exposures of the same registry.        *)
(*                                                                         *)
(* Of a campaign the model keeps what decides which tools are allowed.     *)
(* An exposure without a campaign is never refreshed and reaches no tool   *)
(* of a campaign: it counts as none.                                       *)
(***************************************************************************)
EXTENDS Naturals, Sequences, SequencesExt

CONSTANTS
    Principal, Campaign,
    Session,        \* keys of the registry: legacy sessions
    Handle,         \* and the keys made up for the exposures that modern clients open
    Call,           \* calls the server can have in flight
    Profile,        \* finalized profile versions
    Capabilities,   \* the capabilities a profile provides
    Facilitators,   \* its facilitator_roles, AdminRoles if it names none
    PlayersFight,   \* the profiles with player_controls_owned_actor
    Loadable,       \* the tools that legacy clients load and call
    Callable,       \* the tools that modern clients call
    Members,        \* the memberships that the campaigns start with
    NoProfile, NoExposure, Nobody, Idle, Modern,
    MaxChanges,     \* bound of the model on changes of a campaign
    MaxEpoch        \* bound of the model on exposure revisions at a `set`

Role       == {"owner", "dm", "player", "observer"}
Standing   == Role \cup {"none"}
AdminRoles == {"owner", "dm"}
Phase      == {"lobby", "play", "conflict"}

LobbyTools ==
    {"campaign_setup", "access_change", "profile_change", "pack_change", "actor_change",
     "actor_query", "game_phase", "narrative_query", "campaign_design_change",
     "campaign_expansion", "snapshot_change", "snapshot_query", "branch_change",
     "branch_query", "state_revision"}
PlayTools ==
    (LobbyTools \ {"campaign_setup", "profile_change", "pack_change"}) \cup
    {"scene_change", "continuity_query", "narrative_change", "narrative_settle",
     "mechanic_resolve", "npc_conversation", "downtime_settle", "world_turn_settle",
     "conflict_query", "conflict_start"}
ConflictTools ==
    {"actor_query", "campaign_query", "continuity_query", "narrative_query",
     "mechanic_resolve", "conflict_query", "conflict_act", "conflict_end",
     "snapshot_query", "branch_query"}
FightTools == {"conflict_start", "conflict_query", "conflict_act", "conflict_end"}
AdminTools ==
    {"access_change", "profile_change", "pack_change", "campaign_design_change",
     "campaign_expansion", "game_phase", "snapshot_change", "snapshot_query",
     "branch_change", "branch_query", "state_revision"}
Tool == LobbyTools \cup PlayTools \cup ConflictTools

\* What an observer's exposure never offers.
ActingTools ==
    {"access_change", "profile_change", "pack_change", "actor_change",
     "campaign_design_change", "snapshot_change", "branch_change", "scene_change",
     "narrative_change", "narrative_settle", "downtime_settle", "world_turn_settle",
     "game_phase", "mechanic_resolve", "npc_conversation",
     "conflict_start", "conflict_act", "conflict_end"}

\* The phases whose policy lists a tool.
Offered(phase) == CASE phase = "lobby" -> LobbyTools
                    [] phase = "play"  -> PlayTools
                    [] OTHER           -> ConflictTools

\* The tools that need a capability of the active profile, by capability.
Optional ==
    [conflict |-> FightTools, mechanics |-> {"mechanic_resolve"},
     npc_conversation |-> {"npc_conversation"}, downtime |-> {"downtime_settle"},
     world_turn |-> {"world_turn_settle"}]

\* Of a campaign: the membership rows, the principals whose actor grants give
\* them control of an actor, the phase, the active profile, and the principal who
\* started the running conflict.  `changes` counts the changes of all these.
Access ==
    [role : [Principal -> Standing], controls : SUBSET Principal, phase : Phase,
     profile : Profile \cup {NoProfile}, conflict : Principal \cup {Nobody}, changes : Nat]

Exposure ==
    [principal : Principal, campaign : Campaign, phase : Phase, revision : Nat,
     loaded : SUBSET Tool, age : {"fresh", "expired"}]

\* A call waits for the lock, and runs its tool when it has it; then it is answered.
InFlight ==
    [stage : {"waiting"}, session : Session \cup {Modern}, who : Principal,
     campaign : Campaign, tool : Tool] \cup
    [stage : {"answering"}, session : Session, who : Principal, campaign : Campaign]

ASSUME ProfileAssumption ==
    /\ Capabilities \in [Profile -> SUBSET DOMAIN Optional]
    /\ Facilitators \in [Profile -> SUBSET Role]
    /\ PlayersFight \subseteq Profile
ASSUME ClientAssumption == Loadable \cup Callable \subseteq Tool
ASSUME MembersAssumption == Members \in [Principal -> Standing]
ASSUME KeyAssumption == Session \cap Handle = {}
ASSUME IdleAssumption == Idle \notin InFlight
ASSUME SessionBounds == MaxChanges \in Nat /\ MaxEpoch \in Nat

Key == Session \cup Handle

VARIABLES
    access,     \* campaigns, as stored in the database
    item,       \* ExposureRegistry._items
    call,       \* the calls in flight
    queue       \* who holds (the head) and who waits for a campaign's lock

vars == <<access, item, call, queue>>

Init ==
    /\ access = [c \in Campaign |->
         [role |-> Members, controls |-> {}, phase |-> "lobby",
          profile |-> NoProfile, conflict |-> Nobody, changes |-> 0]]
    /\ item = [s \in Key |-> NoExposure]
    /\ call = [k \in Call |-> Idle]
    /\ queue = [c \in Campaign |-> << >>]

-----------------------------------------------------------------------------
(* Who may use which tool *)

Provided(a) == IF a.profile = NoProfile THEN {} ELSE Capabilities[a.profile]

Member(a, who) == a.role[who] # "none"
Administers(a, who) == a.role[who] \in AdminRoles

Facilitates(a, who) ==
    a.role[who] \in IF a.profile = NoProfile THEN AdminRoles ELSE Facilitators[a.profile]

MayFight(a, who) ==
    \/ Facilitates(a, who)
    \/ a.profile \in PlayersFight /\ who \in a.controls

\* Whether a tool is open to a principal in some phase of a campaign.
Authorised(a, who, t) ==
    /\ \A cap \in DOMAIN Optional : t \in Optional[cap] => cap \in Provided(a)
    /\ t \in AdminTools => Administers(a, who)
    /\ t = "actor_change" => Administers(a, who) \/ who \in a.controls
    /\ t \in FightTools => MayFight(a, who) \/ a.conflict = who
    /\ t \in ActingTools => a.role[who] # "observer"

\* The tools among ts that an exposure may load.  The phase is the one it was last
\* told of.
Allowed(e, ts) ==
    {t \in ts \cap Offered(e.phase) : Authorised(access[e.campaign], e.principal, t)}

-----------------------------------------------------------------------------
(* The registry *)

Opened == {s \in Key : item[s] # NoExposure}

\* There is an exposure under a key, and it has not expired.
InUse(s) == s \in Opened /\ item[s].age = "fresh"

\* Refreshing such an exposure raises: its principal left the campaign.
Orphaned(s) == ~Member(access[item[s].campaign], item[s].principal)

\* The tools are filtered by the phase the exposure had, not by the one it gets.
Refreshed(e) ==
    LET phase == access[e.campaign].phase
        loaded == Allowed(e, e.loaded)
    IN  IF e.phase = phase /\ loaded = e.loaded THEN e
        ELSE [e EXCEPT !.phase = phase, !.loaded = loaded, !.revision = @ + 1]

\* The registry after the exposures `done` are refreshed.
WithFresh(done) == [s \in Key |-> IF s \in done THEN Refreshed(item[s]) ELSE item[s]]

\* What a refresh of the exposures xs can leave.  It raises at the first orphan, in
\* the order in which the keys were first used, and the rest stays as it is.
AfterRefresh(xs) ==
    {WithFresh(done) : done \in IF \E s \in xs : Orphaned(s)
                                THEN SUBSET {s \in xs : ~Orphaned(s)} ELSE {xs}}

\* No orphan: the refresh before a legacy call succeeds.
Healthy == \A s \in Opened : ~Orphaned(s)

\* registry.active and registry.get: an expired exposure is dropped when looked up.
WithoutExpired(registry, s) ==
    IF registry[s] # NoExposure /\ registry[s].age = "expired"
    THEN [registry EXCEPT ![s] = NoExposure] ELSE registry

\* 900 s have passed since the exposure was opened.
Expire(s) ==
    /\ InUse(s)
    /\ item' = [item EXCEPT ![s].age = "expired"]
    /\ UNCHANGED <<access, call, queue>>

-----------------------------------------------------------------------------
(* Calls *)

Answering(s, who, c) ==
    [stage |-> "answering", session |-> s, who |-> who, campaign |-> c]

\* ExposureRegistry.open
Begun(who, c) ==
    [principal |-> who, campaign |-> c, phase |-> access[c].phase,
     revision |-> 0, loaded |-> {}, age |-> "fresh"]

\* `exposure` open, of a legacy session.  The notification of the client comes
\* before the second refresh, and the answer is for the principal the session had.
\* (Only a server with an auth-context secret lets a session change its principal.)
Open(k, s, who, c) ==
    /\ call[k] = Idle /\ Healthy /\ Member(access[c], who)
    /\ item' = [WithFresh(Opened) EXCEPT ![s] = Begun(who, c)]
    /\ call' = [call EXCEPT ![k] = Answering(s, IF InUse(s) THEN item[s].principal ELSE who, c)]
    /\ UNCHANGED <<access, queue>>

\* `exposure` open without a campaign.
OpenUnbound(s) ==
    /\ Healthy /\ s \in Opened
    /\ item' = [WithFresh(Opened) EXCEPT ![s] = NoExposure]
    /\ UNCHANGED <<access, call, queue>>

\* `exposure` set: a legacy session changes the tools of its exposure, or of the one
\* whose handle it names.
SetTools(k, s, x, add, remove) ==
    /\ call[k] = Idle /\ Healthy /\ x \in Opened
    /\ LET e == Refreshed(item[x])
           loaded == (e.loaded \cup add) \ remove
       IN  /\ e.age = "fresh" /\ e.revision < MaxEpoch
           /\ add = Allowed(e, add) /\ add \cap remove = {}
           /\ loaded # e.loaded
           /\ item' = [WithFresh(Opened) EXCEPT
                  ![x] = [e EXCEPT !.loaded = loaded, !.revision = @ + 1]]
           /\ call' = [call EXCEPT ![k] = Answering(s, e.principal, e.campaign)]
    /\ UNCHANGED <<access, queue>>

\* `exposure` open, of a modern client: an exposure under a key of its own, and no
\* refresh of the others.
OpenModern(h, who, c) ==
    /\ h \notin Opened /\ Member(access[c], who)
    /\ item' = [item EXCEPT ![h] = Begun(who, c)]
    /\ UNCHANGED <<access, call, queue>>

\* `exposure` set, of a modern client that names an exposure by its handle, a legacy
\* session's too.  What it may load is told by the phase the exposure has, and no
\* exposure is refreshed, this one neither.
SetModern(x, add, remove) ==
    /\ InUse(x)
    /\ item[x].revision < MaxEpoch
    /\ add = Allowed(item[x], add) /\ add \cap remove = {}
    /\ LET loaded == (item[x].loaded \cup add) \ remove
       IN  /\ loaded # item[x].loaded
           /\ item' = [item EXCEPT ![x].loaded = loaded, ![x].revision = @ + 1]
    /\ UNCHANGED <<access, call, queue>>

\* Any other modern `exposure` request, and one that is refused: it looks the
\* exposure up.
AskModern(x) ==
    /\ item' = WithoutExpired(item, x)
    /\ UNCHANGED <<access, call, queue>>

\* A legacy request that is refused, or only reads: tools/list, `exposure` get and
\* search, campaign_query, a tool that is not loaded.  It looks up an exposure, its
\* own session's or the one whose handle it names.
Ask(x) ==
    /\ \E registry \in AfterRefresh(Opened) :
          item' = IF Healthy THEN WithoutExpired(registry, x) ELSE registry
    /\ UNCHANGED <<access, call, queue>>

Enqueue(k, s, who, c, t) ==
    /\ call[k] = Idle
    /\ call' = [call EXCEPT ![k] =
           [stage |-> "waiting", session |-> s, who |-> who, campaign |-> c, tool |-> t]]
    /\ queue' = [queue EXCEPT ![c] = Append(@, k)]
    /\ UNCHANGED access

\* Mutant: the exposure of the caller is checked before the refresh.
AcceptUnrefreshed(k, s, t) ==
    /\ Healthy /\ InUse(s)
    /\ item' = WithFresh(Opened)
    /\ t \in item[s].loaded
    /\ t \in AdminTools => Administers(access[item[s].campaign], item[s].principal)
    /\ Enqueue(k, s, item[s].principal, item[s].campaign, t)

\* A legacy session calls a tool it has loaded.
Accept(k, s, t) ==
    /\ Healthy /\ InUse(s)
    /\ item' = WithFresh(Opened)
    /\ t \in item'[s].loaded
    /\ t \in AdminTools => Administers(access[item[s].campaign], item[s].principal)
    /\ Enqueue(k, s, item[s].principal, item[s].campaign, t)

\* A modern client calls any tool of the catalog.
AcceptModern(k, who, c, t) ==
    /\ t \in AdminTools => Administers(access[c], who)
    /\ Enqueue(k, Modern, who, c, t)
    /\ UNCHANGED item

-----------------------------------------------------------------------------
(* What tools do to a campaign *)

\* Whether a principal may get a standing: one without a row has none to lose, and
\* the last owner stays.
MayGet(a, p, standing) ==
    /\ standing = "none" => Member(a, p)
    /\ a.role[p] = "owner" /\ standing # "owner" =>
          \E q \in Principal \ {p} : a.role[q] = "owner"

\* Mutant: a principal who leaves keeps the actor grants.
WithStandingOnly(a, p, standing) == [a EXCEPT !.role[p] = standing]

\* access_change on a membership: a principal who leaves loses the actor grants.
WithStanding(a, p, standing) ==
    [a EXCEPT !.role[p] = standing,
              !.controls = IF standing = "none" THEN @ \ {p} ELSE @]

Rostered(a) ==
    UNION {{WithStanding(a, p, standing) : standing \in {r \in Standing : MayGet(a, p, r)}} :
           p \in Principal}

\* access_change on an actor grant.
Entrusted(a) ==
    {[a EXCEPT !.controls = @ \cup {p}] : p \in {q \in Principal : Member(a, q)}} \cup
    {[a EXCEPT !.controls = @ \ {p}] : p \in a.controls}

Phased(a) ==
    IF a.phase = "conflict" THEN {}
    ELSE {[a EXCEPT !.phase = phase] :
             phase \in {"lobby"} \cup IF a.profile = NoProfile THEN {} ELSE {"play"}}

Profiled(a) == IF a.phase # "lobby" THEN {} ELSE {[a EXCEPT !.profile = p] : p \in Profile}

ConflictStarted(a, who) ==
    IF /\ MayFight(a, who) /\ "conflict" \in Provided(a)
       /\ a.phase = "play" /\ a.conflict = Nobody
    THEN {[a EXCEPT !.phase = "conflict", !.conflict = who]} ELSE {}

ConflictEnded(a, who) ==
    IF /\ Facilitates(a, who) \/ a.conflict = who
       /\ "conflict" \in Provided(a) /\ a.phase = "conflict"
    THEN {[a EXCEPT !.phase = "play", !.conflict = Nobody]} ELSE {}

\* A restore, a checkout or a fork brings back the phase, the profile and the conflict
\* of an earlier document.  A campaign may have any past, so any is possible.
Past == {d \in [phase : Phase, profile : Profile \cup {NoProfile}, conflict : Principal \cup {Nobody}] :
           /\ d.phase = "conflict" <=> d.conflict # Nobody
           /\ d.phase # "lobby" => d.profile # NoProfile}

Recovered(a) ==
    {[a EXCEPT !.phase = d.phase, !.profile = d.profile, !.conflict = d.conflict] : d \in Past}

\* What a tool called by a principal may leave of the campaign; nothing if it must
\* fail.  A tool may fail for reasons the model does not see: a stale revision, an
\* open conversation, an active scene.
Results(a, who, t) ==
    CASE ~Member(a, who)       -> {}
      [] t = "access_change"   -> IF a.role[who] = "owner" THEN Rostered(a) \cup Entrusted(a)
                                  ELSE {}
      [] t = "game_phase"      -> IF Administers(a, who) THEN Phased(a) ELSE {}
      [] t = "profile_change"  -> IF Administers(a, who) THEN Profiled(a) ELSE {}
      [] t = "conflict_start"  -> ConflictStarted(a, who)
      [] t = "conflict_end"    -> ConflictEnded(a, who)
      [] t \in {"snapshot_change", "branch_change"} ->
           IF Administers(a, who) THEN Recovered(a) \cup {a} ELSE {}
      [] OTHER                 -> {a}

Counted(a, b) == [b EXCEPT !.changes = IF b = a THEN @ ELSE @ + 1]

Holds(k) == call[k] # Idle /\ call[k].stage = "waiting" /\ Head(queue[call[k].campaign]) = k

\* The tool runs and succeeds; the lock passes on.  The answer to a modern call
\* touches nothing more.
Run(k) ==
    /\ Holds(k)
    /\ UNCHANGED item
    /\ call' = [call EXCEPT ![k] = IF @.session = Modern THEN Idle
                                   ELSE Answering(@.session, @.who, @.campaign)]
    /\ queue' = [queue EXCEPT ![call[k].campaign] = Tail(@)]
    /\ LET q == call[k]
           a == access[q.campaign]
       IN  \E b \in Results(a, q.who, q.tool) :
              /\ Counted(a, b).changes <= MaxChanges
              /\ access' = [access EXCEPT ![q.campaign] = Counted(a, b)]

\* Mutant: a tool that raises leaves the lock taken.
FailHolding(k) ==
    /\ Holds(k)
    /\ call' = [call EXCEPT ![k] = Idle]
    /\ UNCHANGED <<access, item, queue>>

\* The tool raises: the lock passes on, and nothing is refreshed.
Fail(k) ==
    /\ Holds(k)
    /\ call' = [call EXCEPT ![k] = Idle]
    /\ queue' = [queue EXCEPT ![call[k].campaign] = Tail(@)]
    /\ UNCHANGED <<access, item>>

\* The answer of a legacy call is preceded by a refresh of the campaign.
Answer(k) ==
    /\ call[k] # Idle /\ call[k].stage = "answering"
    /\ call' = [call EXCEPT ![k] = Idle]
    /\ UNCHANGED <<access, queue>>
    /\ LET q == call[k]
           xs == {s \in Opened : item[s].campaign = q.campaign}
       IN  \E registry \in AfterRefresh(xs) :
              item' = IF (\A s \in xs : ~Orphaned(s)) /\ Member(access[q.campaign], q.who)
                      THEN WithoutExpired(registry, q.session) ELSE registry

-----------------------------------------------------------------------------

Registers ==
    \E x \in Key :
        \/ Expire(x)
        \/ Ask(x)
        \/ AskModern(x)
        \/ \E add, remove \in SUBSET Loadable :
              \/ SetModern(x, add, remove)
              \/ \E k \in Call, s \in Session : SetTools(k, s, x, add, remove)

Opens ==
    \/ \E s \in Session :
          \/ OpenUnbound(s)
          \/ \E k \in Call, who \in Principal, c \in Campaign : Open(k, s, who, c)
    \/ \E h \in Handle, who \in Principal, c \in Campaign : OpenModern(h, who, c)

Calls ==
    \E k \in Call :
        \/ \E s \in Session, t \in Loadable : Accept(k, s, t)
        \/ \E who \in Principal, c \in Campaign, t \in Callable : AcceptModern(k, who, c, t)
        \/ Run(k)
        \/ Fail(k)
        \/ Answer(k)

Next == Registers \/ Opens \/ Calls

\* The event loop runs what it has started: a tool ends, one way or the other, and
\* its call is answered.  Clients owe nothing.
Fairness == \A k \in Call : WF_vars(Fail(k) \/ Run(k)) /\ WF_vars(Answer(k))

Spec == Init /\ [][Next]_vars /\ Fairness

-----------------------------------------------------------------------------
(* Properties *)

Typed ==
    /\ access \in [Campaign -> Access]
    /\ item \in [Key -> Exposure \cup {NoExposure}]
    /\ call \in [Call -> InFlight \cup {Idle}]
    /\ queue \in [Campaign -> Seq(Call)]

\* A call waits for the lock of a campaign.
Waits(k, c) == call[k] # Idle /\ call[k].stage = "waiting" /\ call[k].campaign = c

\* The queue of a lock holds the calls that wait for it, each of them once.
Queues ==
    \A c \in Campaign :
        /\ IsInjective(queue[c])
        /\ \A k \in Call : Contains(queue[c], k) <=> Waits(k, c)

\* The type of the state, with the lock queues.
TypeOK == Typed /\ Queues

\* Only members control actors, in whatever order principals join, are granted
\* actors, and leave.
ActorGrantsOfMembers ==
    \A c \in Campaign, p \in Principal :
        p \in access[c].controls => Member(access[c], p)

\* A legacy call is accepted only under an exposure that has not expired, and only if
\* the caller's role, the active profile, the actor grants and the conflict open the
\* tool at that moment, whoever changed them and when the exposure was last refreshed.
\* Its phase may lag by one refresh: it is the one the exposure was told of by the
\* refresh before.
AcceptedIsAuthorised ==
    [][\A k \in Call :
          call[k] = Idle /\ call'[k] # Idle /\ call'[k].stage = "waiting"
                         /\ call'[k].session # Modern =>
             /\ Authorised(access[call'[k].campaign], call'[k].who, call'[k].tool)
             /\ call'[k].tool \in Offered(item[call'[k].session].phase)
             /\ item[call'[k].session].age = "fresh"]_vars

\* Every call ends, whatever the others do: a lock is never left behind.
EveryCallEnds == \A k \in Call : []<>(call[k] = Idle)

\* Parallel campaigns have separate exposure state: what happens to an exposure of
\* one campaign never makes the server refuse a member of another.
CampaignsSeparate ==
    \A s, x \in Opened :
        /\ ~Orphaned(s) /\ item[s].campaign # item[x].campaign => ~Orphaned(x)
===============================================================================
