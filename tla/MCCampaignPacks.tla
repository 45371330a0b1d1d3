--------------------------- MODULE MCCampaignPacks ---------------------------
(* Small campaigns for CampaignPacks: their profiles, Packs and documents. *)
EXTENDS CampaignPacks, TLC

CONSTANTS
    olga, dana,             \* the founder and another principal
    pc,                     \* an actor
    fate, b1, b2,           \* a profile version and two revisions of its document
    noir, b3,               \* another profile version and its document
    base, tale, coda,       \* Pack versions: a root, an episode, its sequel,
    rival, pick,            \* another Pack, a seed
    a1, a2, e1, e2, f1,     \* documents of the root, the episode and the sequel,
    o1, o2, s1,             \* of the other Pack and of the seed
    mA, mE, mF, mO,         \* manifests of base, tale, coda and rival
    arc,                    \* a player's arc
    r1, r2                  \* play evidence

Root(id, lines) ==
    [id |-> id, generation |-> 0, root |-> id, parent |-> Absent, cites |-> {}, entities |-> lines]
Child(id, parent, n, cited) ==
    [id |-> id, generation |-> n, root |-> mA, parent |-> parent, cites |-> cited, entities |-> {}]

Pin(key, content, att) == [key |-> key, sum |-> [content |-> content, att |-> att]]

MCProfileKey == [b \in Body |-> IF b = b3 THEN noir ELSE fate]
MCPackKey == [c \in Content |-> CASE c \in {a1, a2} -> base
                                   [] c \in {e1, e2} -> tale
                                   [] c = f1 -> coda
                                   [] c \in {o1, o2} -> rival
                                   [] OTHER -> pick]

\* The first document of the root demands the first document of the profile.
AnyProfile == Body \cup {Absent}
MCDemands == [c \in Content |-> IF c = a1 /\ Body # {} THEN {b1} ELSE AnyProfile]

\* The first document of the episode pins the first document of the root, the
\* second pins nothing.  The sequel pins the episode as signed on the first
\* branch and depends on the root's version, as does the seed.  The second
\* document of the other Pack has no manifest and pins the root.
MCNeeds == [c \in Content |-> CASE c \in {e1, o2} -> {Pin(base, a1, Unsigned)}
                                 [] c = f1 -> {Pin(tale, e1, 0), [key |-> base, sum |-> AnySum]}
                                 [] c = s1 /\ base \in Pack -> {[key |-> base, sum |-> AnySum]}
                                 [] OTHER -> {}]

MCManifest == [c \in Content |-> CASE c \in {a1, a2} -> Root(mA, Entity)
                                    [] c \in {e1, e2} -> Child(mE, mA, 1, {r1, mA})
                                    [] c = f1 -> Child(mF, mE, 2, {mE})
                                    [] c = o1 -> Root(mO, {})
                                    [] OTHER -> NoManifest]

\* The seed makes everybody a player.
MCSeed == [c \in Content |->
    IF c = s1
    THEN [members |-> [p \in Principal |-> "player"], actors |-> Actor, records |-> PlayRef \cap {r2}]
    ELSE NoSeed]

MCEntityType == [e \in Entity |-> "character_arc"]
MCDeclared == [e \in Entity |-> "open"]
MCOpportunity == [e \in Entity |-> {mA}]
MCLinked == [e \in Entity |-> {r1}]
==============================================================================
