--------------------------- MODULE MCCampaignWrite ---------------------------
(* Small workloads for CampaignWrite. *)
EXTENDS CampaignWrite, TLC

CONSTANTS olga, otto, pia,  \* two owners and a player
          k1, k2,           \* idempotency keys
          c1, c2,           \* conversations
          main, alt,        \* branches
          h1, h2            \* handlers

MCMembers == olga :> "owner" @@ otto :> "owner" @@ pia :> "player"

\* A request with the fields its operation does not use set to fixed values.
Plain(op, p, k, n) ==
    [op |-> op, principal |-> p, key |-> k, branch |-> main, rev |-> n,
     who |-> p, as |-> "none", conv |-> c1, onto |-> main, extra |-> FALSE]

With(q, field, v) == [q EXCEPT ![field] = v]

\* The handlers are interchangeable.
Handlers == Permutations(Call)

\* One conversation, snapshots and branches, writes that reuse a key, and two
\* owners who remove each other.
LiveWorkload ==
    {Plain("npc.open", pia, k1, n) : n \in 0..1}
    \cup {Plain("npc.refresh", pia, k1, 1), Plain("settle.close", pia, k1, 2)}
    \cup {Plain("snapshot", olga, k1, n) : n \in 0..1}
    \cup {With(Plain("fork", olga, k1, n), "extra", n = 2) : n \in 1..2}
    \cup {Plain("restore", otto, k1, 2)}
    \cup {With(Plain("checkout", otto, k1, 2), "onto", alt), Plain("checkout", otto, k2, 1)}
    \cup {With(Plain("checkout", olga, k1, 3), "branch", alt)}
    \cup {Plain("change", olga, k1, 0), Plain("checked", olga, k1, 1)}
    \cup {With(Plain("revoke", olga, k1, 1), "who", otto)}
    \cup {With(Plain("settle", otto, k1, 1), "extra", TRUE)}
    \cup {With(With(Plain("grant", otto, k1, 1), "who", olga), "as", "player")}

\* One conversation, opened and closed, with every request free to be repeated.
RetryWorkload ==
    {Plain("npc.open", pia, k1, 0), Plain("npc.close", pia, k1, 1), Plain("settle.close", pia, k1, 1)}
==============================================================================
