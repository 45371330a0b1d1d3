----------------------------- MODULE ProposalKey -----------------------------
(***************************************************************************)
(* What the configuration of the servers promises: an episode signed by    *)
(* one server is verified by every other server that keeps its proposal    *)
(* key at the same place, at any later time.  A place is given its key     *)
(* once; a server that serves uses the key it was configured with or the   *)
(* one of its place.                                                       *)
(***************************************************************************)
CONSTANTS
    Process,    \* server processes
    Place,      \* where a key can be kept
    Key,        \* keys
    NoKey,      \* no key (yet)
    Fixed,      \* the key a process is configured with, or NoKey
    At          \* the place a process without such a key looks at

VARIABLES
    chosen,     \* the key each place was given
    serving     \* the key each process serves with

keyVars == <<chosen, serving>>

KeyInit ==
    /\ chosen = [l \in Place |-> NoKey]
    /\ serving = [p \in Process |-> NoKey]

Choose(l, k) ==
    /\ chosen[l] = NoKey
    /\ chosen' = [chosen EXCEPT ![l] = k]
    /\ UNCHANGED serving

Serve(p, k) ==
    /\ serving[p] = NoKey
    /\ IF Fixed[p] # NoKey THEN k = Fixed[p]
                           ELSE At[p] \in Place /\ chosen[At[p]] = k
    /\ serving' = [serving EXCEPT ![p] = k]
    /\ UNCHANGED chosen

Stop(p) ==
    /\ serving' = [serving EXCEPT ![p] = NoKey]
    /\ UNCHANGED chosen

KeyNext ==
    \/ \E l \in Place, k \in Key : Choose(l, k)
    \/ \E p \in Process : Stop(p) \/ \E k \in Key : Serve(p, k)

KeySpec == KeyInit /\ [][KeyNext]_keyVars
==============================================================================
