------------------------------ MODULE ActorMemory ------------------------------
(***************************************************************************)
(* How the memory of an actor is chosen: select_actor_memory_context in    *)
(* actor_memory.py takes candidates on four tracks (what the actor is,     *)
(* wants, knows and has lived through), keeps one of those that say the    *)
(* same, reserves room for the best candidate of every track, and spends   *)
(* what is left of a strict budget in the order of rank.                   *)
(*                                                                         *)
(* The candidates come from queries that promise no order, so the model    *)
(* meets them in any.                                                      *)
(***************************************************************************)
EXTENDS Integers, FiniteSets, FiniteSetsExt

CONSTANTS
    Universe,       \* what candidates may be
    MaxCandidates,  \* bound of the model on how many there are
    MaxBudget       \* bound of the model on the budget

Track == <<"identity", "motivational", "semantic", "episodic">>

\* `content` stands for the text without case and spacing, `exact` and `lexical`
\* for how many of the references and words asked for are found in the item,
\* `cost` for its length in canonical form.  The reference is unique.
Item == [ref : Nat, track : {Track[k] : k \in 1..4}, content : Nat,
         exact : Nat, lexical : Nat, salience : 0..5, confidence : 0..5, recency : Nat,
         cost : Nat]

ASSUME UniverseAssumption ==
    /\ Universe \subseteq Item
    /\ \A i, j \in Universe : i.ref = j.ref => i = j
ASSUME BudgetAssumption == MaxBudget \in Nat /\ MaxCandidates \in Nat

VARIABLES
    stage,      \* "merge", "floors", "fill" or "done"
    candidates, budget,     \* the request
    pending,    \* candidates not yet looked at in this stage
    kept,       \* deduplicated
    floors,     \* how many tracks have had their floor
    selected, used

vars == <<stage, candidates, budget, pending, kept, floors, selected, used>>

\* The order of tuples of numbers.
Less(s, t) == \E k \in DOMAIN s :
    s[k] < t[k] /\ \A j \in DOMAIN s : j < k => s[j] = t[j]

Preference(i) == <<i.recency, i.salience, i.confidence, i.ref>>
Rank(i) == <<-i.exact, -i.lexical, -i.salience, -i.confidence, -i.recency, i.ref>>

Same(i, j) == i.track = j.track /\ i.content = j.content

\* The first of a set of items in the order of rank.
IsFirst(i, S) == i \in S /\ \A j \in S : j = i \/ Less(Rank(i), Rank(j))

Init ==
    /\ stage = "merge"
    /\ candidates \in SUBSET Universe
    /\ IsFiniteSet(candidates) /\ Cardinality(candidates) <= MaxCandidates
    /\ budget \in 0..MaxBudget
    /\ pending = candidates
    /\ kept = {} /\ floors = 0 /\ selected = {} /\ used = 0

\* Mutant: of candidates that say the same, the first one met is kept.
MergeFirst(i) ==
    /\ stage = "merge"
    /\ pending' = pending \ {i}
    /\ kept' = IF \E j \in kept : Same(i, j) THEN kept ELSE kept \cup {i}
    /\ UNCHANGED <<stage, candidates, budget, floors, selected, used>>

\* Of candidates that say the same, the preferred one is kept.
Merge(i) ==
    /\ stage = "merge"
    /\ pending' = pending \ {i}
    /\ kept' =
          IF \E j \in kept : Same(i, j) /\ ~Less(Preference(j), Preference(i)) THEN kept
          ELSE {j \in kept : ~Same(i, j)} \cup {i}
    /\ UNCHANGED <<stage, candidates, budget, floors, selected, used>>

Merged ==
    /\ stage = "merge" /\ pending = {}
    /\ stage' = "floors"
    /\ UNCHANGED <<candidates, budget, pending, kept, floors, selected, used>>

Fits(i) == used + i.cost <= budget

Select(i) == selected' = selected \cup {i} /\ used' = used + i.cost
Skip == UNCHANGED <<selected, used>>

OnTrack(k) == {i \in kept : i.track = Track[k]}

\* The best of the next track gets its room, if it fits.
Floor ==
    /\ stage = "floors" /\ floors < 4
    /\ floors' = floors + 1
    /\ \/ \E i \in kept :
             /\ IsFirst(i, OnTrack(floors + 1))
             /\ IF Fits(i) THEN Select(i) ELSE Skip
       \/ OnTrack(floors + 1) = {} /\ Skip
    /\ UNCHANGED <<stage, candidates, budget, pending, kept>>

FloorsDone ==
    /\ stage = "floors" /\ floors = 4
    /\ stage' = "fill" /\ pending' = kept \ selected
    /\ UNCHANGED <<candidates, budget, kept, floors, selected, used>>

\* Mutant: the first item that does not fit ends the selection.
FillUntilFull ==
    /\ stage = "fill"
    /\ \E i \in pending :
          /\ IsFirst(i, pending)
          /\ IF Fits(i) THEN Select(i) /\ pending' = pending \ {i}
             ELSE Skip /\ pending' = {}
    /\ UNCHANGED <<stage, candidates, budget, kept, floors>>

\* The rest, in the order of rank; what does not fit is passed over.
Fill ==
    /\ stage = "fill"
    /\ \E i \in pending :
          /\ IsFirst(i, pending)
          /\ IF Fits(i) THEN Select(i) ELSE Skip
          /\ pending' = pending \ {i}
    /\ UNCHANGED <<stage, candidates, budget, kept, floors>>

Filled ==
    /\ stage = "fill" /\ pending = {}
    /\ stage' = "done"
    /\ UNCHANGED <<candidates, budget, pending, kept, floors, selected, used>>

Next ==
    \/ \E i \in pending : Merge(i)
    \/ Merged
    \/ Floor
    \/ FloorsDone
    \/ Fill
    \/ Filled

Spec == Init /\ [][Next]_vars

-----------------------------------------------------------------------------
(* Properties *)

\* The type of the state.
TypeOK ==
    /\ stage \in {"merge", "floors", "fill", "done"}
    /\ candidates \subseteq Universe /\ budget \in 0..MaxBudget
    /\ pending \subseteq candidates /\ kept \subseteq candidates /\ selected \subseteq kept
    /\ floors \in 0..4 /\ used \in Nat

Cost(S) == MapThenSumSet(LAMBDA i : i.cost, S)

\* Those a set of candidates stands for: of those that say the same, the preferred.
Distinct(S) == {i \in S : \A j \in S : Same(i, j) => i = j \/ Less(Preference(j), Preference(i))}

\* What is asked for, in one formula: an item is selected exactly if it fits beside
\* those that come before it; the best of the tracks come first, in the order of
\* the tracks, and then all others, in the order of rank.
IsSelection(S) ==
    LET items == Distinct(candidates)
        Best(k) == {i \in items : IsFirst(i, {j \in items : j.track = Track[k]})}
        Reserved(k) == S \cap UNION {Best(j) : j \in 1..k - 1}
        Granted == UNION {{i \in Best(k) : Cost(Reserved(k)) + i.cost <= budget} : k \in 1..4}
        Before(i) == Granted \cup {j \in S : Less(Rank(j), Rank(i))}
    IN
    /\ S \subseteq items /\ Granted \subseteq S
    /\ \A i \in items \ Granted : i \in S <=> Cost(Before(i)) + i.cost <= budget

\* The result depends on the candidates only, not on the order in which queries
\* return them: it is the one selection, and its cost is accounted.
SelectionIsDetermined ==
    stage = "done" =>
        /\ {S \in SUBSET candidates : IsSelection(S)} = {selected}
        /\ used = Cost(selected)

\* The budget is strict and no room is wasted: nothing that was left out fits, and
\* a floor that did not fit stays out (actor_memory.py keeps it eligible in case
\* a smaller selection leaves room later, which none does).
BudgetIsSpent ==
    /\ used <= budget
    /\ stage = "done" => \A i \in kept \ selected : used + i.cost > budget
    /\ stage \in {"fill", "done"} =>
          \A k \in 1..4, i \in kept : IsFirst(i, OnTrack(k)) =>
              i \in selected \/ used + i.cost > budget
================================================================================
