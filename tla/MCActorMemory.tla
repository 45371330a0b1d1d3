----------------------------- MODULE MCActorMemory -----------------------------
(* Small instances of ActorMemory. *)
EXTENDS ActorMemory

Basic == [ref |-> 1, track |-> "identity", content |-> 1, exact |-> 0, lexical |-> 0,
          salience |-> 3, confidence |-> 3, recency |-> 1, cost |-> 2]

\* Two that say the same, of which the older was asked for; dear and cheap items;
\* ties in all but the reference; items on every track.
MCUniverse == {
    Basic,
    [Basic EXCEPT !.ref = 2, !.recency = 2, !.cost = 3],
    [Basic EXCEPT !.ref = 3, !.content = 2, !.exact = 1, !.cost = 4],
    [Basic EXCEPT !.ref = 4, !.track = "motivational", !.cost = 3],
    [Basic EXCEPT !.ref = 5, !.track = "motivational", !.content = 2, !.salience = 2, !.cost = 1],
    [Basic EXCEPT !.ref = 6, !.track = "semantic"],
    [Basic EXCEPT !.ref = 7, !.track = "episodic", !.lexical = 2],
    [Basic EXCEPT !.ref = 8, !.track = "episodic", !.lexical = 1, !.cost = 1],
    [Basic EXCEPT !.ref = 9, !.track = "episodic", !.exact = 1, !.lexical = 1,
                  !.recency = 2, !.confidence = 4]}
================================================================================
