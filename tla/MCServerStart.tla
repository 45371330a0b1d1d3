---------------------------- MODULE MCServerStart ----------------------------
(* Three replicas over one database file, started from two homes, and two   *)
(* servers over a remote database: one derives its key from the             *)
(* auth-context secret, one has none.                                       *)
EXTENDS ServerStart, TLC

CONSTANTS
    s1, s2, s3, s4, s5,     \* servers
    hA, hB,                 \* homes
    disk, remote,           \* databases
    x, dx                   \* an auth-context secret, and the key derived from it

Replica(h) == [secret |-> Absent, auth |-> Absent, url |-> disk, home |-> h]

MCSetting ==
    [p \in Process |-> CASE p = s4 -> [Replica(hA) EXCEPT !.url = remote, !.auth = x]
                         [] p = s5 -> [Replica(hA) EXCEPT !.url = remote]
                         [] OTHER  -> Replica(IF p = s2 THEN hB ELSE hA)]

MCMaxStart == [p \in Process |-> IF p \in {s1, s2} THEN 2 ELSE 1]

MCDerive == [k \in Secret |-> dx]
==============================================================================
