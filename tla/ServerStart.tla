----------------------------- MODULE ServerStart -----------------------------
(***************************************************************************)
(* How a server process comes by the key that signs campaign expansions    *)
(* (config.py): from its settings, or from a key file beside its home or   *)
(* its database, which the first process to come creates.                  *)
(*                                                                         *)
(* _load_or_create_secret is a sequence of file operations; several        *)
(* processes run it at once, and any of them may die between two of them:  *)
(*   read     read_text, which finds no file or reads what is there        *)
(*   create   os.open(O_CREAT | O_EXCL), which creates an EMPTY file       *)
(*   reread   read_text after another process created the file first       *)
(*   write    the candidate reaches the file when the stream is closed     *)
(*   check    _validate_secret                                             *)
(* Nothing ever removes a key file.                                        *)
(***************************************************************************)
EXTENDS Naturals

CONSTANTS
    Process,    \* server processes, restarted by their supervisors
    Home,       \* SAGASMITH_NARRATIVE_MCP_HOME directories
    Url,        \* explicit database URLs
    FileBacked, \* those that name a SQLite file
    Secret,     \* secrets of at least 32 bytes given in settings
    Derive,     \* the proposal key derived from an auth-context secret
    Setting,    \* the settings of each process
    Absent,     \* a setting that is not made
    Weak,       \* a secret of less than 32 bytes
    Missing,    \* no such file
    Empty,      \* a file without content
    NoKey,      \* no key
    MaxStart    \* Bound: how often each process is started

\* A process draws another candidate whenever it is started.
Draw == UNION {{p} \X (1..MaxStart[p]) : p \in Process}

Settings == [secret : Secret \cup {Weak, Absent}, auth : Secret \cup {Weak, Absent},
             url : Url \cup {Absent}, home : Home]

Place == ({"home"} \X Home) \cup ({"database"} \X FileBacked)

ASSUME SettingAssumption ==
    /\ Setting \in [Process -> Settings]
    /\ FileBacked \subseteq Url
    /\ Derive \in [Secret -> Secret]
    /\ MaxStart \in [Process -> Nat]

ASSUME ValueAssumption ==
    /\ {Weak, Absent, Missing, Empty, NoKey} \cap (Draw \cup Secret) = {}
    /\ Missing # Empty /\ Weak # Absent /\ Weak # NoKey
    /\ Absent \notin Url
    /\ Absent \notin Place

VARIABLES
    pc,         \* where each process is
    value,      \* the secret it read, drew or was given
    starts,     \* how often it was started
    file,       \* the key files
    used        \* history: every key anybody served with, and its place

vars == <<pc, value, starts, file, used>>

PC == {"down", "read", "create", "reread", "write", "check", "serving", "refused"}

\* On its way to serve, or to be refused.
Starting == {"read", "create", "reread", "write", "check"}

-----------------------------------------------------------------------------
(* The settings: which key, or which file *)

\* The proposal secret, else the key derived from the auth-context secret.
Configured(p) ==
    LET s == Setting[p] IN
    IF s.secret # Absent THEN s.secret
    ELSE IF s.auth \in Secret THEN Derive[s.auth] ELSE Absent

\* Mutant: the key file of a database lies in the home of the process.
PlaceInHome(p) == <<"home", Setting[p].home>>

\* The file a process without a configured key uses: under its home for the
\* default database, beside the database when that is a file, or none.
PlaceOf(p) ==
    LET s == Setting[p] IN
    CASE s.url = Absent      -> <<"home", s.home>>
      [] s.url \in FileBacked -> <<"database", s.url>>
      [] OTHER               -> Absent

-----------------------------------------------------------------------------
Init ==
    /\ pc = [p \in Process |-> "down"]
    /\ value = [p \in Process |-> NoKey]
    /\ starts = [p \in Process |-> 0]
    /\ file = [l \in Place |-> Missing]
    /\ used = {}

Goto(p, where) == pc' = [pc EXCEPT ![p] = where]
Holds(p, v) == value' = [value EXCEPT ![p] = v]

\* A weak auth-context secret, or a database without a place for the key,
\* refuses the start.
Unusable(p) ==
    \/ Setting[p].auth = Weak
    \/ Configured(p) = Absent /\ PlaceOf(p) = Absent

\* McpConfig.from_environment up to the key file, and for an explicit database
\* resolved_proposal_attestation_secret.
Start(p) ==
    /\ pc[p] \in {"down", "refused"}
    /\ starts[p] < MaxStart[p]
    /\ starts' = [starts EXCEPT ![p] = @ + 1]
    /\ \/ /\ Unusable(p)
          /\ Goto(p, "refused")
          /\ UNCHANGED value
       \/ /\ ~Unusable(p) /\ Configured(p) # Absent
          /\ Goto(p, "check")
          /\ Holds(p, Configured(p))
       \/ /\ ~Unusable(p) /\ Configured(p) = Absent
          /\ Goto(p, "read")
          /\ UNCHANGED value
    /\ UNCHANGED <<file, used>>

Read(p) ==
    /\ pc[p] = "read"
    /\ IF file[PlaceOf(p)] = Missing
       THEN Goto(p, "create") /\ Holds(p, <<p, starts[p]>>)
       ELSE Goto(p, "check") /\ Holds(p, file[PlaceOf(p)])
    /\ UNCHANGED <<starts, file, used>>

\* Mutant: the file is opened without O_EXCL.
CreateOrTruncate(p) ==
    /\ pc[p] = "create"
    /\ Goto(p, "write") /\ file' = [file EXCEPT ![PlaceOf(p)] = Empty]
    /\ UNCHANGED <<value, starts, used>>

Create(p) ==
    /\ pc[p] = "create"
    /\ IF file[PlaceOf(p)] = Missing
       THEN Goto(p, "write") /\ file' = [file EXCEPT ![PlaceOf(p)] = Empty]
       ELSE Goto(p, "reread") /\ UNCHANGED file
    /\ UNCHANGED <<value, starts, used>>

\* Mutant: the loser waits until the winner has written.
RereadWhenWritten(p) ==
    /\ pc[p] = "reread"
    /\ file[PlaceOf(p)] # Empty
    /\ Goto(p, "check")
    /\ Holds(p, file[PlaceOf(p)])
    /\ UNCHANGED <<starts, file, used>>

Reread(p) ==
    /\ pc[p] = "reread"
    /\ Goto(p, "check")
    /\ Holds(p, file[PlaceOf(p)])
    /\ UNCHANGED <<starts, file, used>>

Write(p) ==
    /\ pc[p] = "write"
    /\ file' = [file EXCEPT ![PlaceOf(p)] = value[p]]
    /\ Goto(p, "check")
    /\ UNCHANGED <<value, starts, used>>

Valid(v) == v \in Draw \cup Secret

\* _validate_secret: the server serves with the key, or the start fails.
Check(p) ==
    /\ pc[p] = "check"
    /\ IF Valid(value[p])
       THEN /\ Goto(p, "serving")
            /\ used' = used \cup {[place |-> IF Configured(p) = Absent THEN PlaceOf(p) ELSE Absent,
                                   key   |-> value[p]]}
       ELSE Goto(p, "refused") /\ UNCHANGED used
    /\ UNCHANGED <<value, starts, file>>

\* The process is stopped or dies, wherever it is; an open stream is lost.
Crash(p) ==
    /\ pc[p] \notin {"down", "refused"}
    /\ Goto(p, "down")
    /\ Holds(p, NoKey)
    /\ UNCHANGED <<starts, file, used>>

Step(p) == Read(p) \/ Create(p) \/ Reread(p) \/ Write(p) \/ Check(p)

Next == \E p \in Process : Start(p) \/ Step(p) \/ Crash(p)

\* A process that is starting keeps running; nobody is obliged to start or to
\* stop one.
Fairness == \A p \in Process : WF_vars(Step(p))

Spec == Init /\ [][Next]_vars /\ Fairness

-----------------------------------------------------------------------------
(* Properties *)

TypeOK ==
    /\ pc \in [Process -> PC]
    /\ value \in [Process -> Draw \cup Secret \cup {Weak, Empty, NoKey}]
    /\ starts \in [Process -> Nat]
    /\ file \in [Place -> Draw \cup {Missing, Empty}]
    /\ used \subseteq [place : Place \cup {Absent}, key : Draw \cup Secret]

Serving(p) == pc[p] = "serving"

\* Servers with the same settings but for their homes, over the same explicit
\* database, or with the same home over the default one.
Replicas(p, q) ==
    LET s == Setting[p]
        t == Setting[q]
    IN
    /\ s.secret = t.secret /\ s.auth = t.auth /\ s.url = t.url
    /\ s.url = Absent => s.home = t.home

\* Whatever races and crashes there were, replicas of one database that serve
\* have one key, so that each accepts what the other signed; and nobody ever
\* served with another key of the same place, so that what was signed before a
\* restart is accepted after it.
ReplicasAgree ==
    /\ \A p, q \in Process :
          Serving(p) /\ Serving(q) /\ Replicas(p, q) => value[p] = value[q]
    /\ \A u, w \in used : u.place = w.place /\ u.place # Absent => u.key = w.key

\* A server that found the file created but not yet written, or that lost the
\* race, either uses the key in it or fails its start: no process serves with a
\* key that is not in its file.
ServedKeyIsKept ==
    \A p \in Process :
        Serving(p) /\ Configured(p) = Absent => file[PlaceOf(p)] = value[p]

\* Every start ends, in a race for the file and after the creator of the file
\* died before it wrote: no process waits for another.
EveryStartEnds ==
    \A p \in Process : pc[p] \in Starting ~> pc[p] \notin Starting

\* The promise of the configuration, with the content of a key file for the key
\* of its place.
Kept(l) == IF file[l] \in Draw THEN file[l] ELSE NoKey

Promise == INSTANCE ProposalKey WITH
    Key     <- Draw \cup Secret \cup {Weak},
    Fixed   <- [p \in Process |-> IF Configured(p) = Absent THEN NoKey ELSE Configured(p)],
    At      <- [p \in Process |-> PlaceOf(p)],
    chosen  <- [l \in Place |-> Kept(l)],
    serving <- [p \in Process |-> IF Serving(p) THEN value[p] ELSE NoKey]

\* The start sequence keeps the promise.
KeepsPromise == Promise!KeySpec
==============================================================================
