-------------------------- MODULE ServerStartProofs --------------------------
(***************************************************************************)
(* For any number of servers, settings, homes, databases and restarts: the *)
(* start sequence keeps the promise of ProposalKey, and replicas agree.    *)
(***************************************************************************)
EXTENDS ServerStart, TLAPS

\* The process works on its key file.
OnFile(p) == pc[p] \in {"read", "create", "reread", "write"}

\* What a process that works on a file relies on: it has no configured key, a
\* place to look at, and from "create" on a candidate of its own; the file it
\* writes is the one it created, still empty, and one it reads again exists.
FileInv(p) ==
    /\ OnFile(p) => Configured(p) = Absent /\ PlaceOf(p) \in Place /\ starts[p] \in 1..MaxStart[p]
    /\ pc[p] \in {"create", "reread", "write"} => value[p] \in Draw
    /\ pc[p] = "write" => file[PlaceOf(p)] = Empty
    /\ pc[p] = "reread" => file[PlaceOf(p)] # Missing

\* What a process has when it comes to the check: the key of its settings, or
\* the content of its file, or of the file when it was still empty.
KeyInv(p) ==
    /\ pc[p] \in {"check", "serving"} =>
          IF Configured(p) = Absent
          THEN /\ PlaceOf(p) \in Place
               /\ value[p] # Empty => value[p] \in Draw /\ value[p] = file[PlaceOf(p)]
          ELSE value[p] = Configured(p)
    /\ pc[p] = "serving" => Valid(value[p])

\* One process writes a file.
OneWriter ==
    \A p, q \in Process :
        pc[p] = "write" /\ pc[q] = "write" /\ PlaceOf(p) = PlaceOf(q) => p = q

\* What was ever served with at a place is what is kept there.
UsedIsKept == \A u \in used : u.place # Absent => u.key = file[u.place]

IInv ==
    /\ TypeOK
    /\ \A p \in Process : FileInv(p) /\ KeyInv(p)
    /\ OneWriter
    /\ UsedIsKept

-----------------------------------------------------------------------------
\* A configured key is a secret or too weak; it is never mistaken for "none".
LEMMA ConfiguredType ==
    ASSUME NEW p \in Process
    PROVE  /\ Configured(p) \in Secret \cup {Weak, Absent}
           /\ Configured(p) # NoKey \/ Configured(p) = Absent
           /\ PlaceOf(p) \in Place \cup {Absent}
<1>1. Setting[p] \in Settings
  BY SettingAssumption
<1>2. Configured(p) \in Secret \cup {Weak, Absent}
  BY <1>1, SettingAssumption DEF Configured, Settings
<1>3. PlaceOf(p) \in Place \cup {Absent}
  BY <1>1 DEF PlaceOf, Settings, Place
<1> QED
  BY <1>2, <1>3, ValueAssumption

LEMMA CandidateIsDrawn ==
    ASSUME NEW p \in Process, NEW n \in 1..MaxStart[p]
    PROVE  <<p, n>> \in Draw
BY DEF Draw

LEMMA InitIInv == Init => IInv
BY DEF Init, IInv, TypeOK, PC, FileInv, KeyInv, OnFile, OneWriter, UsedIsKept

-----------------------------------------------------------------------------
(* Every step preserves the invariant. *)

LEMMA StartIInv ==
    ASSUME IInv, NEW p \in Process, Start(p)
    PROVE  IInv'
<1> USE DEF Goto, Holds
<1>1. starts' \in [Process -> Nat] /\ starts'[p] \in 1..MaxStart[p]
  <2>1. /\ starts \in [Process -> Nat] /\ starts[p] < MaxStart[p]
        /\ starts' = [starts EXCEPT ![p] = @ + 1]
    BY DEF IInv, TypeOK, Start
  <2>2. MaxStart[p] \in Nat
    BY SettingAssumption
  <2> QED
    BY <2>1, <2>2
<1>2. \A q \in Process \ {p} : pc'[q] = pc[q] /\ value'[q] = value[q] /\ starts'[q] = starts[q]
  BY DEF IInv, TypeOK, Start
<1>3. pc' \in [Process -> PC] /\ pc'[p] \in {"refused", "check", "read"}
  BY DEF IInv, TypeOK, PC, Start
<1>4. value' \in [Process -> Draw \cup Secret \cup {Weak, Empty, NoKey}]
  BY ConfiguredType DEF IInv, TypeOK, Start
<1>5. TypeOK'
  BY <1>1, <1>3, <1>4 DEF IInv, TypeOK, Start
<1>6. FileInv(p)'
  <2>1. pc'[p] = "read" => Configured(p) = Absent /\ PlaceOf(p) \in Place
    BY ConfiguredType DEF IInv, TypeOK, Start, Unusable
  <2> QED
    BY <1>1, <1>3, <2>1 DEF FileInv, OnFile, Configured, PlaceOf
<1>7. KeyInv(p)'
  <2>1. pc'[p] = "check" => Configured(p) # Absent /\ value'[p] = Configured(p)
    BY DEF IInv, TypeOK, Start
  <2> QED
    BY <1>3, <2>1 DEF KeyInv, Configured, PlaceOf
<1>8. \A q \in Process \ {p} : FileInv(q)' /\ KeyInv(q)'
  BY <1>2 DEF IInv, Start, FileInv, KeyInv, OnFile, Valid
<1>9. OneWriter'
  BY <1>2, <1>3 DEF IInv, OneWriter
<1>10. UsedIsKept'
  BY DEF IInv, UsedIsKept, Start
<1> QED
  BY <1>5, <1>6, <1>7, <1>8, <1>9, <1>10 DEF IInv

LEMMA ReadIInv ==
    ASSUME IInv, NEW p \in Process, Read(p)
    PROVE  IInv'
<1> DEFINE l == PlaceOf(p)
<1> USE DEF Goto, Holds
<1>1. Configured(p) = Absent /\ l \in Place /\ <<p, starts[p]>> \in Draw
  BY CandidateIsDrawn DEF IInv, Read, FileInv, OnFile
<1>2. file[l] \in Draw \cup {Missing, Empty}
  BY <1>1 DEF IInv, TypeOK
<1>3. \/ file[l] = Missing /\ pc'[p] = "create" /\ value'[p] \in Draw
      \/ file[l] # Missing /\ pc'[p] = "check" /\ value'[p] = file[l]
  BY <1>1 DEF IInv, TypeOK, Read
<1>4. \A q \in Process \ {p} : pc'[q] = pc[q] /\ value'[q] = value[q]
  BY DEF IInv, TypeOK, Read
<1>5. UNCHANGED <<starts, file, used>>
  BY DEF Read
<1>6. TypeOK'
  BY <1>1, <1>2, <1>3 DEF IInv, TypeOK, PC, Read
<1>7. FileInv(p)'
  BY <1>1, <1>3, <1>5 DEF IInv, FileInv, OnFile, Read, Configured, PlaceOf
<1>8. KeyInv(p)'
  BY <1>1, <1>2, <1>3, <1>5 DEF KeyInv, Configured, PlaceOf
<1>9. \A q \in Process \ {p} : FileInv(q)' /\ KeyInv(q)'
  BY <1>4, <1>5 DEF IInv, FileInv, KeyInv, OnFile, Valid
<1>10. OneWriter'
  BY <1>3, <1>4 DEF IInv, OneWriter
<1>11. UsedIsKept'
  BY <1>5 DEF IInv, UsedIsKept
<1> QED
  BY <1>6, <1>7, <1>8, <1>9, <1>10, <1>11 DEF IInv

\* The exclusive creation: the file was missing, so nobody else is writing it and
\* nobody has read a key from it.
LEMMA CreateIInv ==
    ASSUME IInv, NEW p \in Process, Create(p)
    PROVE  IInv'
<1> DEFINE l == PlaceOf(p)
<1> USE DEF Goto
<1>1. Configured(p) = Absent /\ l \in Place /\ value[p] \in Draw
  BY DEF IInv, Create, FileInv, OnFile
<1>2. \A q \in Process \ {p} : pc'[q] = pc[q] /\ value'[q] = value[q]
  BY DEF IInv, TypeOK, Create
<1>3. CASE file[l] # Missing
  <2>1. pc'[p] = "reread" /\ UNCHANGED <<value, starts, file, used>>
    BY <1>3 DEF IInv, TypeOK, Create
  <2>2. TypeOK'
    BY <1>3, <2>1 DEF IInv, TypeOK, PC, Create
  <2>3. \A q \in Process : FileInv(q)' /\ KeyInv(q)'
    BY <1>1, <1>2, <1>3, <2>1 DEF IInv, Create, FileInv, KeyInv, OnFile, Valid
  <2>4. OneWriter' /\ UsedIsKept'
    BY <1>2, <2>1 DEF IInv, OneWriter, UsedIsKept
  <2> QED
    BY <2>2, <2>3, <2>4 DEF IInv
<1>4. CASE file[l] = Missing
  <2>1. /\ pc'[p] = "write" /\ UNCHANGED <<value, starts, used>>
        /\ file' = [file EXCEPT ![l] = Empty] /\ file'[l] = Empty
    BY <1>1, <1>4 DEF IInv, TypeOK, Create
  <2>2. TypeOK'
    BY <1>4, <2>1 DEF IInv, TypeOK, PC, Create
  <2>3. Missing \notin Draw /\ Missing # Empty
    BY ValueAssumption
  <2>4. FileInv(p)' /\ KeyInv(p)'
    BY <1>1, <2>1 DEF IInv, Create, FileInv, KeyInv, OnFile, Configured, PlaceOf
  <2>5. ASSUME NEW q \in Process \ {p}
        PROVE  FileInv(q)' /\ KeyInv(q)' /\ (pc[q] = "write" => PlaceOf(q) # l)
    <3>1. FileInv(q) /\ KeyInv(q)
      BY DEF IInv
    <3>2. pc[q] = "write" => PlaceOf(q) # l
      BY <1>4, <2>3, <3>1 DEF FileInv
    <3>3. FileInv(q)'
      BY <1>2, <2>1, <2>3, <3>1, <3>2 DEF IInv, TypeOK, FileInv, OnFile
    <3>4. KeyInv(q)'
      BY <1>2, <1>4, <2>1, <2>3, <3>1 DEF IInv, TypeOK, KeyInv, Valid
    <3> QED
      BY <3>2, <3>3, <3>4
  <2>6. OneWriter'
    BY <1>2, <2>1, <2>5 DEF IInv, OneWriter
  <2>7. UsedIsKept'
    BY <1>4, <2>1, <2>3, ValueAssumption DEF IInv, TypeOK, UsedIsKept
  <2> QED
    BY <2>2, <2>4, <2>5, <2>6, <2>7 DEF IInv
<1> QED
  BY <1>3, <1>4

LEMMA RereadIInv ==
    ASSUME IInv, NEW p \in Process, Reread(p)
    PROVE  IInv'
<1> DEFINE l == PlaceOf(p)
<1> USE DEF Goto, Holds
<1>1. Configured(p) = Absent /\ l \in Place /\ file[l] # Missing
  BY DEF IInv, Reread, FileInv, OnFile
<1>2. pc'[p] = "check" /\ value'[p] = file[l] /\ UNCHANGED <<starts, file, used>>
  BY <1>1 DEF IInv, TypeOK, Reread
<1>3. \A q \in Process \ {p} : pc'[q] = pc[q] /\ value'[q] = value[q]
  BY DEF IInv, TypeOK, Reread
<1>4. file[l] \in Draw \cup {Empty}
  BY <1>1 DEF IInv, TypeOK
<1>5. TypeOK'
  BY <1>4, <1>2 DEF IInv, TypeOK, PC, Reread
<1>6. FileInv(p)' /\ KeyInv(p)'
  BY <1>1, <1>2, <1>4 DEF FileInv, OnFile, KeyInv, Configured, PlaceOf
<1>7. \A q \in Process \ {p} : FileInv(q)' /\ KeyInv(q)'
  BY <1>2, <1>3 DEF IInv, FileInv, KeyInv, OnFile, Valid
<1>8. OneWriter' /\ UsedIsKept'
  BY <1>2, <1>3 DEF IInv, OneWriter, UsedIsKept
<1> QED
  BY <1>5, <1>6, <1>7, <1>8 DEF IInv

\* The candidate reaches a file that is still empty, so it replaces no key.
LEMMA WriteIInv ==
    ASSUME IInv, NEW p \in Process, Write(p)
    PROVE  IInv'
<1> DEFINE l == PlaceOf(p)
<1> USE DEF Goto
<1>1. Configured(p) = Absent /\ l \in Place /\ value[p] \in Draw /\ file[l] = Empty
  BY DEF IInv, Write, FileInv, OnFile
<1>2. /\ pc[p] = "write" /\ pc'[p] = "check" /\ UNCHANGED <<value, starts, used>>
      /\ file' = [file EXCEPT ![l] = value[p]] /\ file'[l] = value[p]
  BY <1>1 DEF IInv, TypeOK, Write
<1>3. \A q \in Process \ {p} : pc'[q] = pc[q]
  BY DEF IInv, TypeOK, Write
<1>4. TypeOK'
  BY <1>1, <1>2 DEF IInv, TypeOK, PC, Write
<1>5. Empty \notin Draw \cup Secret /\ Missing \notin Draw
  BY ValueAssumption
<1>6. FileInv(p)' /\ KeyInv(p)'
  BY <1>1, <1>2 DEF FileInv, OnFile, KeyInv, Configured, PlaceOf
<1>7. ASSUME NEW q \in Process \ {p}
      PROVE  FileInv(q)' /\ KeyInv(q)'
  <2>1. FileInv(q) /\ KeyInv(q)
    BY DEF IInv
  <2>2. pc[q] = "write" => PlaceOf(q) # l
    BY <1>2 DEF IInv, OneWriter
  <2>3. FileInv(q)'
    BY <1>1, <1>2, <1>3, <1>5, <2>1, <2>2 DEF IInv, TypeOK, FileInv, OnFile
  <2>4. KeyInv(q)'
    <3>1. CASE PlaceOf(q) = l
      <4>1. pc[q] \in {"check", "serving"} /\ Configured(q) = Absent => value[q] = Empty
        BY <1>1, <1>5, <2>1, <3>1 DEF KeyInv
      <4> QED
        BY <1>2, <1>3, <2>1, <4>1 DEF KeyInv, Valid
    <3>2. CASE PlaceOf(q) # l
      BY <1>1, <1>2, <1>3, <2>1, <3>2 DEF IInv, TypeOK, KeyInv, Valid, Configured, PlaceOf
    <3> QED
      BY <3>1, <3>2
  <2> QED
    BY <2>3, <2>4
<1>8. OneWriter'
  BY <1>2, <1>3 DEF IInv, OneWriter
<1>9. UsedIsKept'
  BY <1>1, <1>2, <1>5 DEF IInv, TypeOK, UsedIsKept
<1> QED
  BY <1>4, <1>6, <1>7, <1>8, <1>9 DEF IInv

LEMMA CheckIInv ==
    ASSUME IInv, NEW p \in Process, Check(p)
    PROVE  IInv'
<1> DEFINE l == PlaceOf(p)
           place == IF Configured(p) = Absent THEN l ELSE Absent
<1> USE DEF Goto
<1>1. /\ pc'[p] = (IF Valid(value[p]) THEN "serving" ELSE "refused")
      /\ used' = (IF Valid(value[p]) THEN used \cup {[place |-> place, key |-> value[p]]} ELSE used)
      /\ UNCHANGED <<value, starts, file>>
  BY DEF IInv, TypeOK, Check
<1>2. \A q \in Process \ {p} : pc'[q] = pc[q]
  BY DEF IInv, TypeOK, Check
<1>3. KeyInv(p) /\ pc[p] = "check"
  BY DEF IInv, Check
<1>4. place \in Place \cup {Absent}
  BY ConfiguredType
<1>5. TypeOK'
  BY <1>1, <1>4 DEF IInv, TypeOK, PC, Check, Valid
<1>6. FileInv(p)' /\ KeyInv(p)'
  BY <1>1, <1>3 DEF FileInv, OnFile, KeyInv, Valid, Configured, PlaceOf
<1>7. \A q \in Process \ {p} : FileInv(q)' /\ KeyInv(q)'
  BY <1>1, <1>2 DEF IInv, FileInv, KeyInv, OnFile, Valid
<1>8. OneWriter'
  BY <1>1, <1>2 DEF IInv, OneWriter
<1>9. UsedIsKept'
  <2>1. Valid(value[p]) /\ place # Absent => value[p] = file[place]
    BY <1>3, ValueAssumption DEF KeyInv, Valid
  <2> QED
    BY <1>1, <2>1 DEF IInv, UsedIsKept
<1> QED
  BY <1>5, <1>6, <1>7, <1>8, <1>9 DEF IInv

LEMMA CrashIInv ==
    ASSUME IInv, NEW p \in Process, Crash(p)
    PROVE  IInv'
<1> USE DEF Goto, Holds
<1>1. pc'[p] = "down" /\ value'[p] = NoKey /\ UNCHANGED <<starts, file, used>>
  BY DEF IInv, TypeOK, Crash
<1>2. \A q \in Process \ {p} : pc'[q] = pc[q] /\ value'[q] = value[q]
  BY DEF IInv, TypeOK, Crash
<1>3. TypeOK'
  BY DEF IInv, TypeOK, PC, Crash
<1>4. FileInv(p)' /\ KeyInv(p)'
  BY <1>1 DEF FileInv, OnFile, KeyInv
<1>5. \A q \in Process \ {p} : FileInv(q)' /\ KeyInv(q)'
  BY <1>1, <1>2 DEF IInv, FileInv, KeyInv, OnFile, Valid
<1>6. OneWriter' /\ UsedIsKept'
  BY <1>1, <1>2 DEF IInv, OneWriter, UsedIsKept
<1> QED
  BY <1>3, <1>4, <1>5, <1>6 DEF IInv

LEMMA StutterIInv == IInv /\ UNCHANGED vars => IInv'
BY DEF IInv, vars, TypeOK, FileInv, KeyInv, OnFile, OneWriter, UsedIsKept, Valid, Configured, PlaceOf

LEMMA NextIInv == IInv /\ [Next]_vars => IInv'
<1> SUFFICES ASSUME IInv, [Next]_vars PROVE IInv'
  OBVIOUS
<1>1. CASE UNCHANGED vars
  BY <1>1, StutterIInv
<1>2. ASSUME NEW p \in Process, Start(p) \/ Step(p) \/ Crash(p) PROVE IInv'
  BY <1>2, StartIInv, ReadIInv, CreateIInv, RereadIInv, WriteIInv, CheckIInv, CrashIInv DEF Step
<1> QED
  BY <1>1, <1>2 DEF Next

-----------------------------------------------------------------------------
(* The theorems *)

LEMMA InvariantHolds == Spec => []IInv
<1> QED
  BY InitIInv, NextIInv, PTL DEF Spec

\* The state always has its type.
THEOREM ServerStartTypeOK == Spec => []TypeOK
BY InvariantHolds, PTL DEF IInv

\* A server without a configured key serves with the key in its file.
THEOREM KeyIsKept == Spec => []ServedKeyIsKept
<1>1. IInv => ServedKeyIsKept
  BY ValueAssumption DEF IInv, KeyInv, ServedKeyIsKept, Serving, Valid
<1> QED
  BY <1>1, InvariantHolds, PTL

\* Replicas that serve have one key, and a place never had another.
THEOREM Agreement == Spec => []ReplicasAgree
<1>1. IInv => ReplicasAgree
  <2> SUFFICES ASSUME IInv PROVE ReplicasAgree
    OBVIOUS
  <2>1. ASSUME NEW p \in Process, NEW q \in Process, Serving(p), Serving(q), Replicas(p, q)
        PROVE  value[p] = value[q]
    <3>1. Configured(p) = Configured(q) /\ PlaceOf(p) = PlaceOf(q)
      BY <2>1 DEF Replicas, Configured, PlaceOf
    <3>2. KeyInv(p) /\ KeyInv(q)
      BY DEF IInv
    <3> QED
      BY <2>1, <3>1, <3>2, ValueAssumption DEF KeyInv, Serving, Valid
  <2>2. \A u, w \in used : u.place = w.place /\ u.place # Absent => u.key = w.key
    BY DEF IInv, UsedIsKept
  <2> QED
    BY <2>1, <2>2 DEF ReplicasAgree
<1> QED
  BY <1>1, InvariantHolds, PTL

-----------------------------------------------------------------------------
(* The refinement: a key is chosen when the creator of its file writes it, *)
(* and a process begins to serve at its check; the other steps stutter.    *)

LEMMA PromiseInit == Init => Promise!KeyInit
BY ValueAssumption DEF Init, Promise!KeyInit, Kept, Serving

\* A step that leaves the files and the serving processes alone stutters.
LEMMA SilentStep ==
    ASSUME UNCHANGED file,
           \A q \in Process : Serving(q)' = Serving(q) /\ (Serving(q) => value'[q] = value[q])
    PROVE  UNCHANGED Promise!keyVars
<1>1. [l \in Place |-> Kept(l)]' = [l \in Place |-> Kept(l)]
  BY DEF Kept
<1>2. \A q \in Process : (IF Serving(q) THEN value[q] ELSE NoKey)'
                           = (IF Serving(q) THEN value[q] ELSE NoKey)
  OBVIOUS
<1>3. [q \in Process |-> IF Serving(q) THEN value[q] ELSE NoKey]'
      = [q \in Process |-> IF Serving(q) THEN value[q] ELSE NoKey]
  BY <1>2
<1> QED
  BY <1>1, <1>3 DEF Promise!keyVars

LEMMA WriteChooses ==
    ASSUME IInv, NEW p \in Process, Write(p)
    PROVE  Promise!Choose(PlaceOf(p), value[p])
<1> DEFINE l == PlaceOf(p)
           keys == [m \in Place |-> Kept(m)]
<1>1. l \in Place /\ value[p] \in Draw /\ file[l] = Empty /\ pc[p] = "write"
  BY DEF IInv, Write, FileInv, OnFile
<1>2. file' = [file EXCEPT ![l] = value[p]] /\ value' = value
  BY DEF Write
<1>3. keys[l] = NoKey
  BY <1>1, ValueAssumption DEF Kept
<1>4. keys' = [keys EXCEPT ![l] = value[p]]
  <2>1. \A m \in Place : Kept(m)' = IF m = l THEN value[p] ELSE Kept(m)
    BY <1>1, <1>2 DEF IInv, TypeOK, Kept
  <2> QED
    BY <2>1
<1>5. [q \in Process |-> IF Serving(q) THEN value[q] ELSE NoKey]'
      = [q \in Process |-> IF Serving(q) THEN value[q] ELSE NoKey]
  <2>1. \A q \in Process : Serving(q)' = Serving(q)
    BY <1>1 DEF IInv, TypeOK, Write, Goto, Serving
  <2> QED
    BY <1>2, <2>1
<1> QED
  BY <1>3, <1>4, <1>5 DEF Promise!Choose

LEMMA CheckServes ==
    ASSUME IInv, NEW p \in Process, Check(p), Valid(value[p])
    PROVE  Promise!Serve(p, value[p])
<1> DEFINE map == [q \in Process |-> IF Serving(q) THEN value[q] ELSE NoKey]
           fixed == [q \in Process |-> IF Configured(q) = Absent THEN NoKey ELSE Configured(q)]
           at == [q \in Process |-> PlaceOf(q)]
           keys == [m \in Place |-> Kept(m)]
<1>1. pc[p] = "check" /\ pc'[p] = "serving" /\ UNCHANGED <<value, file>>
  BY DEF IInv, TypeOK, Check, Goto
<1>2. KeyInv(p)
  BY DEF IInv
<1>3. map[p] = NoKey
  BY <1>1 DEF Serving
<1>4. IF fixed[p] # NoKey THEN value[p] = fixed[p] ELSE at[p] \in Place /\ keys[at[p]] = value[p]
  <2>1. CASE Configured(p) = Absent
    <3>1. PlaceOf(p) \in Place /\ value[p] \in Draw /\ value[p] = file[PlaceOf(p)]
      BY <1>1, <1>2, <2>1, ValueAssumption DEF KeyInv, Valid
    <3> QED
      BY <2>1, <3>1 DEF Kept
  <2>2. CASE Configured(p) # Absent
    BY <1>1, <1>2, <2>2, ConfiguredType DEF KeyInv
  <2> QED
    BY <2>1, <2>2
<1>5. map' = [map EXCEPT ![p] = value[p]]
  <2>1. \A q \in Process \ {p} : Serving(q)' = Serving(q)
    BY DEF IInv, TypeOK, Check, Goto, Serving
  <2>2. Serving(p)'
    BY <1>1 DEF Serving
  <2>3. \A q \in Process : (IF Serving(q) THEN value[q] ELSE NoKey)'
                             = IF q = p THEN value[p] ELSE map[q]
    BY <1>1, <2>1, <2>2
  <2> QED
    BY <2>3
<1>6. keys' = keys
  BY <1>1 DEF Kept
<1> QED
  BY <1>3, <1>4, <1>5, <1>6 DEF Promise!Serve

LEMMA CrashStops ==
    ASSUME IInv, NEW p \in Process, Crash(p)
    PROVE  Promise!Stop(p)
<1> DEFINE map == [q \in Process |-> IF Serving(q) THEN value[q] ELSE NoKey]
           keys == [m \in Place |-> Kept(m)]
<1>1. \A q \in Process \ {p} : Serving(q)' = Serving(q) /\ value'[q] = value[q]
  BY DEF IInv, TypeOK, Crash, Goto, Holds, Serving
<1>2. ~Serving(p)'
  BY DEF IInv, TypeOK, Crash, Goto, Serving
<1>3. map' = [map EXCEPT ![p] = NoKey]
  <2>1. \A q \in Process : (IF Serving(q) THEN value[q] ELSE NoKey)'
                             = IF q = p THEN NoKey ELSE map[q]
    BY <1>1, <1>2
  <2> QED
    BY <2>1
<1>4. keys' = keys
  BY DEF Crash, Kept
<1> QED
  BY <1>3, <1>4 DEF Promise!Stop

LEMMA NextKeepsPromise ==
    ASSUME IInv, [Next]_vars
    PROVE  [Promise!KeyNext]_(Promise!keyVars)
<1>1. CASE UNCHANGED vars
  BY <1>1, SilentStep DEF vars, Serving
<1>2. ASSUME NEW p \in Process, Start(p) \/ Read(p) \/ Reread(p) \/ Create(p)
      PROVE  UNCHANGED Promise!keyVars
  <2>1. CASE Start(p) \/ Read(p) \/ Reread(p)
    <3>1. /\ file' = file
          /\ pc[p] # "serving" /\ pc'[p] # "serving"
          /\ \A q \in Process \ {p} : pc'[q] = pc[q] /\ value'[q] = value[q]
      BY <2>1 DEF IInv, TypeOK, Start, Read, Reread, Goto, Holds
    <3> QED
      BY <3>1, SilentStep DEF Serving
  <2>2. CASE Create(p)
    <3>1. \A m \in Place : Kept(m)' = Kept(m)
      BY <2>2, ValueAssumption DEF IInv, TypeOK, Create, Kept
    <3>2. \A q \in Process : Serving(q)' = Serving(q)
      BY <2>2 DEF IInv, TypeOK, Create, Goto, Serving
    <3>3. value' = value
      BY <2>2 DEF Create
    <3>4. [m \in Place |-> Kept(m)]' = [m \in Place |-> Kept(m)]
      BY <3>1
    <3>5. [q \in Process |-> IF Serving(q) THEN value[q] ELSE NoKey]'
          = [q \in Process |-> IF Serving(q) THEN value[q] ELSE NoKey]
      BY <3>2, <3>3
    <3> QED
      BY <3>4, <3>5 DEF Promise!keyVars
  <2> QED
    BY <1>2, <2>1, <2>2
<1>3. ASSUME NEW p \in Process, Write(p)
      PROVE  Promise!KeyNext
  <2>1. PlaceOf(p) \in Place /\ value[p] \in Draw
    BY <1>3 DEF IInv, Write, FileInv, OnFile
  <2> QED
    BY <1>3, <2>1, WriteChooses DEF Promise!KeyNext
<1>4. ASSUME NEW p \in Process, Check(p)
      PROVE  [Promise!KeyNext]_(Promise!keyVars)
  <2>1. CASE Valid(value[p])
    <3>1. value[p] \in Draw \cup Secret \cup {Weak}
      BY <2>1 DEF Valid
    <3>2. Promise!Serve(p, value[p])
      BY <1>4, <2>1, CheckServes
    <3>3. \E k \in Draw \cup Secret \cup {Weak} : Promise!Serve(p, k)
      BY <3>1, <3>2 DEF Promise!Serve
    <3>4. Promise!KeyNext
      BY <3>3 DEF Promise!KeyNext
    <3> QED
      BY <3>4
  <2>2. CASE ~Valid(value[p])
    <3>1. \A q \in Process : Serving(q)' = Serving(q)
      BY <1>4, <2>2 DEF IInv, TypeOK, Check, Goto, Serving
    <3>2. UNCHANGED <<value, file>>
      BY <1>4 DEF Check
    <3> QED
      BY <3>1, <3>2, SilentStep
  <2> QED
    BY <2>1, <2>2
<1>5. ASSUME NEW p \in Process, Crash(p)
      PROVE  Promise!KeyNext
  BY <1>5, CrashStops DEF Promise!KeyNext
<1> QED
  BY <1>1, <1>2, <1>3, <1>4, <1>5 DEF Next, Step

\* The start sequence implements ProposalKey.
THEOREM StartKeepsPromise == Spec => KeepsPromise
<1>1. IInv /\ [Next]_vars => [Promise!KeyNext]_(Promise!keyVars)
  BY NextKeepsPromise
<1> QED
  BY PromiseInit, <1>1, InvariantHolds, PTL DEF Spec, KeepsPromise, Promise!KeySpec
==============================================================================
