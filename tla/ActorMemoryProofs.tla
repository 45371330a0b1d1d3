--------------------------- MODULE ActorMemoryProofs ---------------------------
(***************************************************************************)
(* Proofs about ActorMemory, for every universe of candidates and every    *)
(* budget: the budget is strict, no room is wasted, a floor that did not   *)
(* fit stays out, and the result is the one selection the candidates have, *)
(* in whatever order they come.                                            *)
(*                                                                         *)
(* Sums over sets are defined by recursion, and the orders of rank and     *)
(* preference are on finite sets.  Where that needs induction, the proof   *)
(* takes a minimal counterexample (LeastNumber, MinimalSet).               *)
(***************************************************************************)
EXTENDS ActorMemory, FiniteSetTheorems, TLAPS

-----------------------------------------------------------------------------
(* Minimal counterexamples *)

\* A set of natural numbers has a least.
LEMMA LeastNumber ==
    ASSUME NEW T, T \subseteq Nat, T # {}
    PROVE  \E n \in T : \A m \in T : n <= m
<1> DEFINE R == {ss \in Nat \X Nat : ss[1] < ss[2]}
<1>1. IsWellFoundedOn(R, Nat)
    BY NatLessThanWellFounded, Zenon DEF OpToRel
<1>2. \E n \in T : \A m \in T : <<m, n>> \notin R
    BY <1>1, WFMin, Zenon
<1>3. PICK n \in T : \A m \in T : <<m, n>> \notin R
    BY <1>2
<1>4. \A m \in T : ~(m < n)
    BY <1>3
<1>5. QED
    BY <1>3, <1>4

\* A set of parts of a finite set has a minimal one.
LEMMA MinimalSet ==
    ASSUME NEW U, IsFiniteSet(U), NEW F, F \subseteq SUBSET U, F # {}
    PROVE  \E s \in F : \A t \in F : t \subseteq s => t = s
<1>1. IsWellFoundedOn(StrictSubsetOrdering(U), SUBSET U)
    BY FS_StrictSubsetOrderingWellFounded, FS_FiniteSubsetsOfFinite
<1>2. PICK s \in F : \A t \in F : <<t, s>> \notin StrictSubsetOrdering(U)
    BY <1>1, WFMin, Zenon
<1>3. \A t \in F : t \subseteq s => t = s
    BY <1>2 DEF StrictSubsetOrdering
<1>4. QED
    BY <1>3

-----------------------------------------------------------------------------
(* The cost of a set *)

Choice(s) == CHOOSE x \in s : TRUE

\* One step of the recursion, and its solutions on the parts of S.
CostStep(g, s) == IF s = {} THEN 0 ELSE Choice(s).cost + g[s \ {Choice(s)}]
Sums(g, S) == g = [s \in SUBSET S |-> CostStep(g, s)]
SumsOf(S) == CHOOSE g : Sums(g, S)

\* The cost of a set is what the recursion computes.
LEMMA CostDef == ASSUME NEW S PROVE Cost(S) = SumsOf(S)[S]
BY DEF SumsOf, Cost, MapThenSumSet, MapThenFoldSet, Sums, CostStep, Choice

\* The recursion has no two solutions.
LEMMA SumsUnique ==
    ASSUME NEW S, IsFiniteSet(S), NEW g, NEW h, Sums(g, S), Sums(h, S)
    PROVE  g = h
<1> DEFINE Apart == {s \in SUBSET S : g[s] # h[s]}
<1>1. /\ g = [s \in SUBSET S |-> g[s]] /\ h = [s \in SUBSET S |-> h[s]]
      /\ \A s \in SUBSET S : g[s] = CostStep(g, s) /\ h[s] = CostStep(h, s)
    BY DEF Sums
<1>2. ASSUME NEW s \in Apart, \A t \in Apart : t \subseteq s => t = s PROVE FALSE
    <2>1. s # {}
        BY <1>1, <1>2 DEF CostStep
    <2>2. Choice(s) \in s
        BY <2>1 DEF Choice
    <2>3. s \ {Choice(s)} \in SUBSET S /\ s \ {Choice(s)} \notin Apart
        BY <1>2, <2>2
    <2>4. g[s \ {Choice(s)}] = h[s \ {Choice(s)}]
        BY <2>3
    <2>5. CostStep(g, s) = CostStep(h, s)
        BY <2>4, Zenon DEF CostStep
    <2>6. QED
        BY <1>1, <1>2, <2>5
<1>3. Apart = {}
    <2> HIDE DEF Apart
    <2>1. SUFFICES ASSUME Apart # {} PROVE FALSE
        OBVIOUS
    <2>2. Apart \subseteq SUBSET S
        BY DEF Apart
    <2>3. \E s \in Apart : \A t \in Apart : t \subseteq s => t = s
        BY <2>1, <2>2, MinimalSet
    <2>4. QED
        BY <1>2, <2>3
<1>4. \A s \in SUBSET S : g[s] = h[s]
    BY <1>3
<1> DEFINE G == [s \in SUBSET S |-> g[s]]
           H == [s \in SUBSET S |-> h[s]]
<1>5. g = G /\ h = H /\ G = H
    BY <1>1, <1>4, Zenon
<1> HIDE DEF G, H
<1>6. QED
    BY <1>5

\* It has one, with natural numbers for costs that are.
LEMMA SumsExist ==
    ASSUME NEW S, IsFiniteSet(S), \A i \in S : i.cost \in Nat
    PROVE  SumsOf(S) \in [SUBSET S -> Nat] /\ Sums(SumsOf(S), S)
<1> DEFINE Approx(g, n) == \A s \in SUBSET S : Cardinality(s) <= n => g[s] = CostStep(g, s)
           Lacking == {n \in Nat : ~ \E g \in [SUBSET S -> Nat] : Approx(g, n)}
<1>1. \A s \in SUBSET S : Cardinality(s) \in Nat /\ Cardinality(s) <= Cardinality(S)
    BY FS_Subset, FS_CardinalityType
<1>2. \A s \in SUBSET S : s # {} =>
          /\ Choice(s) \in s
          /\ Cardinality(s \ {Choice(s)}) = Cardinality(s) - 1
    BY FS_Subset, FS_RemoveElement DEF Choice
<1>3. \A g \in [SUBSET S -> Nat] : \A s \in SUBSET S : CostStep(g, s) \in Nat
    BY <1>2 DEF CostStep
<1>4. ASSUME NEW n \in Lacking, \A m \in Lacking : n <= m PROVE FALSE
    <2>1. CASE n = 0
        <3>1. \A s \in SUBSET S : Cardinality(s) <= 0 => s = {}
            BY <1>1, FS_EmptySet, FS_Subset
        <3> DEFINE zero == [s \in SUBSET S |-> 0]
        <3>2. ASSUME NEW s \in SUBSET S, Cardinality(s) <= n PROVE zero[s] = CostStep(zero, s)
            BY <2>1, <3>1, <3>2 DEF CostStep
        <3>3. zero \in [SUBSET S -> Nat]
            OBVIOUS
        <3> HIDE DEF zero
        <3>4. QED
            BY <2>1, <3>2, <3>3
    <2>2. CASE n # 0
        <3>1. n - 1 \in Nat /\ n - 1 \notin Lacking
            <4>1. n \in Nat
                BY <1>4
            <4> HIDE DEF Lacking
            <4>2. QED
                BY <1>4, <2>2, <4>1
        <3>2. PICK g \in [SUBSET S -> Nat] : Approx(g, n - 1)
            BY <3>1
        <3> DEFINE h == [s \in SUBSET S |-> CostStep(g, s)]
        <3>3. h \in [SUBSET S -> Nat]
            BY <1>3
        <3>4. ASSUME NEW s \in SUBSET S, Cardinality(s) <= n PROVE h[s] = CostStep(h, s)
            <4>1. CASE s = {}
                BY <4>1 DEF CostStep
            <4>2. CASE s # {}
                <5>1. /\ s \ {Choice(s)} \in SUBSET S
                      /\ Cardinality(s \ {Choice(s)}) <= n - 1
                    BY <1>1, <1>2, <3>4, <4>2
                <5>2. h[s \ {Choice(s)}] = g[s \ {Choice(s)}]
                    BY <3>2, <5>1
                <5>3. QED
                    BY <4>2, <5>2 DEF CostStep
            <4>3. QED
                BY <4>1, <4>2
        <3>5. Approx(h, n)
            BY <3>4
        <3> HIDE DEF h
        <3>6. QED
            BY <3>3, <3>5
    <2>3. QED
        BY <2>1, <2>2
<1>5. Lacking = {}
    BY <1>4, LeastNumber, Zenon
<1>6. Cardinality(S) \in Nat
    BY FS_CardinalityType
<1>7. PICK g \in [SUBSET S -> Nat] : Approx(g, Cardinality(S))
    BY <1>5, <1>6
<1>8. \A s \in SUBSET S : g[s] = CostStep(g, s)
    BY <1>1, <1>7
<1>9. Sums(g, S)
    BY <1>8 DEF Sums
<1>10. Sums(SumsOf(S), S)
    BY <1>9, Zenon DEF SumsOf
<1>11. SumsOf(S) = g
    BY <1>9, <1>10, SumsUnique
<1>12. QED
    BY <1>10, <1>11

\* A set that has a cost.
Costed(S) == IsFiniteSet(S) /\ \A i \in S : i.cost \in Nat

\* Costs of the parts of a set come from one solution, that for the whole.
LEMMA CostOfPart ==
    ASSUME NEW S, Costed(S), NEW T \in SUBSET S
    PROVE  Cost(T) \in Nat /\ Cost(T) = SumsOf(S)[T]
<1>1. IsFiniteSet(S) /\ IsFiniteSet(T) /\ \A i \in S : i.cost \in Nat
    BY FS_Subset DEF Costed
<1>2. /\ SumsOf(S) \in [SUBSET S -> Nat] /\ Sums(SumsOf(S), S)
      /\ SumsOf(T) \in [SUBSET T -> Nat] /\ Sums(SumsOf(T), T)
    BY <1>1, SumsExist
<1> DEFINE part == [s \in SUBSET T |-> SumsOf(S)[s]]
<1>3. \A s \in SUBSET S : SumsOf(S)[s] = CostStep(SumsOf(S), s)
    <2>1. SumsOf(S) = [s \in SUBSET S |-> CostStep(SumsOf(S), s)]
        BY <1>2 DEF Sums
    <2> DEFINE g == SumsOf(S)
    <2>2. g = [s \in SUBSET S |-> CostStep(g, s)]
        BY <2>1
    <2> HIDE DEF g
    <2>3. \A s \in SUBSET S : g[s] = CostStep(g, s)
        BY <2>2
    <2>4. QED
        BY <2>3 DEF g
<1>4. ASSUME NEW s \in SUBSET T PROVE part[s] = CostStep(part, s)
    <2>1. CostStep(part, s) = CostStep(SumsOf(S), s)
        BY DEF CostStep
    <2>2. QED
        BY <1>3, <2>1
<1>5. Sums(part, T)
    BY <1>4 DEF Sums
<1>6. part = SumsOf(T)
    BY <1>1, <1>2, <1>5, SumsUnique
<1>7. Cost(T) = SumsOf(T)[T]
    BY CostDef
<1>8. QED
    BY <1>2, <1>6, <1>7

\* Any item may be taken off first, not only the chosen one.
LEMMA CostRemove ==
    ASSUME NEW S, Costed(S), NEW x \in S
    PROVE  Cost(S) = x.cost + Cost(S \ {x})
<1>1. IsFiniteSet(S) /\ \A i \in S : i.cost \in Nat
    BY DEF Costed
<1>2. \A T \in SUBSET S : Cost(T) \in Nat /\ Cost(T) = SumsOf(S)[T]
    BY CostOfPart
<1>3. \A T \in SUBSET S : T # {} =>
          Choice(T) \in T /\ Cost(T) = Choice(T).cost + Cost(T \ {Choice(T)})
    <2> DEFINE g == SumsOf(S)
    <2>1. g = [s \in SUBSET S |-> CostStep(g, s)]
        BY <1>1, SumsExist DEF Sums
    <2> HIDE DEF g
    <2>2. \A s \in SUBSET S : g[s] = CostStep(g, s)
        BY <2>1
    <2>3. \A T \in SUBSET S : T # {} => Choice(T) \in T
        BY DEF Choice
    <2>4. QED
        BY <1>2, <2>2, <2>3 DEF g, CostStep
<1> DEFINE Odd == {T \in SUBSET S : \E y \in T : Cost(T) # y.cost + Cost(T \ {y})}
<1>4. ASSUME NEW T \in Odd, \A U \in Odd : U \subseteq T => U = T PROVE FALSE
    <2>1. T \in SUBSET S
        OBVIOUS
    <2>2. PICK y \in T : Cost(T) # y.cost + Cost(T \ {y})
        BY <1>4
    <2> DEFINE z == Choice(T)
    <2>3. z \in T /\ Cost(T) = z.cost + Cost(T \ {z}) /\ y # z
        BY <1>3, <2>1, <2>2
    <2>4. T \ {y} \notin Odd /\ T \ {z} \notin Odd
        BY <1>4, <2>2, <2>3
    <2> HIDE DEF z
    <2>5. /\ Cost(T \ {y}) = z.cost + Cost((T \ {y}) \ {z})
          /\ Cost(T \ {z}) = y.cost + Cost((T \ {z}) \ {y})
        BY <2>1, <2>2, <2>3, <2>4
    <2> DEFINE rest == Cost((T \ {z}) \ {y})
    <2>6. (T \ {y}) \ {z} = (T \ {z}) \ {y}
        OBVIOUS
    <2>7. Cost(T \ {y}) = z.cost + rest /\ Cost(T \ {z}) = y.cost + rest
        BY <2>5, <2>6, Zenon
    <2>8. rest \in Nat /\ y.cost \in Nat /\ z.cost \in Nat
        BY <1>1, <1>2, <2>1, <2>2, <2>3
    <2> HIDE DEF rest
    <2>9. QED
        BY <2>2, <2>3, <2>7, <2>8
<1>5. Odd = {}
    <2> HIDE DEF Odd
    <2>1. SUFFICES ASSUME Odd # {} PROVE FALSE
        OBVIOUS
    <2>2. Odd \subseteq SUBSET S
        BY DEF Odd
    <2>3. \E T \in Odd : \A U \in Odd : U \subseteq T => U = T
        BY <1>1, <2>1, <2>2, MinimalSet
    <2>4. QED
        BY <1>4, <2>3
<1>6. QED
    BY <1>5

\* A new item adds its cost.
LEMMA CostAdd ==
    ASSUME NEW S, Costed(S), NEW x, x.cost \in Nat, x \notin S
    PROVE  Costed(S \cup {x}) /\ Cost(S \cup {x}) = Cost(S) + x.cost
<1>1. Costed(S \cup {x})
    BY FS_AddElement DEF Costed
<1>2. Cost(S) \in Nat
    BY CostOfPart
<1>3. (S \cup {x}) \ {x} = S
    OBVIOUS
<1>4. Cost(S \cup {x}) = x.cost + Cost(S)
    BY <1>1, <1>3, CostRemove
<1>5. QED
    BY <1>1, <1>2, <1>4

\* Nothing costs nothing.
LEMMA CostEmpty == Cost({}) = 0
<1>1. Costed({})
    BY FS_EmptySet DEF Costed
<1>2. Cost({}) = SumsOf({})[{}] /\ Sums(SumsOf({}), {})
    BY <1>1, CostOfPart, SumsExist DEF Costed
<1>3. QED
    <2> DEFINE g == SumsOf({})
    <2>1. g = [s \in SUBSET {} |-> CostStep(g, s)]
        BY <1>2 DEF Sums
    <2> HIDE DEF g
    <2>2. g[{}] = 0
        BY <2>1 DEF CostStep
    <2>3. QED
        BY <1>2, <2>2 DEF g

\* A part costs no more than the whole.
LEMMA CostMonotone ==
    ASSUME NEW S, Costed(S), NEW T \in SUBSET S
    PROVE  Cost(T) \in Nat /\ Cost(S) \in Nat /\ Cost(T) <= Cost(S)
<1>1. \A U \in SUBSET S : Cost(U) \in Nat /\ Costed(U)
    BY CostOfPart, FS_Subset DEF Costed
<1> DEFINE Odd == {U \in SUBSET S : T \subseteq U /\ ~(Cost(T) <= Cost(U))}
<1>2. ASSUME NEW U \in Odd, \A V \in Odd : V \subseteq U => V = U PROVE FALSE
    <2>1. U \in SUBSET S /\ T \subseteq U /\ ~(Cost(T) <= Cost(U))
        OBVIOUS
    <2>2. T # U
        BY <1>1, <2>1
    <2>3. PICK x \in U : x \notin T
        BY <2>1, <2>2
    <2>4. U \ {x} \notin Odd
        BY <1>2, <2>3
    <2>5. Cost(T) <= Cost(U \ {x})
        BY <2>1, <2>3, <2>4
    <2>6. Cost(U) = x.cost + Cost(U \ {x}) /\ x.cost \in Nat
        BY <1>1, <2>1, <2>3, CostRemove DEF Costed
    <2>7. QED
        BY <1>1, <2>1, <2>5, <2>6
<1>3. Odd = {}
    <2> HIDE DEF Odd
    <2>1. SUFFICES ASSUME Odd # {} PROVE FALSE
        OBVIOUS
    <2>2. Odd \subseteq SUBSET S
        BY DEF Odd
    <2>3. \E U \in Odd : \A V \in Odd : V \subseteq U => V = U
        BY <2>1, <2>2, MinimalSet DEF Costed
    <2>4. QED
        BY <1>2, <2>3
<1>4. QED
    BY <1>1, <1>3

-----------------------------------------------------------------------------
(* The orders *)

\* What the fields of a candidate are.
LEMMA ItemTypes ==
    ASSUME NEW i \in Universe
    PROVE  /\ i.cost \in Nat /\ i.ref \in Nat
           /\ Rank(i) \in [1..6 -> Int]
           /\ DOMAIN Rank(i) = 1..6
<1>1. i \in Item
    BY UniverseAssumption
<1>2. /\ i.cost \in Nat /\ i.ref \in Nat /\ i.exact \in Nat /\ i.lexical \in Nat
      /\ i.salience \in Int /\ i.confidence \in Int /\ i.recency \in Nat
    BY <1>1 DEF Item
<1>3. QED
    BY <1>2 DEF Rank

\* Tuples of numbers are strictly ordered, and any two of one length.
LEMMA LessIsOrder ==
    ASSUME NEW n \in Nat, NEW s \in [1..n -> Int], NEW t \in [1..n -> Int], NEW u \in [1..n -> Int]
    PROVE  /\ ~(Less(s, t) /\ Less(t, s))
           /\ s = t \/ Less(s, t) \/ Less(t, s)
           /\ Less(s, t) /\ Less(t, u) => Less(s, u)
<1>1. DOMAIN s = 1..n /\ DOMAIN t = 1..n /\ DOMAIN u = 1..n
    OBVIOUS
<1>2. \A k \in 1..n : k \in Int /\ s[k] \in Int /\ t[k] \in Int /\ u[k] \in Int
    OBVIOUS
<1>3. ~(Less(s, t) /\ Less(t, s))
    <2>1. SUFFICES ASSUME Less(s, t), Less(t, s) PROVE FALSE
        OBVIOUS
    <2>2. PICK k \in 1..n : s[k] < t[k] /\ \A j \in 1..n : j < k => s[j] = t[j]
        BY <1>1, <2>1 DEF Less
    <2>3. PICK l \in 1..n : t[l] < s[l] /\ \A j \in 1..n : j < l => t[j] = s[j]
        BY <1>1, <2>1 DEF Less
    <2>4. k < l \/ l < k \/ k = l
        BY <1>2
    <2>5. QED
        BY <1>2, <2>2, <2>3, <2>4
<1>4. ASSUME s # t PROVE Less(s, t) \/ Less(t, s)
    <2> DEFINE Apart == {k \in 1..n : s[k] # t[k]}
    <2>1. Apart # {}
        <3>1. SUFFICES ASSUME \A k \in 1..n : s[k] = t[k] PROVE s = t
            BY <1>4
        <3>2. QED
            BY <3>1
    <2>2. Apart \subseteq Nat
        OBVIOUS
    <2> HIDE DEF Apart
    <2>3. PICK k \in Apart : \A j \in Apart : k <= j
        BY <2>1, <2>2, LeastNumber
    <2> USE DEF Apart
    <2>4. k \in 1..n /\ s[k] # t[k]
        BY <2>3
    <2>5. \A j \in 1..n : j < k => s[j] = t[j]
        <3>1. SUFFICES ASSUME NEW j \in 1..n, j < k, s[j] # t[j] PROVE FALSE
            OBVIOUS
        <3>2. j \in Apart
            BY <3>1
        <3> HIDE DEF Apart
        <3>3. k <= j
            BY <2>3, <3>2
        <3>4. QED
            BY <1>2, <2>4, <3>1, <3>3
    <2>6. s[k] < t[k] \/ t[k] < s[k]
        BY <1>2, <2>4
    <2>7. QED
        BY <1>1, <2>4, <2>5, <2>6 DEF Less
<1>5. ASSUME Less(s, t), Less(t, u) PROVE Less(s, u)
    <2>1. PICK k \in 1..n : s[k] < t[k] /\ \A j \in 1..n : j < k => s[j] = t[j]
        BY <1>1, <1>5 DEF Less
    <2>2. PICK l \in 1..n : t[l] < u[l] /\ \A j \in 1..n : j < l => t[j] = u[j]
        BY <1>1, <1>5 DEF Less
    <2>3. CASE k < l
        <3>1. s[k] < u[k]
            BY <2>1, <2>2, <2>3
        <3>2. \A j \in 1..n : j < k => s[j] = u[j]
            BY <1>2, <2>1, <2>2, <2>3
        <3>3. QED
            BY <1>1, <3>1, <3>2 DEF Less
    <2>4. CASE l < k
        <3>1. s[l] < u[l]
            BY <2>1, <2>2, <2>4
        <3>2. \A j \in 1..n : j < l => s[j] = u[j]
            BY <1>2, <2>1, <2>2, <2>4
        <3>3. QED
            BY <1>1, <3>1, <3>2 DEF Less
    <2>5. CASE k = l
        <3>1. s[k] < u[k]
            BY <1>2, <2>1, <2>2, <2>5
        <3>2. \A j \in 1..n : j < k => s[j] = u[j]
            BY <2>1, <2>2, <2>5
        <3>3. QED
            BY <1>1, <3>1, <3>2 DEF Less
    <2>6. QED
        BY <1>2, <2>3, <2>4, <2>5
<1>6. QED
    BY <1>3, <1>4, <1>5

\* i comes before j; j is preferred to i.
Ahead(i, j) == Less(Rank(i), Rank(j))
Worse(i, j) == Less(Preference(i), Preference(j))

\* No two candidates have the same rank, since references are unique.
LEMMA RankIsOrder ==
    ASSUME NEW i \in Universe, NEW j \in Universe, NEW k \in Universe
    PROVE  /\ ~(Ahead(i, j) /\ Ahead(j, i))
           /\ i = j \/ Ahead(i, j) \/ Ahead(j, i)
           /\ Ahead(i, j) /\ Ahead(j, k) => Ahead(i, k)
<1>1. \A l \in Universe : Rank(l) \in [1..6 -> Int]
    BY ItemTypes
<1>2. i # j => Rank(i) # Rank(j)
    <2>1. SUFFICES ASSUME i # j, Rank(i) = Rank(j) PROVE FALSE
        OBVIOUS
    <2>2. Rank(i)[6] = i.ref /\ Rank(j)[6] = j.ref
        BY DEF Rank
    <2>3. QED
        BY <2>1, <2>2, UniverseAssumption
<1>3. QED
    BY <1>1, <1>2, LessIsOrder DEF Ahead

\* Nor is there ever a tie in preference.
LEMMA PreferenceIsOrder ==
    ASSUME NEW i \in Universe, NEW j \in Universe, NEW k \in Universe
    PROVE  /\ ~(Worse(i, j) /\ Worse(j, i))
           /\ i = j \/ Worse(i, j) \/ Worse(j, i)
           /\ Worse(i, j) /\ Worse(j, k) => Worse(i, k)
<1>1. \A l \in Universe : Preference(l) \in [1..4 -> Int]
    <2>1. SUFFICES ASSUME NEW l \in Universe PROVE Preference(l) \in [1..4 -> Int]
        OBVIOUS
    <2>2. /\ l.ref \in Int /\ l.salience \in Int /\ l.confidence \in Int /\ l.recency \in Int
        BY UniverseAssumption DEF Item
    <2>3. QED
        BY <2>2 DEF Preference
<1>2. i # j => Preference(i) # Preference(j)
    <2>1. SUFFICES ASSUME i # j, Preference(i) = Preference(j) PROVE FALSE
        OBVIOUS
    <2>2. Preference(i)[4] = i.ref /\ Preference(j)[4] = j.ref
        BY DEF Preference
    <2>3. QED
        BY <2>1, <2>2, UniverseAssumption
<1>3. QED
    BY <1>1, <1>2, LessIsOrder DEF Worse

\* Of finitely many candidates one comes first.
LEMMA FirstExists ==
    ASSUME NEW S, S \subseteq Universe, IsFiniteSet(S), S # {}
    PROVE  \E i \in S : IsFirst(i, S)
<1> DEFINE Headless == {T \in SUBSET S : T # {} /\ \A i \in T : ~IsFirst(i, T)}
<1>1. ASSUME NEW T \in Headless, \A U \in Headless : U \subseteq T => U = T PROVE FALSE
    <2>1. T \subseteq Universe /\ T # {} /\ (\A i \in T : ~IsFirst(i, T)) /\ T \in SUBSET S
        OBVIOUS
    <2>2. PICK x \in T : TRUE
        BY <2>1
    <2>3. CASE T \ {x} = {}
        <3>1. IsFirst(x, T)
            BY <2>3 DEF IsFirst
        <3>2. QED
            BY <2>1, <3>1
    <2>4. CASE T \ {x} # {}
        <3>1. T \ {x} \notin Headless
            BY <1>1, <2>2
        <3>2. PICK y \in T \ {x} : IsFirst(y, T \ {x})
            BY <2>1, <2>4, <3>1
        <3>3. \A j \in T \ {x} : j = y \/ Ahead(y, j)
            BY <3>2 DEF IsFirst, Ahead
        <3>4. Ahead(x, y) \/ Ahead(y, x)
            BY <2>1, <3>2, RankIsOrder
        <3>5. CASE Ahead(x, y)
            <4>1. \A j \in T : j = x \/ Ahead(x, j)
                BY <2>1, <3>3, <3>5, RankIsOrder
            <4>2. IsFirst(x, T)
                BY <4>1 DEF IsFirst, Ahead
            <4>3. QED
                BY <2>1, <4>2
        <3>6. CASE Ahead(y, x)
            <4>1. IsFirst(y, T)
                BY <3>3, <3>6 DEF IsFirst, Ahead
            <4>2. QED
                BY <2>1, <4>1
        <3>7. QED
            BY <3>4, <3>5, <3>6
    <2>5. QED
        BY <2>3, <2>4
<1>2. Headless = {}
    <2> HIDE DEF Headless
    <2>1. SUFFICES ASSUME Headless # {} PROVE FALSE
        OBVIOUS
    <2>2. Headless \subseteq SUBSET S
        BY DEF Headless
    <2>3. \E T \in Headless : \A U \in Headless : U \subseteq T => U = T
        BY <2>1, <2>2, MinimalSet
    <2>4. QED
        BY <1>1, <2>3
<1>3. QED
    BY <1>2

\* A set has one first item.
LEMMA FirstIsUnique ==
    ASSUME NEW S, S \subseteq Universe, NEW i, NEW j, IsFirst(i, S), IsFirst(j, S)
    PROVE  i = j
<1>1. i \in Universe /\ j \in Universe
    BY DEF IsFirst
<1>2. i = j \/ (Ahead(i, j) /\ Ahead(j, i))
    BY DEF IsFirst, Ahead
<1>3. QED
    BY <1>1, <1>2, RankIsOrder

-----------------------------------------------------------------------------
(* Selections of a set M of items with budget b *)

\* The parts of IsSelection, for any M and b.
Best(M, k) == {i \in M : IsFirst(i, {j \in M : j.track = Track[k]})}
Reserved(M, S, k) == S \cap UNION {Best(M, j) : j \in 1..k - 1}
Room(M, b, S, k, i) == Cost(Reserved(M, S, k)) + i.cost <= b
Granted(M, b, S) == UNION {{i \in Best(M, k) : Room(M, b, S, k, i)} : k \in 1..4}
Earlier(M, b, S, i) == Granted(M, b, S) \cup {j \in S : Ahead(j, i)}

Selection(M, b, S) ==
    /\ S \subseteq M /\ Granted(M, b, S) \subseteq S
    /\ \A i \in M \ Granted(M, b, S) : i \in S <=> Cost(Earlier(M, b, S, i)) + i.cost <= b

\* IsSelection speaks of selections of the distinct candidates.
LEMMA SelectionMeans ==
    ASSUME NEW S
    PROVE  IsSelection(S) <=> Selection(Distinct(candidates), budget, S)
BY Zenon DEF IsSelection, Selection, Earlier, Granted, Room, Reserved, Best, Ahead

\* A finite set of items.
Items(M) == M \subseteq Universe /\ IsFiniteSet(M)

\* Parts of finite sets of items are finite sets of items and have a cost.
LEMMA ItemsCosted ==
    ASSUME NEW M, Items(M), NEW S, S \subseteq M
    PROVE  Items(S) /\ Costed(S)
<1>1. IsFiniteSet(S)
    BY FS_Subset DEF Items
<1>2. \A i \in S : i.cost \in Nat
    BY ItemTypes DEF Items
<1>3. QED
    BY <1>1, <1>2 DEF Items, Costed

\* A track has one best item and an item one track.
LEMMA OneBest ==
    ASSUME NEW M, M \subseteq Universe, NEW k \in 1..4, NEW l \in 1..4,
           NEW i \in Best(M, k), NEW j \in Best(M, l)
    PROVE  k = l <=> i = j
<1>1. i.track = Track[k] /\ j.track = Track[l]
    BY DEF Best, IsFirst
<1>2. i = j => k = l
    BY <1>1 DEF Track
<1>3. k = l => i = j
    <2> DEFINE T == {m \in M : m.track = Track[k]}
    <2>1. ASSUME k = l PROVE IsFirst(i, T) /\ IsFirst(j, T)
        BY <2>1 DEF Best
    <2>2. T \subseteq Universe
        OBVIOUS
    <2> HIDE DEF T
    <2>3. QED
        BY <2>1, <2>2, FirstIsUnique
<1>4. QED
    BY <1>2, <1>3

\* Room is granted to an item on its own track only.
LEMMA GrantedMeans ==
    ASSUME NEW M, M \subseteq Universe, NEW b, NEW S, NEW k \in 1..4, NEW i \in Best(M, k)
    PROVE  i \in Granted(M, b, S) <=> Room(M, b, S, k, i)
<1>1. ASSUME i \in Granted(M, b, S) PROVE Room(M, b, S, k, i)
    <2>1. PICK l \in 1..4 : i \in Best(M, l) /\ Room(M, b, S, l, i)
        BY <1>1 DEF Granted
    <2>2. l = k
        BY <2>1, OneBest
    <2>3. QED
        BY <2>1, <2>2
<1>2. ASSUME Room(M, b, S, k, i) PROVE i \in Granted(M, b, S)
    BY <1>2 DEF Granted
<1>3. QED
    BY <1>1, <1>2

\* A selection takes of the best items those that are granted room, no others.
LEMMA BestSelected ==
    ASSUME NEW M, Items(M), NEW b \in Int, NEW S, Selection(M, b, S),
           NEW k \in 1..4, NEW i \in Best(M, k)
    PROVE  i \in S <=> Room(M, b, S, k, i)
<1> DEFINE Bad == {l \in 1..4 : \E j \in Best(M, l) : ~(j \in S <=> Room(M, b, S, l, j))}
<1>1. M \subseteq Universe /\ S \subseteq M /\ Granted(M, b, S) \subseteq S
    BY DEF Selection, Items
<1>2. ASSUME NEW l \in Bad, \A m \in Bad : l <= m PROVE FALSE
    <2>1. l \in 1..4
        OBVIOUS
    <2>2. PICK j \in Best(M, l) : ~(j \in S <=> Room(M, b, S, l, j))
        BY <1>2
    <2>3. j \in S /\ ~Room(M, b, S, l, j)
        BY <1>1, <2>1, <2>2, GrantedMeans
    <2>4. j \in M \ Granted(M, b, S)
        BY <1>1, <2>1, <2>3, GrantedMeans
    <2>5. Cost(Earlier(M, b, S, j)) + j.cost <= b
        BY <2>3, <2>4 DEF Selection
    <2>6. Reserved(M, S, l) \subseteq Granted(M, b, S)
        <3>1. SUFFICES ASSUME NEW m \in 1..l - 1, NEW x \in Best(M, m), x \in S
                       PROVE  x \in Granted(M, b, S)
            BY DEF Reserved
        <3>2. m \in 1..4 /\ ~(l <= m)
            BY <2>1
        <3>3. m \notin Bad
            BY <1>2, <3>2
        <3>4. Room(M, b, S, m, x)
            BY <3>1, <3>2, <3>3
        <3>5. QED
            BY <1>1, <3>2, <3>4, GrantedMeans
    <2>7. /\ Reserved(M, S, l) \in SUBSET Earlier(M, b, S, j)
          /\ Earlier(M, b, S, j) \subseteq S
        BY <1>1, <2>6 DEF Earlier
    <2>8. Costed(Earlier(M, b, S, j))
        BY <1>1, <2>7, ItemsCosted
    <2>9. /\ Cost(Reserved(M, S, l)) \in Nat /\ Cost(Earlier(M, b, S, j)) \in Nat
          /\ Cost(Reserved(M, S, l)) <= Cost(Earlier(M, b, S, j))
        BY <2>7, <2>8, CostMonotone
    <2>10. j.cost \in Nat
        BY <1>1, <2>4, ItemTypes
    <2>11. QED
        BY <2>3, <2>5, <2>9, <2>10 DEF Room
<1>3. Bad = {}
    <2> HIDE DEF Bad
    <2>1. SUFFICES ASSUME Bad # {} PROVE FALSE
        OBVIOUS
    <2>2. Bad \subseteq Nat
        BY DEF Bad
    <2>3. \E l \in Bad : \A m \in Bad : l <= m
        BY <2>1, <2>2, LeastNumber
    <2>4. QED
        BY <1>2, <2>3
<1>4. QED
    BY <1>3

\* Two selections reserve the same room.
LEMMA SameGranted ==
    ASSUME NEW M, Items(M), NEW b \in Int,
           NEW S, Selection(M, b, S), NEW T, Selection(M, b, T)
    PROVE  Granted(M, b, S) = Granted(M, b, T)
<1> DEFINE Bad == {l \in 1..4 : \E j \in Best(M, l) : ~(j \in S <=> j \in T)}
<1>1. ASSUME NEW k \in 1..4, \A l \in 1..k - 1 : l \notin Bad
      PROVE  Reserved(M, S, k) = Reserved(M, T, k)
    <2>1. \A l \in 1..k - 1 : l \in 1..4
        OBVIOUS
    <2>2. \A l \in 1..k - 1 : \A j \in Best(M, l) : j \in S <=> j \in T
        BY <1>1, <2>1
    <2>3. QED
        BY <2>2 DEF Reserved
<1>2. ASSUME NEW l \in Bad, \A m \in Bad : l <= m PROVE FALSE
    <2>1. l \in 1..4 /\ \A m \in 1..l - 1 : ~(l <= m)
        OBVIOUS
    <2>2. PICK j \in Best(M, l) : ~(j \in S <=> j \in T)
        BY <1>2
    <2>3. \A m \in 1..l - 1 : m \notin Bad
        BY <1>2, <2>1
    <2>4. Reserved(M, S, l) = Reserved(M, T, l)
        BY <1>1, <2>1, <2>3
    <2>5. Room(M, b, S, l, j) <=> Room(M, b, T, l, j)
        BY <2>4 DEF Room
    <2>6. QED
        BY <2>1, <2>2, <2>5, BestSelected
<1>3. Bad = {}
    <2> HIDE DEF Bad
    <2>1. SUFFICES ASSUME Bad # {} PROVE FALSE
        OBVIOUS
    <2>2. Bad \subseteq Nat
        BY DEF Bad
    <2>3. \E l \in Bad : \A m \in Bad : l <= m
        BY <2>1, <2>2, LeastNumber
    <2>4. QED
        BY <1>2, <2>3
<1>4. \A k \in 1..4 : Reserved(M, S, k) = Reserved(M, T, k)
    <2> HIDE DEF Bad
    <2>1. QED
        BY <1>1, <1>3
<1>5. QED
    BY <1>4 DEF Granted, Room

\* There is one selection.
LEMMA SelectionUnique ==
    ASSUME NEW M, Items(M), NEW b \in Int,
           NEW S, Selection(M, b, S), NEW T, Selection(M, b, T)
    PROVE  S = T
<1> DEFINE Apart == (S \ T) \cup (T \ S)
<1>1. SUFFICES ASSUME Apart # {} PROVE FALSE
    OBVIOUS
<1>2. S \subseteq M /\ T \subseteq M /\ Granted(M, b, S) \subseteq S /\ Granted(M, b, T) \subseteq T
    BY DEF Selection
<1>3. Granted(M, b, S) = Granted(M, b, T)
    BY SameGranted
<1>4. Apart \subseteq M
    BY <1>2
<1>5. PICK i \in Apart : IsFirst(i, Apart)
    <2> HIDE DEF Apart
    <2>1. QED
        BY <1>1, <1>4, FirstExists, ItemsCosted DEF Items
<1>6. i \in M /\ i \notin Granted(M, b, S)
    BY <1>2, <1>3
<1>7. \A j \in Apart : ~Ahead(j, i)
    <2> HIDE DEF Apart
    <2>1. \A j \in Apart : j = i \/ Ahead(i, j)
        BY <1>5 DEF IsFirst, Ahead
    <2>2. QED
        BY <1>4, <2>1, RankIsOrder DEF Items
<1>8. Earlier(M, b, S, i) = Earlier(M, b, T, i)
    BY <1>3, <1>7 DEF Earlier
<1>9. i \in S <=> i \in T
    BY <1>3, <1>6, <1>8 DEF Selection
<1>10. QED
    BY <1>9

-----------------------------------------------------------------------------
(* The budget *)

\* What each stage leaves for the next.
Stages ==
    /\ stage = "merge" => floors = 0 /\ selected = {} /\ used = 0
    /\ stage = "floors" => pending = {}
    /\ stage \in {"fill", "done"} => floors = 4 /\ pending \subseteq kept
    /\ stage = "done" => pending = {}

\* i has its room or cannot have it any more.
Settled(i) == i \in selected \/ used + i.cost > budget

\* The tracks that had their floor, and the items that fill has passed, are settled.
Progress ==
    /\ used <= budget
    /\ \A k \in 1..floors : \A i \in kept : IsFirst(i, OnTrack(k)) => Settled(i)
    /\ stage \in {"fill", "done"} => \A i \in kept \ pending : Settled(i)

IInv == TypeOK /\ Stages /\ Progress

\* Selecting what fits keeps the budget and settles nothing back.
LEMMA SelectKeeps ==
    ASSUME IInv, NEW i \in kept, stage' # "merge", budget' = budget, kept' = kept,
           IF Fits(i) THEN Select(i) ELSE Skip
    PROVE  /\ used' \in Nat /\ used' <= budget /\ used <= used'
           /\ selected \subseteq selected' /\ selected' \subseteq kept
           /\ i \in selected' \/ used' + i.cost > budget
           /\ \A j \in kept : Settled(j) => Settled(j)'
<1>1. /\ used \in Nat /\ used <= budget /\ budget \in Nat
      /\ selected \subseteq kept /\ kept \subseteq Universe
    BY BudgetAssumption DEF IInv, TypeOK, Progress
<1>2. \A j \in kept : j.cost \in Nat
    BY <1>1, ItemTypes
<1>3. CASE Fits(i)
    <2>1. selected' = selected \cup {i} /\ used' = used + i.cost
        BY <1>3 DEF Select
    <2>2. used + i.cost <= budget
        BY <1>3 DEF Fits
    <2>3. /\ used' \in Nat /\ used' <= budget /\ used <= used'
          /\ selected \subseteq selected' /\ selected' \subseteq kept /\ i \in selected'
        BY <1>1, <1>2, <2>1, <2>2
    <2>4. \A j \in kept : Settled(j) => Settled(j)'
        BY <1>1, <1>2, <2>3 DEF Settled
    <2>5. QED
        BY <2>3, <2>4
<1>4. CASE ~Fits(i)
    <2>1. selected' = selected /\ used' = used
        BY <1>4 DEF Skip
    <2>2. used + i.cost > budget
        BY <1>1, <1>2, <1>4 DEF Fits
    <2>3. \A j \in kept : Settled(j) => Settled(j)'
        BY <2>1 DEF Settled
    <2>4. QED
        BY <1>1, <2>1, <2>2, <2>3
<1>5. QED
    BY <1>3, <1>4

-----------------------------------------------------------------------------

\* The invariant of the budget holds at first.
LEMMA InitHolds == Init => IInv
<1>1. SUFFICES ASSUME Init PROVE IInv
    OBVIOUS
<1>2. /\ stage = "merge" /\ budget \in 0..MaxBudget /\ pending = candidates
      /\ kept = {} /\ floors = 0 /\ selected = {} /\ used = 0
    BY <1>1 DEF Init
<1>3. candidates \subseteq Universe
    BY <1>1 DEF Init
<1>4. TypeOK
    BY <1>2, <1>3 DEF TypeOK
<1>5. Stages /\ Progress
    BY <1>2, BudgetAssumption DEF Stages, Progress
<1>6. QED
    BY <1>4, <1>5 DEF IInv

\* Merging selects nothing.
LEMMA MergeKeeps == ASSUME IInv, NEW i \in pending, Merge(i) PROVE IInv'
<1>1. /\ stage = "merge" /\ stage' = stage /\ candidates' = candidates
      /\ budget' = budget /\ floors' = floors /\ selected' = selected /\ used' = used
      /\ pending' = pending \ {i} /\ pending \subseteq candidates
      /\ floors = 0 /\ selected = {} /\ used = 0
    BY DEF Merge, IInv, TypeOK, Stages
<1>2. kept' \subseteq kept \cup {i}
    BY DEF Merge
<1>3. TypeOK'
    BY <1>1, <1>2 DEF IInv, TypeOK
<1>4. Stages'
    BY <1>1 DEF Stages
<1>5. Progress'
    BY <1>1 DEF IInv, Progress
<1>6. QED
    BY <1>3, <1>4, <1>5 DEF IInv

\* A floor settles the best item of its track.
LEMMA FloorKeeps == ASSUME IInv, Floor PROVE IInv'
<1>1. /\ stage = "floors" /\ floors < 4 /\ floors' = floors + 1 /\ floors \in 0..4
      /\ stage' = stage /\ candidates' = candidates /\ budget' = budget
      /\ pending' = pending /\ kept' = kept /\ pending = {}
      /\ kept \subseteq Universe
    BY DEF Floor, IInv, TypeOK, Stages
<1>2. /\ used' \in Nat /\ used' <= budget /\ selected' \subseteq kept
      /\ \A j \in kept : Settled(j) => Settled(j)'
      /\ \A j \in kept : IsFirst(j, OnTrack(floors + 1)) => Settled(j)'
    <2>1. CASE OnTrack(floors + 1) = {} /\ Skip
        <3>1. \A j \in kept : Settled(j) => Settled(j)'
            BY <1>1, <2>1 DEF Skip, Settled
        <3>2. QED
            BY <1>1, <2>1, <3>1 DEF Skip, IsFirst, IInv, TypeOK, Progress
    <2>2. CASE \E i \in kept : /\ IsFirst(i, OnTrack(floors + 1))
                               /\ IF Fits(i) THEN Select(i) ELSE Skip
        <3>1. PICK i \in kept : /\ IsFirst(i, OnTrack(floors + 1))
                                /\ IF Fits(i) THEN Select(i) ELSE Skip
            BY <2>2
        <3>2. /\ used' \in Nat /\ used' <= budget /\ selected' \subseteq kept
              /\ i \in selected' \/ used' + i.cost > budget
              /\ \A j \in kept : Settled(j) => Settled(j)'
            BY <1>1, <3>1, SelectKeeps
        <3>3. Settled(i)'
            BY <1>1, <3>2 DEF Settled
        <3>4. OnTrack(floors + 1) \subseteq Universe
            BY <1>1 DEF OnTrack
        <3>5. \A j \in kept : IsFirst(j, OnTrack(floors + 1)) => j = i
            BY <3>1, <3>4, FirstIsUnique
        <3>6. QED
            BY <3>2, <3>3, <3>5
    <2>3. QED
        BY <2>1, <2>2 DEF Floor
<1>3. TypeOK'
    BY <1>1, <1>2 DEF IInv, TypeOK
<1>4. Stages'
    BY <1>1 DEF Stages
<1>5. Progress'
    <2>1. \A k : OnTrack(k)' = OnTrack(k)
        BY <1>1 DEF OnTrack
    <2>2. ASSUME NEW k \in 1..floors', NEW i \in kept', IsFirst(i, OnTrack(k))'
          PROVE  Settled(i)'
        <3>1. i \in kept /\ IsFirst(i, OnTrack(k))
            BY <1>1, <2>1, <2>2 DEF IsFirst
        <3>2. CASE k = floors + 1
            BY <1>2, <3>1, <3>2
        <3>3. CASE k \in 1..floors
            BY <1>2, <3>1, <3>3 DEF IInv, Progress
        <3>4. QED
            BY <1>1, <3>2, <3>3
    <2>3. QED
        BY <1>1, <1>2, <2>2 DEF Progress
<1>6. QED
    BY <1>3, <1>4, <1>5 DEF IInv

\* What fill passes is settled.
LEMMA FillKeeps == ASSUME IInv, Fill PROVE IInv'
<1>1. /\ stage = "fill" /\ stage' = stage /\ candidates' = candidates
      /\ budget' = budget /\ kept' = kept /\ floors' = floors
      /\ kept \subseteq Universe
    BY DEF Fill, IInv, TypeOK
<1>2. PICK i \in pending : /\ IF Fits(i) THEN Select(i) ELSE Skip
                           /\ pending' = pending \ {i}
    BY DEF Fill
<1>3. CASE i \in kept
    <2>1. /\ used' \in Nat /\ used' <= budget /\ selected' \subseteq kept
          /\ i \in selected' \/ used' + i.cost > budget
          /\ \A j \in kept : Settled(j) => Settled(j)'
        BY <1>1, <1>2, <1>3, SelectKeeps
    <2>2. Settled(i)'
        BY <1>1, <2>1 DEF Settled
    <2>3. TypeOK'
        BY <1>1, <1>2, <2>1 DEF IInv, TypeOK
    <2>4. Stages'
        BY <1>1, <1>2 DEF IInv, Stages
    <2>5. \A k : OnTrack(k)' = OnTrack(k)
        BY <1>1 DEF OnTrack
    <2>6. \A k \in 1..floors' : \A j \in kept' : IsFirst(j, OnTrack(k))' => Settled(j)'
        BY <1>1, <2>1, <2>5 DEF IInv, Progress, IsFirst
    <2>7. \A j \in kept' \ pending' : Settled(j)'
        BY <1>1, <1>2, <2>1, <2>2 DEF IInv, Progress
    <2>8. Progress'
        BY <1>1, <2>1, <2>6, <2>7 DEF Progress
    <2>9. QED
        BY <2>3, <2>4, <2>8 DEF IInv
<1>4. QED
    BY <1>1, <1>2, <1>3 DEF IInv, Stages

\* From stage to stage nothing is lost.
LEMMA MovesKeep == ASSUME IInv, Merged \/ FloorsDone \/ Filled PROVE IInv'
<1>1. /\ candidates' = candidates /\ budget' = budget /\ kept' = kept
      /\ floors' = floors /\ selected' = selected /\ used' = used
    BY DEF Merged, FloorsDone, Filled
<1>2. (\A i : Settled(i)' <=> Settled(i)) /\ (\A k : OnTrack(k)' = OnTrack(k))
    BY <1>1 DEF Settled, OnTrack
<1>3. used' <= budget' /\ \A k \in 1..floors' : \A i \in kept' : IsFirst(i, OnTrack(k))' => Settled(i)'
    BY <1>1, <1>2 DEF IInv, Progress, IsFirst
<1>4. CASE Merged
    BY <1>1, <1>3, <1>4 DEF Merged, IInv, TypeOK, Stages, Progress
<1>5. CASE FloorsDone
    <2>1. \A i \in kept' \ pending' : Settled(i)'
        BY <1>1, <1>2, <1>5 DEF FloorsDone, Settled
    <2>2. QED
        BY <1>1, <1>3, <1>5, <2>1 DEF FloorsDone, IInv, TypeOK, Stages, Progress
<1>6. CASE Filled
    <2>1. \A i \in kept' \ pending' : Settled(i)'
        BY <1>1, <1>2, <1>6 DEF Filled, IInv, Progress
    <2>2. QED
        BY <1>1, <1>3, <1>6, <2>1 DEF Filled, IInv, TypeOK, Stages, Progress
<1>7. QED
    BY <1>4, <1>5, <1>6

\* A stuttering step changes nothing.
LEMMA StutterKeeps == ASSUME IInv, UNCHANGED vars PROVE IInv'
BY DEF vars, IInv, TypeOK, Stages, Progress, Settled, IsFirst, OnTrack

\* The invariant of the budget.
LEMMA InvariantHolds == Spec => []IInv
<1>1. ASSUME IInv, [Next]_vars PROVE IInv'
    BY <1>1, MergeKeeps, FloorKeeps, FillKeeps, MovesKeep, StutterKeeps DEF Next
<1>2. QED
    BY <1>1, InitHolds, PTL DEF Spec

\* The type invariant of the selection.
THEOREM MemoryTypeOK == Spec => []TypeOK
<1>1. IInv => TypeOK
    BY DEF IInv
<1>2. QED
    BY <1>1, InvariantHolds, PTL

\* For any candidates, in any order, and any budget: the selection keeps the strict
\* budget of select_actor_memory_context, leaves out nothing that would fit, and
\* the second chance of a floor that did not fit is none.
THEOREM BudgetStrictAndSpent == Spec => []BudgetIsSpent
<1>1. ASSUME IInv PROVE BudgetIsSpent
    <2>1. used <= budget
        BY <1>1 DEF IInv, Progress
    <2>2. stage = "done" => \A i \in kept \ selected : used + i.cost > budget
        BY <1>1 DEF IInv, Stages, Progress, Settled
    <2>3. stage \in {"fill", "done"} =>
              \A k \in 1..4, i \in kept : IsFirst(i, OnTrack(k)) =>
                  i \in selected \/ used + i.cost > budget
        BY <1>1 DEF IInv, Stages, Progress, Settled
    <2>4. QED
        BY <2>1, <2>2, <2>3 DEF BudgetIsSpent
<1>2. QED
    BY <1>1, InvariantHolds, PTL

-----------------------------------------------------------------------------
(* The selection is the one selection *)

\* Of the items met so far, those kept say different things, and each item is kept
\* or says the same as a preferred one that is.
Merging ==
    /\ kept \subseteq candidates \ pending
    /\ \A i, j \in kept : Same(i, j) => i = j
    /\ \A j \in candidates \ pending : \E r \in kept : Same(j, r) /\ (j = r \/ Worse(j, r))

\* The first n tracks have had their floors.
Floored(n) ==
    \A k \in 1..n : \A i \in Best(kept, k) : i \in selected <=> Room(kept, budget, selected, k, i)

\* What fill has passed comes before what it has not, and was taken if it fitted
\* beside what comes before it.
Filling ==
    /\ Floored(4) /\ pending \cap selected = {}
    /\ \A i \in (kept \ pending) \ Granted(kept, budget, selected) :
          /\ i \in selected <=> Cost(Earlier(kept, budget, selected, i)) + i.cost <= budget
          /\ \A j \in pending : Ahead(i, j)

\* How far the selection is decided, at each stage.
Determined ==
    /\ IsFiniteSet(candidates) /\ used = Cost(selected)
    /\ stage = "merge" => Merging
    /\ stage # "merge" => kept = Distinct(candidates)
    /\ stage = "floors" =>
          Floored(floors) /\ selected \subseteq UNION {Best(kept, k) : k \in 1..floors}
    /\ stage \in {"fill", "done"} => Filling

DInv == IInv /\ Determined

\* What is kept and selected are finite sets of items.
LEMMA KeptItems ==
    ASSUME DInv
    PROVE  /\ Items(candidates) /\ Items(kept) /\ Items(selected)
           /\ Costed(selected) /\ budget \in Int /\ selected \subseteq kept /\ kept \subseteq Universe
<1>1. /\ candidates \subseteq Universe /\ kept \subseteq candidates /\ selected \subseteq kept
      /\ budget \in Int
    BY BudgetAssumption DEF DInv, IInv, TypeOK
<1>2. Items(candidates)
    BY <1>1 DEF Items, DInv, Determined
<1>3. Items(kept) /\ Items(selected) /\ Costed(selected)
    BY <1>1, <1>2, ItemsCosted
<1>4. QED
    BY <1>1, <1>2, <1>3 DEF Items

\* Selecting an item anew adds its cost.
LEMMA SelectCosts ==
    ASSUME DInv, NEW i \in kept, i \notin selected, Select(i)
    PROVE  used' = Cost(selected')
<1>1. selected' = selected \cup {i} /\ used' = used + i.cost /\ used = Cost(selected)
    BY DEF Select, DInv, Determined
<1>2. i.cost \in Nat
    BY KeptItems, ItemTypes
<1>3. QED
    BY <1>1, <1>2, KeptItems, CostAdd

\* Nothing met, nothing kept, nothing spent.
LEMMA DetermineInit == Init => Determined
<1>1. SUFFICES ASSUME Init PROVE Determined
    OBVIOUS
<1>2. QED
    BY <1>1, CostEmpty DEF Init, Determined, Merging

\* A candidate is dropped for one that is preferred, or takes the place of one.
LEMMA DetermineMerge == ASSUME DInv, NEW i \in pending, Merge(i) PROVE Determined'
<1> DEFINE M == candidates \ pending
<1>1. /\ stage = "merge" /\ stage' = stage /\ candidates' = candidates
      /\ selected' = selected /\ used' = used /\ pending' = pending \ {i}
    BY DEF Merge
<1>2. candidates \subseteq Universe /\ pending \subseteq candidates
    BY DEF DInv, IInv, TypeOK
<1>3. /\ kept \subseteq M /\ \A r, j \in kept : Same(r, j) => r = j
      /\ \A j \in M : \E r \in kept : Same(j, r) /\ (j = r \/ Worse(j, r))
    BY <1>1 DEF DInv, Determined, Merging
<1>4. candidates \ pending' = M \cup {i} /\ i \notin M /\ i \in Universe /\ M \subseteq Universe
    BY <1>1, <1>2
<1>5. \A r, j, k : /\ Same(r, r) /\ (Same(r, j) => Same(j, r))
                   /\ Same(r, j) /\ Same(j, k) => Same(r, k)
    BY DEF Same
<1> HIDE DEF M
<1>6. CASE \E j \in kept : Same(i, j) /\ ~Worse(j, i)
    <2>1. kept' = kept
        BY <1>6 DEF Merge, Worse
    <2>2. PICK r \in kept : Same(i, r) /\ ~Worse(r, i)
        BY <1>6
    <2>3. Worse(i, r)
        BY <1>3, <1>4, <2>2, PreferenceIsOrder
    <2>4. \A j \in M \cup {i} : \E q \in kept : Same(j, q) /\ (j = q \/ Worse(j, q))
        BY <1>3, <2>2, <2>3
    <2>5. Merging'
        BY <1>3, <1>4, <1>1, <2>1, <2>4 DEF Merging
    <2>6. QED
        BY <1>1, <2>5 DEF DInv, Determined
<1>7. CASE ~ \E j \in kept : Same(i, j) /\ ~Worse(j, i)
    <2>1. kept' = {j \in kept : ~Same(i, j)} \cup {i}
        BY <1>7 DEF Merge, Worse
    <2>2. kept' \subseteq M \cup {i}
        BY <1>3, <2>1
    <2>3. \A r, j \in kept' : Same(r, j) => r = j
        BY <1>3, <1>5, <2>1
    <2>4. ASSUME NEW j \in M \cup {i}
          PROVE  \E q \in kept' : Same(j, q) /\ (j = q \/ Worse(j, q))
        <3>1. CASE j = i
            BY <1>5, <2>1, <3>1
        <3>2. CASE j \in M
            <4>1. PICK r \in kept : Same(j, r) /\ (j = r \/ Worse(j, r))
                BY <1>3, <3>2
            <4>2. CASE ~Same(i, r)
                BY <2>1, <4>1, <4>2
            <4>3. CASE Same(i, r)
                <5>1. Worse(r, i)
                    BY <1>7, <4>3
                <5>2. Worse(j, i)
                    BY <1>3, <1>4, <3>2, <4>1, <5>1, PreferenceIsOrder
                <5>3. Same(j, i)
                    BY <1>5, <4>1, <4>3
                <5>4. QED
                    BY <2>1, <5>2, <5>3
            <4>4. QED
                BY <4>2, <4>3
        <3>3. QED
            BY <2>4, <3>1, <3>2
    <2>5. Merging'
        BY <1>1, <1>4, <2>2, <2>3, <2>4 DEF Merging
    <2>6. QED
        BY <1>1, <2>5 DEF DInv, Determined
<1>8. QED
    BY <1>6, <1>7

\* When every candidate was met, the distinct ones are kept.
LEMMA MergedDistinct == ASSUME DInv, Merged PROVE kept = Distinct(candidates)
<1>1. /\ kept \subseteq candidates /\ \A r, j \in kept : Same(r, j) => r = j
      /\ \A j \in candidates : \E r \in kept : Same(j, r) /\ (j = r \/ Worse(j, r))
    BY DEF Merged, DInv, Determined, Merging
<1>2. \A r, j, k : (Same(r, j) => Same(j, r)) /\ (Same(r, j) /\ Same(j, k) => Same(r, k))
    BY DEF Same
<1>3. candidates \subseteq Universe
    BY DEF DInv, IInv, TypeOK
<1>4. Distinct(candidates) = {i \in candidates : \A j \in candidates : Same(i, j) => i = j \/ Worse(j, i)}
    BY DEF Distinct, Worse
<1>5. ASSUME NEW i \in kept PROVE i \in Distinct(candidates)
    <2>1. SUFFICES ASSUME NEW j \in candidates, Same(i, j) PROVE i = j \/ Worse(j, i)
        BY <1>1, <1>4
    <2>2. PICK r \in kept : Same(j, r) /\ (j = r \/ Worse(j, r))
        BY <1>1
    <2>3. r = i
        BY <1>1, <1>2, <2>1, <2>2
    <2>4. QED
        BY <2>2, <2>3
<1>6. ASSUME NEW i \in Distinct(candidates) PROVE i \in kept
    <2>1. i \in candidates /\ \A j \in candidates : Same(i, j) => i = j \/ Worse(j, i)
        BY <1>4
    <2>2. PICK r \in kept : Same(i, r) /\ (i = r \/ Worse(i, r))
        BY <1>1, <2>1
    <2>3. i = r \/ Worse(r, i)
        BY <1>1, <2>1, <2>2
    <2>4. QED
        BY <1>1, <1>3, <2>1, <2>2, <2>3, PreferenceIsOrder
<1>7. QED
    BY <1>5, <1>6

\* A floor reserves room beside the floors before it, which it leaves as they are.
LEMMA DetermineFloor == ASSUME DInv, Floor PROVE Determined'
<1> DEFINE n == floors + 1
<1>1. /\ stage = "floors" /\ stage' = stage /\ candidates' = candidates /\ budget' = budget
      /\ kept' = kept /\ floors' = n /\ n \in 1..4 /\ floors \in 0..3
    BY DEF Floor, DInv, IInv, TypeOK
<1>2. kept \subseteq Universe /\ Costed(selected) /\ selected \subseteq kept
    BY KeptItems
<1>3. Floored(floors) /\ selected \subseteq UNION {Best(kept, k) : k \in 1..floors}
    BY <1>1 DEF DInv, Determined
<1>4. \A k \in 1..n : k \in 1..4 /\ (k = n \/ k \in 1..floors)
    BY <1>1
<1>5. \A k \in 1..floors : k \in 1..n
    BY <1>1
<1>6. SUFFICES /\ used' = Cost(selected')
               /\ \A k \in 1..n : \A j \in Best(kept, k) :
                     j \in selected' <=> Room(kept, budget, selected', k, j)
               /\ selected' \subseteq UNION {Best(kept, k) : k \in 1..n}
    BY <1>1, <1>6 DEF DInv, Determined, Floored
<1>7. CASE OnTrack(n) = {} /\ Skip
    <2>1. selected' = selected /\ used' = used
        BY <1>7 DEF Skip
    <2>2. Best(kept, n) = {}
        BY <1>7 DEF Best, OnTrack, IsFirst
    <2>3. \A k \in 1..n : \A j \in Best(kept, k) :
              j \in selected' <=> Room(kept, budget, selected', k, j)
        BY <1>3, <1>4, <2>1, <2>2 DEF Floored
    <2>4. QED
        BY <1>3, <1>5, <2>1, <2>3 DEF DInv, Determined
<1>8. ASSUME NEW i \in kept, IsFirst(i, OnTrack(n)), IF Fits(i) THEN Select(i) ELSE Skip
      PROVE  /\ used' = Cost(selected')
             /\ \A k \in 1..n : \A j \in Best(kept, k) :
                   j \in selected' <=> Room(kept, budget, selected', k, j)
             /\ selected' \subseteq UNION {Best(kept, k) : k \in 1..n}
    <2>1. i \in Best(kept, n)
        BY <1>8 DEF Best, OnTrack
    <2>2. \A j \in Best(kept, n) : j = i
        BY <1>1, <1>2, <2>1, OneBest
    <2>3. \A k \in 1..floors : i \notin Best(kept, k)
        BY <1>1, <1>2, <1>4, <1>5, <2>1, OneBest
    <2>4. i \notin selected
        BY <1>3, <2>3
    <2>5. selected' \subseteq selected \cup {i} /\ selected \subseteq selected'
        BY <1>8 DEF Select, Skip
    <2>6. used' = Cost(selected')
        <3>1. CASE Fits(i)
            BY <1>8, <2>4, <3>1, SelectCosts
        <3>2. CASE ~Fits(i)
            BY <1>8, <3>2 DEF Skip, DInv, Determined
        <3>3. QED
            BY <3>1, <3>2
    <2>7. \A k \in 1..n : Reserved(kept, selected', k) = Reserved(kept, selected, k)
        <3>1. \A k \in 1..n : \A l \in 1..k - 1 : i \notin Best(kept, l)
            BY <1>1, <2>3
        <3>2. QED
            BY <2>5, <3>1 DEF Reserved
    <2>8. Reserved(kept, selected, n) = selected
        BY <1>1, <1>3 DEF Reserved
    <2>9. i \in selected' <=> Room(kept, budget, selected, n, i)
        BY <1>8, <2>4, <2>8 DEF Room, Fits, Select, Skip, DInv, Determined
    <2>10. ASSUME NEW k \in 1..n, NEW j \in Best(kept, k)
           PROVE  j \in selected' <=> Room(kept, budget, selected', k, j)
        <3>1. Room(kept, budget, selected', k, j) <=> Room(kept, budget, selected, k, j)
            BY <2>7 DEF Room
        <3>2. CASE k = n
            BY <2>2, <2>9, <3>1, <3>2
        <3>3. CASE k \in 1..floors
            <4>1. j # i
                BY <2>3, <3>3
            <4>2. j \in selected' <=> j \in selected
                BY <2>5, <4>1
            <4>3. j \in selected <=> Room(kept, budget, selected, k, j)
                BY <1>3, <3>3 DEF Floored
            <4>4. QED
                BY <3>1, <4>2, <4>3
        <3>4. QED
            BY <1>4, <3>2, <3>3
    <2>11. selected' \subseteq UNION {Best(kept, k) : k \in 1..n}
        BY <1>1, <1>3, <1>5, <2>1, <2>5
    <2>12. QED
        BY <2>6, <2>10, <2>11
<1>9. QED
    BY <1>7, <1>8 DEF Floor

\* After the floors, what is selected was granted its room.
LEMMA DetermineFloorsDone == ASSUME DInv, FloorsDone PROVE Determined'
<1>1. /\ stage = "floors" /\ stage' = "fill" /\ pending' = kept \ selected /\ floors = 4
      /\ candidates' = candidates /\ budget' = budget /\ kept' = kept
      /\ selected' = selected /\ used' = used
    BY DEF FloorsDone
<1>2. Floored(4) /\ selected \subseteq UNION {Best(kept, k) : k \in 1..4}
    BY <1>1 DEF DInv, Determined
<1>3. kept \subseteq Universe /\ selected \subseteq kept
    BY KeptItems
<1>4. selected \subseteq Granted(kept, budget, selected)
    BY <1>2, <1>3, GrantedMeans DEF Floored
<1>5. Filling'
    <2>1. Floored(4)'
        BY <1>1, <1>2 DEF Floored
    <2>2. (kept' \ pending') \ Granted(kept', budget', selected') = {}
        BY <1>1, <1>3, <1>4
    <2>3. QED
        BY <1>1, <2>1, <2>2 DEF Filling
<1>6. QED
    BY <1>1, <1>5 DEF DInv, Determined

\* An item that gets its room after the floors is no best item.
LEMMA LateIsNotBest ==
    ASSUME DInv, Filling, NEW i \in kept, i \notin selected, Fits(i), NEW k \in 1..4
    PROVE  i \notin Best(kept, k)
<1>1. SUFFICES ASSUME i \in Best(kept, k) PROVE FALSE
    OBVIOUS
<1>2. ~Room(kept, budget, selected, k, i)
    BY <1>1 DEF Filling, Floored
<1>3. Reserved(kept, selected, k) \in SUBSET selected
    BY DEF Reserved
<1>4. /\ Cost(Reserved(kept, selected, k)) \in Nat /\ Cost(selected) \in Nat
      /\ Cost(Reserved(kept, selected, k)) <= Cost(selected)
    BY <1>3, KeptItems, CostMonotone
<1>5. i.cost \in Nat /\ budget \in Int
    BY KeptItems, ItemTypes
<1>6. Cost(selected) + i.cost <= budget
    BY DEF Fits, DInv, Determined
<1>7. QED
    BY <1>2, <1>4, <1>5, <1>6 DEF Room

\* Fill decides about an item when all that come before it are decided, and about
\* none of them again.
LEMMA DetermineFill == ASSUME DInv, Fill PROVE Determined'
<1>1. /\ stage = "fill" /\ stage' = stage /\ candidates' = candidates /\ budget' = budget
      /\ kept' = kept /\ floors' = floors
    BY DEF Fill
<1>2. Filling /\ used = Cost(selected) /\ pending \subseteq kept
    BY <1>1 DEF DInv, IInv, Stages, Determined
<1>3. PICK i \in pending : /\ IsFirst(i, pending)
                           /\ IF Fits(i) THEN Select(i) ELSE Skip
                           /\ pending' = pending \ {i}
    BY DEF Fill
<1>4. i \in kept /\ i \notin selected /\ kept \subseteq Universe
    BY <1>2, <1>3, KeptItems DEF Filling
<1>5. /\ selected \subseteq selected' /\ selected' \subseteq selected \cup {i}
      /\ i \in selected' <=> Fits(i)
      /\ used' = Cost(selected')
    <2>1. CASE Fits(i)
        BY <1>3, <1>4, <2>1, SelectCosts DEF Select
    <2>2. CASE ~Fits(i)
        BY <1>2, <1>3, <1>4, <2>2 DEF Skip
    <2>3. QED
        BY <2>1, <2>2
<1>6. \A k \in 1..4 : Reserved(kept, selected', k) = Reserved(kept, selected, k)
    <2>1. i \in selected' => \A k \in 1..4 : i \notin Best(kept, k)
        BY <1>2, <1>4, <1>5, LateIsNotBest
    <2>2. \A k \in 1..4 : \A l \in 1..k - 1 : l \in 1..4
        OBVIOUS
    <2>3. QED
        BY <1>5, <2>1, <2>2 DEF Reserved
<1>7. Granted(kept, budget, selected') = Granted(kept, budget, selected)
    BY <1>6 DEF Granted, Room
<1>8. Floored(4)'
    <2>1. ASSUME NEW k \in 1..4, NEW j \in Best(kept, k)
          PROVE  j \in selected' <=> Room(kept, budget, selected', k, j)
        <3>1. j \in selected <=> Room(kept, budget, selected, k, j)
            BY <1>2 DEF Filling, Floored
        <3>2. Room(kept, budget, selected', k, j) <=> Room(kept, budget, selected, k, j)
            BY <1>6 DEF Room
        <3>3. j \in selected' => j \in selected
            BY <1>2, <1>4, <1>5, LateIsNotBest
        <3>4. QED
            BY <1>5, <3>1, <3>2, <3>3
    <2>2. QED
        BY <1>1, <2>1 DEF Floored
<1> DEFINE G == Granted(kept, budget, selected)
<1>9. G \subseteq selected
    BY <1>2, <1>4, GrantedMeans DEF Filling, Floored, Granted
<1>10. \A j \in (kept \ pending) \ G :
          /\ j \in selected <=> Cost(Earlier(kept, budget, selected, j)) + j.cost <= budget
          /\ \A p \in pending : Ahead(j, p)
    BY <1>2 DEF Filling
<1>11. \A p \in pending : p = i \/ Ahead(i, p)
    BY <1>3 DEF IsFirst, Ahead
<1>12. pending \cap selected = {} /\ selected \subseteq kept
    BY <1>2, KeptItems DEF Filling
<1> HIDE DEF G
<1>13. \A j \in ((kept \ pending) \ G) \cup {i} :
           Earlier(kept, budget, selected', j) = Earlier(kept, budget, selected, j)
    <2>1. \A j \in ((kept \ pending) \ G) \cup {i} : ~Ahead(i, j)
        BY <1>3, <1>4, <1>10, RankIsOrder
    <2>2. QED
        BY <1>5, <1>7, <2>1 DEF Earlier
<1>14. Earlier(kept, budget, selected, i) = selected
    BY <1>3, <1>9, <1>10, <1>12 DEF Earlier, G
<1>15. ASSUME NEW j \in (kept \ pending') \ G
       PROVE  /\ j \in selected' <=> Cost(Earlier(kept, budget, selected', j)) + j.cost <= budget
              /\ \A p \in pending' : Ahead(j, p)
    <2>1. CASE j = i
        <3>1. Earlier(kept, budget, selected', i) = selected
            BY <1>13, <1>14
        <3>2. Fits(i) <=> Cost(selected) + i.cost <= budget
            BY <1>2 DEF Fits
        <3>3. QED
            BY <1>3, <1>5, <1>11, <2>1, <3>1, <3>2
    <2>2. CASE j # i
        <3>1. j \in (kept \ pending) \ G
            BY <1>3, <2>2
        <3>2. Earlier(kept, budget, selected', j) = Earlier(kept, budget, selected, j)
            BY <1>13, <3>1
        <3>3. j \in selected' <=> j \in selected
            BY <1>5, <2>2
        <3>4. QED
            BY <1>3, <1>10, <3>1, <3>2, <3>3
    <2>3. QED
        BY <2>1, <2>2
<1>16. pending' \cap selected' = {}
    BY <1>3, <1>5, <1>12
<1>17. Filling'
    BY <1>1, <1>7, <1>8, <1>15, <1>16 DEF Filling, G
<1>18. QED
    BY <1>1, <1>5, <1>17 DEF DInv, Determined

\* The other stages hand over what they have.
LEMMA DetermineMoves == ASSUME DInv, Merged \/ Filled PROVE Determined'
<1>1. /\ candidates' = candidates /\ budget' = budget /\ kept' = kept
      /\ floors' = floors /\ selected' = selected /\ used' = used /\ pending' = pending
    BY DEF Merged, Filled
<1>2. CASE Merged
    <2>1. stage' = "floors" /\ floors = 0 /\ selected = {}
        BY <1>2 DEF Merged, DInv, IInv, Stages
    <2>2. kept = Distinct(candidates)
        BY <1>2, MergedDistinct
    <2>3. Distinct(candidates)' = Distinct(candidates)
        BY <1>1 DEF Distinct
    <2>4. QED
        BY <1>1, <2>1, <2>2, <2>3 DEF DInv, Determined, Floored
<1>3. CASE Filled
    <2>1. stage = "fill" /\ stage' = "done"
        BY <1>3 DEF Filled
    <2>2. Filling'
        BY <1>1, <2>1 DEF DInv, Determined, Filling, Floored
    <2>3. QED
        BY <1>1, <2>1, <2>2 DEF DInv, Determined
<1>4. QED
    BY <1>2, <1>3

\* A stuttering step decides nothing.
LEMMA DetermineStutter == ASSUME DInv, UNCHANGED vars PROVE Determined'
BY DEF vars, DInv, Determined, Merging, Filling, Floored

\* The invariant of the selection.
LEMMA DeterminedHolds == Spec => []DInv
<1>1. ASSUME DInv, [Next]_vars PROVE Determined'
    BY <1>1, DetermineMerge, DetermineFloor, DetermineFloorsDone, DetermineFill,
       DetermineMoves, DetermineStutter DEF Next
<1>2. DInv <=> IInv /\ Determined
    BY DEF DInv
<1>3. QED
    BY <1>1, <1>2, DetermineInit, InvariantHolds, PTL DEF Spec

\* Whatever the order of the candidates, the result is the one selection that
\* IsSelection describes, and what was counted as spent is its cost: of
\* select_actor_memory_context, for any set of candidates and any budget.
THEOREM SelectionAlwaysDetermined == Spec => []SelectionIsDetermined
<1>1. ASSUME DInv PROVE SelectionIsDetermined
    <2>1. SUFFICES ASSUME stage = "done"
                   PROVE  /\ {S \in SUBSET candidates : IsSelection(S)} = {selected}
                          /\ used = Cost(selected)
        BY DEF SelectionIsDetermined
    <2>2. /\ kept = Distinct(candidates) /\ used = Cost(selected)
          /\ Filling /\ pending = {}
        BY <1>1, <2>1 DEF DInv, IInv, Stages, Determined
    <2>3. Items(kept) /\ budget \in Int /\ selected \subseteq kept /\ kept \subseteq Universe
        BY <1>1, KeptItems
    <2>4. Selection(kept, budget, selected)
        <3>1. Granted(kept, budget, selected) \subseteq selected
            BY <2>2, <2>3, GrantedMeans DEF Filling, Floored, Granted
        <3>2. QED
            BY <2>2, <2>3, <3>1 DEF Selection, Filling
    <2>5. \A S : IsSelection(S) <=> S = selected
        BY <2>2, <2>3, <2>4, SelectionMeans, SelectionUnique
    <2>6. selected \subseteq candidates
        BY <2>2, <2>3 DEF Distinct
    <2>7. QED
        BY <2>2, <2>5, <2>6
<1>2. QED
    BY <1>1, DeterminedHolds, PTL
================================================================================
