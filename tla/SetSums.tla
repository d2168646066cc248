------------------------------ MODULE SetSums ------------------------------
(***************************************************************************)
(* What MapThenSumSet does when it adds up the values a function gives to  *)
(* the elements of a finite set: it is well defined, does not depend on    *)
(* the order, and splits over disjoint sets.                               *)
(*                                                                         *)
(* Each fact is proved by induction on the set, as the absence of a        *)
(* smallest set without it (SmallestSet): the set of the counterexamples   *)
(* takes the place of the predicate that an induction rule would take.     *)
(***************************************************************************)
EXTENDS FiniteSetsExt, FiniteSetTheorems, TLAPS

\* The sum of v over S.
Total(v, S) == MapThenSumSet(LAMBDA k : v[k], S)

\* The equation of the recursive function behind it, and that function.
First(s) == CHOOSE x \in s : TRUE
AddsUp(v, S, g) ==
    g = [s \in SUBSET S |-> IF s = {} THEN 0
                            ELSE v[First(s)] + g[s \ {First(s)}]]
Adder(v, S) == CHOOSE g : AddsUp(v, S, g)

\* A family of subsets of a finite set has a smallest member.
LEMMA SmallestSet ==
  ASSUME NEW S, IsFiniteSet(S), NEW B, B \subseteq SUBSET S, B # {}
  PROVE  \E m \in B : \A t \in B : t \subseteq m => t = m
<1>1. IsWellFoundedOn(StrictSubsetOrdering(S), FiniteSubsetsOf(S))
  BY FS_StrictSubsetOrderingWellFounded
<1>2. B \subseteq FiniteSubsetsOf(S)
  BY FS_FiniteSubsetsOfFinite
<1>3. \E m \in B : \A t \in B : ~(<<t, m>> \in StrictSubsetOrdering(S))
  <2> HIDE DEF StrictSubsetOrdering, FiniteSubsetsOf
  <2> QED BY <1>1, <1>2, WFMin
<1> QED
  BY <1>3 DEF StrictSubsetOrdering

-----------------------------------------------------------------------------
(* The sum is well defined                                                 *)

\* Total is the recursive function of that equation, at the set.
LEMMA TotalIsAdder ==
  ASSUME NEW v, NEW S PROVE Total(v, S) = Adder(v, S)[S]
  BY DEF Total, MapThenSumSet, MapThenFoldSet, Adder, AddsUp, First

\* The element taken out of a set is one of its own.
LEMMA FirstOf == ASSUME NEW s, s # {} PROVE First(s) \in s
  BY DEF First

\* What the equation says of one set.
LEMMA AddsUpAt ==
  ASSUME NEW v, NEW S, NEW g, AddsUp(v, S, g)
  PROVE  \A s \in SUBSET S :
             g[s] = IF s = {} THEN 0 ELSE v[First(s)] + g[s \ {First(s)}]
  BY DEF AddsUp

\* Two functions that satisfy the equation agree wherever both are defined.
LEMMA AdderUnique ==
  ASSUME NEW v, NEW S, NEW T, NEW g, NEW h, IsFiniteSet(S),
         AddsUp(v, S, g), AddsUp(v, T, h), NEW u \in SUBSET S, u \subseteq T
  PROVE  g[u] = h[u]
<1>0. \A s \in SUBSET S :
        g[s] = IF s = {} THEN 0 ELSE v[First(s)] + g[s \ {First(s)}]
  BY AddsUpAt
<1>1. \A s \in SUBSET T :
        h[s] = IF s = {} THEN 0 ELSE v[First(s)] + h[s \ {First(s)}]
  BY AddsUpAt
<1> DEFINE B == {s \in SUBSET S : s \subseteq T /\ g[s] # h[s]}
<1> SUFFICES ASSUME B # {} PROVE FALSE
  OBVIOUS
<1>2. PICK m \in B : \A t \in B : t \subseteq m => t = m
  <2>1. B \subseteq SUBSET S
    OBVIOUS
  <2> HIDE DEF B
  <2> QED BY <2>1, SmallestSet
<1>3. m \in SUBSET S /\ m \in SUBSET T
  OBVIOUS
<1>4. g[m] = IF m = {} THEN 0 ELSE v[First(m)] + g[m \ {First(m)}]
  BY <1>0, <1>3
<1>5. h[m] = IF m = {} THEN 0 ELSE v[First(m)] + h[m \ {First(m)}]
  BY <1>1, <1>3
<1>6. CASE m = {}
  BY <1>2, <1>6, <1>4, <1>5
<1>7. CASE m # {}
  <2> DEFINE n == m \ {First(m)}
  <2>1. First(m) \in m /\ n \subseteq m /\ n # m
    BY <1>7, FirstOf
  <2>2. g[n] = h[n]
    <3>1. n \in SUBSET S /\ n \subseteq T /\ n \notin B
      BY <1>2, <1>3, <2>1
    <3> HIDE DEF n
    <3> QED BY <3>1
  <2> QED
    BY <1>2, <1>7, <1>4, <1>5, <2>2
<1> QED
  BY <1>6, <1>7

\* Over every finite set there is such a function: it is put together from
\* those over the smaller sets, which agree.
LEMMA AdderExists ==
  ASSUME NEW v, NEW S, IsFiniteSet(S)
  PROVE  AddsUp(v, S, Adder(v, S))
<1> DEFINE B == {s \in SUBSET S : ~AddsUp(v, s, Adder(v, s))}
<1> SUFFICES ASSUME B # {} PROVE FALSE
  OBVIOUS
<1>1. PICK m \in B : \A t \in B : t \subseteq m => t = m
  <2>1. B \subseteq SUBSET S
    OBVIOUS
  <2> HIDE DEF B
  <2> QED BY <2>1, SmallestSet
<1>2. m \in SUBSET S /\ ~AddsUp(v, m, Adder(v, m))
  OBVIOUS
<1>3. \A t \in SUBSET m : t # m => AddsUp(v, t, Adder(v, t))
  BY <1>1, <1>2
<1> DEFINE f(s) == IF s = {} THEN 0
                   ELSE v[First(s)] + Adder(v, s \ {First(s)})[s \ {First(s)}]
           g == [s \in SUBSET m |-> f(s)]
<1>4. ASSUME NEW t \in SUBSET m, t # m PROVE Adder(v, t)[t] = f(t)
  <2>1. Adder(v, t)[t] = IF t = {} THEN 0
                         ELSE v[First(t)] + Adder(v, t)[t \ {First(t)}]
    BY <1>3, <1>4, AddsUpAt
  <2>2. CASE t # {}
    <3> DEFINE n == t \ {First(t)}
    <3>1. n \in SUBSET t /\ n \in SUBSET m /\ n # m /\ IsFiniteSet(t)
      BY <1>2, <1>4, <2>2, FirstOf, FS_Subset
    <3>2. AddsUp(v, t, Adder(v, t)) /\ AddsUp(v, n, Adder(v, n))
      BY <1>3, <1>4, <3>1
    <3>3. Adder(v, t)[n] = Adder(v, n)[n]
      BY <3>1, <3>2, AdderUnique
    <3> QED
      BY <2>1, <2>2, <3>3
  <2> QED
    BY <2>1, <2>2
<1>5. AddsUp(v, m, g)
  <2>1. ASSUME NEW s \in SUBSET m, s # {}
        PROVE  f(s) = v[First(s)] + g[s \ {First(s)}]
    <3> DEFINE n == s \ {First(s)}
    <3>1. n \in SUBSET m /\ n # m
      BY <2>1, FirstOf
    <3>2. g[n] = Adder(v, n)[n]
      BY <1>4, <3>1
    <3> QED
      BY <2>1, <3>2
  <2>2. \A s \in SUBSET m : f(s) = IF s = {} THEN 0 ELSE v[First(s)] + g[s \ {First(s)}]
    BY <2>1
  <2> HIDE DEF f
  <2>3. g = [s \in SUBSET m |-> IF s = {} THEN 0 ELSE v[First(s)] + g[s \ {First(s)}]]
    BY <2>2
  <2> QED
    BY <2>3 DEF AddsUp
<1>6. AddsUp(v, m, Adder(v, m))
  <2> HIDE DEF g
  <2> QED BY <1>5 DEF Adder
<1> QED
  BY <1>2, <1>6

\* The sum satisfies the equation it is defined by.
LEMMA TotalEquation ==
  ASSUME NEW v, NEW S, IsFiniteSet(S)
  PROVE  Total(v, S) = IF S = {} THEN 0
                       ELSE v[First(S)] + Total(v, S \ {First(S)})
<1>1. Total(v, S) = IF S = {} THEN 0 ELSE v[First(S)] + Adder(v, S)[S \ {First(S)}]
  BY TotalIsAdder, AdderExists, AddsUpAt
<1>2. Adder(v, S)[S \ {First(S)}] = Total(v, S \ {First(S)})
  <2> DEFINE n == S \ {First(S)}
  <2>1. n \in SUBSET S /\ IsFiniteSet(n)
    BY FS_Subset
  <2>2. AddsUp(v, S, Adder(v, S)) /\ AddsUp(v, n, Adder(v, n))
    BY <2>1, AdderExists
  <2>3. Adder(v, S)[n] = Adder(v, n)[n]
    BY <2>1, <2>2, AdderUnique
  <2> QED
    BY <2>3, TotalIsAdder
<1> QED
  BY <1>1, <1>2

-----------------------------------------------------------------------------
(* Laws of the sum                                                         *)

\* Nothing adds up to zero.
LEMMA TotalEmpty == ASSUME NEW v PROVE Total(v, {}) = 0
  BY TotalEquation, FS_EmptySet

\* A sum of naturals is a natural.
LEMMA TotalType ==
  ASSUME NEW v, NEW S, IsFiniteSet(S), \A k \in S : v[k] \in Nat
  PROVE  Total(v, S) \in Nat
<1> DEFINE B == {s \in SUBSET S : Total(v, s) \notin Nat}
<1> SUFFICES ASSUME B # {} PROVE FALSE
  OBVIOUS
<1>1. PICK m \in B : \A t \in B : t \subseteq m => t = m
  <2>1. B \subseteq SUBSET S
    OBVIOUS
  <2> HIDE DEF B
  <2> QED BY <2>1, SmallestSet
<1>2. m \in SUBSET S /\ IsFiniteSet(m)
  BY FS_Subset
<1>3. CASE m = {}
  BY <1>3, TotalEmpty
<1>4. CASE m # {}
  <2> DEFINE n == m \ {First(m)}
  <2>1. First(m) \in m /\ n \subseteq m /\ n # m
    BY <1>4, FirstOf
  <2>2. Total(v, n) \in Nat
    BY <1>1, <1>2, <2>1
  <2>3. Total(v, m) = v[First(m)] + Total(v, n)
    BY <1>2, <1>4, TotalEquation
  <2>4. v[First(m)] \in Nat
    BY <1>2, <2>1
  <2> HIDE DEF n
  <2> QED
    BY <2>2, <2>3, <2>4
<1> QED
  BY <1>3, <1>4

\* The sum does not depend on which element is taken out first.
LEMMA TotalRemove ==
  ASSUME NEW v, NEW S, IsFiniteSet(S), \A k \in S : v[k] \in Nat, NEW x \in S
  PROVE  Total(v, S) = v[x] + Total(v, S \ {x})
<1> DEFINE B == {s \in SUBSET S : \E k \in s : Total(v, s) # v[k] + Total(v, s \ {k})}
<1> SUFFICES ASSUME B # {} PROVE FALSE
  OBVIOUS
<1>1. PICK m \in B : \A t \in B : t \subseteq m => t = m
  <2>1. B \subseteq SUBSET S
    OBVIOUS
  <2> HIDE DEF B
  <2> QED BY <2>1, SmallestSet
<1>2. m \in SUBSET S /\ IsFiniteSet(m)
  BY FS_Subset
<1>3. PICK k \in m : Total(v, m) # v[k] + Total(v, m \ {k})
  OBVIOUS
<1> DEFINE a == First(m)
           n == m \ {a}
           o == n \ {k}
<1>4. a \in m /\ n \subseteq m /\ n # m /\ IsFiniteSet(n)
  BY <1>2, <1>3, FirstOf, FS_Subset
<1>5. Total(v, m) = v[a] + Total(v, n)
  BY <1>2, <1>3, TotalEquation
<1>6. a # k
  BY <1>3, <1>5
<1>7. Total(v, n) = v[k] + Total(v, o)
  <2>1. n \notin B /\ n \in SUBSET S /\ k \in n
    BY <1>1, <1>2, <1>4, <1>6
  <2> QED
    BY <2>1
<1>8. Total(v, m \ {k}) = v[a] + Total(v, o)
  <2>1. m \ {k} \notin B /\ m \ {k} \in SUBSET S /\ a \in m \ {k}
    BY <1>1, <1>2, <1>4, <1>6
  <2>2. (m \ {k}) \ {a} = o
    OBVIOUS
  <2> QED
    BY <2>1, <2>2
<1>9. v[a] \in Nat /\ v[k] \in Nat /\ Total(v, o) \in Nat
  <2>1. IsFiniteSet(o) /\ o \in SUBSET S
    BY <1>2, <1>4, FS_Subset
  <2>2. \A j \in o : v[j] \in Nat
    BY <2>1
  <2>3. Total(v, o) \in Nat
    BY <2>1, <2>2, TotalType
  <2> QED
    BY <1>2, <1>4, <2>3
<1> HIDE DEF a, n, o
<1> QED
  BY <1>3, <1>5, <1>7, <1>8, <1>9

\* One element more.
LEMMA TotalAdd ==
  ASSUME NEW v, NEW S, IsFiniteSet(S), NEW x, x \notin S,
         \A k \in S \cup {x} : v[k] \in Nat
  PROVE  Total(v, S \cup {x}) = v[x] + Total(v, S)
<1>1. IsFiniteSet(S \cup {x}) /\ (S \cup {x}) \ {x} = S
  BY FS_AddElement
<1> QED
  BY <1>1, TotalRemove

\* The sum depends on the values of its own elements only.
LEMMA TotalSame ==
  ASSUME NEW v, NEW w, NEW S, IsFiniteSet(S), \A k \in S : v[k] = w[k]
  PROVE  Total(v, S) = Total(w, S)
<1> DEFINE B == {s \in SUBSET S : Total(v, s) # Total(w, s)}
<1> SUFFICES ASSUME B # {} PROVE FALSE
  OBVIOUS
<1>1. PICK m \in B : \A t \in B : t \subseteq m => t = m
  <2>1. B \subseteq SUBSET S
    OBVIOUS
  <2> HIDE DEF B
  <2> QED BY <2>1, SmallestSet
<1>2. m \in SUBSET S /\ IsFiniteSet(m)
  BY FS_Subset
<1>3. CASE m = {}
  BY <1>3, TotalEmpty
<1>4. CASE m # {}
  <2> DEFINE n == m \ {First(m)}
  <2>1. First(m) \in m /\ n \subseteq m /\ n # m
    BY <1>4, FirstOf
  <2>2. Total(v, n) = Total(w, n)
    BY <1>1, <1>2, <2>1
  <2>3. Total(v, m) = v[First(m)] + Total(v, n)
    BY <1>2, <1>4, TotalEquation
  <2>4. Total(w, m) = w[First(m)] + Total(w, n)
    BY <1>2, <1>4, TotalEquation
  <2> QED
    BY <1>2, <2>1, <2>2, <2>3, <2>4
<1> QED
  BY <1>3, <1>4

\* The sum over a set is the sum over a part and over the rest.
LEMMA TotalSplit ==
  ASSUME NEW v, NEW S, IsFiniteSet(S), \A k \in S : v[k] \in Nat, NEW T \in SUBSET S
  PROVE  Total(v, S) = Total(v, T) + Total(v, S \ T)
<1> DEFINE B == {t \in SUBSET T : Total(v, S) # Total(v, t) + Total(v, S \ t)}
<1> SUFFICES ASSUME B # {} PROVE FALSE
  OBVIOUS
<1>0. IsFiniteSet(T)
  BY FS_Subset
<1>1. PICK m \in B : \A t \in B : t \subseteq m => t = m
  <2>1. B \subseteq SUBSET T
    OBVIOUS
  <2> HIDE DEF B
  <2> QED BY <1>0, <2>1, SmallestSet
<1>2. m \in SUBSET S /\ m \in SUBSET T /\ IsFiniteSet(m)
  BY FS_Subset
<1>3. CASE m = {}
  <2>1. Total(v, S) \in Nat /\ S \ m = S
    BY <1>3, TotalType
  <2> QED
    BY <1>3, <2>1, TotalEmpty
<1>4. CASE m # {}
  <2> DEFINE x == First(m)
             n == m \ {x}
  <2>1. x \in m /\ n \subseteq m /\ n # m /\ n \in SUBSET S /\ IsFiniteSet(n)
    BY <1>2, <1>4, FirstOf, FS_Subset
  <2>2. Total(v, S) = Total(v, n) + Total(v, S \ n)
    BY <1>1, <1>2, <2>1
  <2>3. Total(v, m) = v[x] + Total(v, n)
    BY <1>2, <1>4, TotalEquation
  <2>4. Total(v, S \ n) = v[x] + Total(v, S \ m)
    <3>1. IsFiniteSet(S \ n) /\ x \in S \ n /\ (S \ n) \ {x} = S \ m
      BY <1>2, <2>1, FS_Subset
    <3> QED
      BY <3>1, TotalRemove
  <2>5. v[x] \in Nat /\ Total(v, n) \in Nat /\ Total(v, S \ m) \in Nat
    <3>1. IsFiniteSet(S \ m) /\ (\A k \in S \ m : v[k] \in Nat) /\ (\A k \in n : v[k] \in Nat)
      BY <2>1, FS_Subset
    <3>2. Total(v, n) \in Nat
      BY <2>1, <3>1, TotalType
    <3>3. Total(v, S \ m) \in Nat
      BY <3>1, TotalType
    <3> QED
      BY <1>2, <2>1, <3>2, <3>3
  <2> HIDE DEF x, n
  <2> QED
    BY <2>2, <2>3, <2>4, <2>5
<1> QED
  BY <1>3, <1>4
=============================================================================
