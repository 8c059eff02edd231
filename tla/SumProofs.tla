----------------------------- MODULE SumProofs -----------------------------
(***************************************************************************)
(* What a sum is, for every finite set: nothing for the empty set, and for *)
(* any other one of its elements plus the sum of the rest.  The sum is a   *)
(* recursive function on the subsets of the set; that it exists and is the *)
(* only one is shown by looking at a smallest subset on which it fails.    *)
(***************************************************************************)
EXTENDS Sums, FiniteSetTheorems, TLAPS

Some(s) == CHOOSE x \in s : TRUE

\* g adds up f on the subsets of S.
Adds(g, f, S) ==
    g = [s \in SUBSET S |-> IF s = {} THEN 0 ELSE f[Some(s)] + g[s \ {Some(s)}]]

-----------------------------------------------------------------------------
\* A set of subsets of a finite set that is not empty has a smallest member.
LEMMA SmallestSubset ==
    ASSUME NEW S, IsFiniteSet(S), NEW B, B \subseteq SUBSET S, B # {}
    PROVE  \E s \in B : \A r \in B : r \subseteq s => r = s
  <1>1. IsWellFoundedOn(StrictSubsetOrdering(S), FiniteSubsetsOf(S))
    BY FS_StrictSubsetOrderingWellFounded
  <1>2. FiniteSubsetsOf(S) = SUBSET S
    BY FS_FiniteSubsetsOfFinite
  <1>3. PICK s \in B : \A r \in B : ~(<<r, s>> \in StrictSubsetOrdering(S))
    BY <1>1, <1>2, WFMin
  <1>4. ASSUME NEW r \in B, r \subseteq s PROVE r = s
    BY <1>3, <1>4 DEF StrictSubsetOrdering
  <1>5. QED
    BY <1>4

HasSmallest(B) == \E s \in B : \A r \in B : r \subseteq s => r = s

\* SmallestSubset, by the name of what it finds.
LEMMA Smallest ==
    ASSUME NEW S, IsFiniteSet(S), NEW B, B \subseteq SUBSET S, B # {}
    PROVE  HasSmallest(B)
  BY SmallestSubset DEF HasSmallest

\* Counting: a set that has 0 and, with every number below n, the next one, has all numbers
\* up to n.
LEMMA CountUp ==
    ASSUME NEW n \in Nat, NEW S, 0 \in S, \A k \in 0..(n - 1) : k \in S => k + 1 \in S
    PROVE  0..n \subseteq S
  <1> DEFINE B == {s \in SUBSET (1..n) : \E k \in 0..n : s = 1..k /\ k \notin S}
  <1>1. SUFFICES ASSUME NEW m \in 0..n, m \notin S PROVE FALSE
    OBVIOUS
  <1>2. 1..m \in B
    BY <1>1
  <1>3. PICK s \in B : \A r \in B : r \subseteq s => r = s
    <2>1. PICK I : I = 1..n
      OBVIOUS
    <2>2. IsFiniteSet(I)
      <3>1. 1 \in Int /\ n \in Int
        OBVIOUS
      <3>2. QED
        BY <2>1, <3>1, FS_Interval
    <2>3. B \subseteq SUBSET I /\ B # {}
      BY <1>2, <2>1
    <2> HIDE DEF B
    <2>4. QED
      BY <2>2, <2>3, SmallestSubset
  <1>4. PICK k \in 0..n : s = 1..k /\ k \notin S
    BY <1>3
  <1>5. k - 1 \in 0..(n - 1) /\ (k - 1) + 1 = k
    BY <1>4
  <1>6. k - 1 \notin S
    BY <1>4, <1>5
  <1>7. 1..(k - 1) \in B
    <2>1. 1..(k - 1) \in SUBSET (1..n) /\ k - 1 \in 0..n
      BY <1>5
    <2>2. QED
      BY <1>6, <2>1
  <1>8. 1..(k - 1) \subseteq s /\ k \in s /\ k \notin 1..(k - 1)
    BY <1>4, <1>5
  <1>9. QED
    BY <1>3, <1>7, <1>8

\* An element of a set that is not empty.
LEMMA SomeIsElement == ASSUME NEW s, s # {} PROVE Some(s) \in s
  BY DEF Some

\* The value of an adding function at one subset.
LEMMA AddsAt ==
    ASSUME NEW f, NEW S, NEW g, Adds(g, f, S), NEW s \in SUBSET S
    PROVE  g[s] = IF s = {} THEN 0 ELSE f[Some(s)] + g[s \ {Some(s)}]
  BY DEF Adds

\* There is at most one way to add up a finite set.
LEMMA AddsUnique ==
    ASSUME NEW f, NEW S, NEW T, NEW g, NEW h, Adds(g, f, S), Adds(h, f, T),
           NEW U, IsFiniteSet(U), U \subseteq S, U \subseteq T
    PROVE  g[U] = h[U]
  <1> DEFINE B == {s \in SUBSET U : g[s] # h[s]}
  <1>1. SUFFICES ASSUME B # {} PROVE FALSE
    OBVIOUS
  <1>2. PICK s \in B : \A r \in B : r \subseteq s => r = s
    <2>1. B \subseteq SUBSET U
      OBVIOUS
    <2> HIDE DEF B
    <2>2. QED
      BY <1>1, <2>1, SmallestSubset
  <1>3. s \in SUBSET S /\ s \in SUBSET T /\ s \in SUBSET U /\ g[s] # h[s]
    BY <1>2
  <1>4. /\ g[s] = IF s = {} THEN 0 ELSE f[Some(s)] + g[s \ {Some(s)}]
        /\ h[s] = IF s = {} THEN 0 ELSE f[Some(s)] + h[s \ {Some(s)}]
    BY <1>3, AddsAt
  <1>5. s # {}
    BY <1>3, <1>4
  <1>6. Some(s) \in s
    BY <1>5, SomeIsElement
  <1>7. g[s \ {Some(s)}] = h[s \ {Some(s)}]
    <2>1. s \ {Some(s)} \in SUBSET U /\ s \ {Some(s)} # s
      BY <1>3, <1>6
    <2>2. QED
      BY <1>2, <2>1
  <1>8. QED
    BY <1>3, <1>4, <1>7

\* There is a way to add up a finite set.
LEMMA AddsExists ==
    ASSUME NEW f, NEW S, IsFiniteSet(S)
    PROVE  \E g : Adds(g, f, S)
  <1> DEFINE B == {T \in SUBSET S : ~\E g : Adds(g, f, T)}
  <1>1. SUFFICES ASSUME B # {} PROVE FALSE
    OBVIOUS
  <1>2. PICK T \in B : \A r \in B : r \subseteq T => r = T
    <2>1. B \subseteq SUBSET S
      OBVIOUS
    <2> HIDE DEF B
    <2>2. QED
      BY <1>1, <2>1, SmallestSubset
  <1>3. T \in SUBSET S /\ ~\E g : Adds(g, f, T)
    BY <1>2
  <1> DEFINE G(s) == CHOOSE g : Adds(g, f, s)
             x == Some(T)
             h == [s \in SUBSET T |-> IF s = {} THEN 0
                                      ELSE IF s = T THEN f[x] + G(T \ {x})[T \ {x}]
                                      ELSE G(s)[s]]
  <1>4. ASSUME NEW s \in SUBSET T, s # T
        PROVE  Adds(G(s), f, s)
    <2>1. s \in SUBSET S /\ s \notin B
      BY <1>2, <1>3, <1>4
    <2>2. \E g : Adds(g, f, s)
      BY <2>1
    <2>3. QED
      BY <2>2
  <1>5. ASSUME NEW s \in SUBSET T, s # T
        PROVE  h[s] = G(s)[s]
    <2>1. CASE s = {}
      <3>1. G(s)[s] = 0
        BY <1>4, <1>5, <2>1, AddsAt
      <3>2. QED
        BY <2>1, <3>1
    <2>2. CASE s # {}
      BY <1>5, <2>2
    <2>3. QED
      BY <2>1, <2>2
  <1>6. ASSUME NEW s \in SUBSET T
        PROVE  h[s] = IF s = {} THEN 0 ELSE f[Some(s)] + h[s \ {Some(s)}]
    <2>1. CASE s = {}
      BY <2>1
    <2>2. CASE s # {}
      <3>1. Some(s) \in s
        BY <2>2, SomeIsElement
      <3>2. s \ {Some(s)} \in SUBSET T /\ s \ {Some(s)} # T
        BY <3>1
      <3>3. h[s \ {Some(s)}] = G(s \ {Some(s)})[s \ {Some(s)}]
        BY <1>5, <3>2
      <3>4. CASE s = T
        <4>1. h[s] = f[Some(s)] + G(s \ {Some(s)})[s \ {Some(s)}]
          BY <2>2, <3>4
        <4>2. QED
          BY <2>2, <3>3, <4>1
      <3>5. CASE s # T
        <4>1. h[s] = G(s)[s]
          BY <1>5, <3>5
        <4>2. Adds(G(s), f, s) /\ Adds(G(s \ {Some(s)}), f, s \ {Some(s)})
          BY <1>4, <3>2, <3>5
        <4>3. IsFiniteSet(s \ {Some(s)})
          BY <1>3, FS_Subset
        <4> HIDE DEF G, h
        <4>4. G(s)[s] = f[Some(s)] + G(s)[s \ {Some(s)}]
          BY <2>2, <4>2, AddsAt
        <4>5. G(s)[s \ {Some(s)}] = G(s \ {Some(s)})[s \ {Some(s)}]
          BY <4>2, <4>3, AddsUnique
        <4>6. QED
          BY <2>2, <3>3, <4>1, <4>4, <4>5
      <3>6. QED
        BY <3>4, <3>5
    <2>3. QED
      BY <2>1, <2>2
  <1>7. Adds(h, f, T)
    <2>1. h = [s \in SUBSET T |-> h[s]]
      OBVIOUS
    <2> HIDE DEF h
    <2>2. QED
      BY <1>6, <2>1 DEF Adds
  <1>8. QED
    BY <1>3, <1>7

-----------------------------------------------------------------------------
(* Sums. *)

\* A sum is what the adding function says of the whole set.
LEMMA TotalIsAdded ==
    ASSUME NEW f, NEW S, IsFiniteSet(S)
    PROVE  \E g : Adds(g, f, S) /\ Total(f, S) = g[S]
  <1>1. Total(f, S) = (CHOOSE g : Adds(g, f, S))[S]
    BY DEF Total, FSets!MapThenSumSet, FSets!MapThenFoldSet, Adds, Some
  <1>2. Adds((CHOOSE g : Adds(g, f, S)), f, S)
    BY AddsExists
  <1>3. QED
    BY <1>1, <1>2

\* The sum of nothing.
LEMMA TotalEmpty == ASSUME NEW f PROVE Total(f, {}) = 0
  <1>1. PICK g : Adds(g, f, {}) /\ Total(f, {}) = g[{}]
    BY TotalIsAdded, FS_EmptySet
  <1>2. QED
    BY <1>1, AddsAt

\* The element that is added last.
LEMMA TotalSome ==
    ASSUME NEW f, NEW S, IsFiniteSet(S), S # {}
    PROVE  Total(f, S) = f[Some(S)] + Total(f, S \ {Some(S)})
  <1>1. IsFiniteSet(S \ {Some(S)})
    BY FS_RemoveElement
  <1>2. PICK g : Adds(g, f, S) /\ Total(f, S) = g[S]
    BY TotalIsAdded
  <1>3. PICK h : Adds(h, f, S \ {Some(S)}) /\ Total(f, S \ {Some(S)}) = h[S \ {Some(S)}]
    BY <1>1, TotalIsAdded
  <1>4. g[S] = f[Some(S)] + g[S \ {Some(S)}]
    BY <1>2, AddsAt
  <1>5. g[S \ {Some(S)}] = h[S \ {Some(S)}]
    BY <1>1, <1>2, <1>3, AddsUnique
  <1>6. QED
    BY <1>2, <1>3, <1>4, <1>5

\* A sum of integers is one.
LEMMA TotalType ==
    ASSUME NEW f, NEW S, IsFiniteSet(S), \A x \in S : f[x] \in Int
    PROVE  Total(f, S) \in Int
  <1> DEFINE B == {s \in SUBSET S : Total(f, s) \notin Int}
  <1>1. SUFFICES ASSUME B # {} PROVE FALSE
    OBVIOUS
  <1>2. PICK s \in B : \A r \in B : r \subseteq s => r = s
    <2>1. B \subseteq SUBSET S
      OBVIOUS
    <2> HIDE DEF B
    <2>2. QED
      BY <1>1, <2>1, SmallestSubset
  <1>3. s \in SUBSET S /\ Total(f, s) \notin Int /\ IsFiniteSet(s)
    BY <1>2, FS_Subset
  <1>4. s # {}
    BY <1>3, TotalEmpty
  <1>5. Some(s) \in s
    BY <1>4, SomeIsElement
  <1>6. Total(f, s \ {Some(s)}) \in Int
    <2>1. s \ {Some(s)} \in SUBSET S /\ s \ {Some(s)} # s /\ s \ {Some(s)} \subseteq s
      BY <1>3, <1>5
    <2>2. QED
      BY <1>2, <2>1
  <1>7. f[Some(s)] \in Int
    BY <1>3, <1>5
  <1>8. Total(f, s) \in Int
    BY <1>3, <1>4, <1>6, <1>7, TotalSome
  <1>9. QED
    BY <1>3, <1>8

\* Any element may be taken out of the sum: the order of adding does not matter.
LEMMA TotalWithout ==
    ASSUME NEW f, NEW S, IsFiniteSet(S), \A x \in S : f[x] \in Int, NEW y \in S
    PROVE  Total(f, S) = f[y] + Total(f, S \ {y})
  <1> DEFINE B == {s \in SUBSET S : \E z \in s : Total(f, s) # f[z] + Total(f, s \ {z})}
  <1>1. SUFFICES ASSUME B # {} PROVE FALSE
    OBVIOUS
  <1>2. PICK s \in B : \A r \in B : r \subseteq s => r = s
    <2>1. B \subseteq SUBSET S
      OBVIOUS
    <2> HIDE DEF B
    <2>2. QED
      BY <1>1, <2>1, SmallestSubset
  <1>3. PICK z \in s : Total(f, s) # f[z] + Total(f, s \ {z})
    BY <1>2
  <1>4. PICK x : x = Some(s)
    OBVIOUS
  <1>5. s \in SUBSET S /\ s # {} /\ x \in s /\ IsFiniteSet(s)
    BY <1>2, <1>3, <1>4, SomeIsElement, FS_Subset
  <1>6. Total(f, s) = f[x] + Total(f, s \ {x})
    BY <1>4, <1>5, TotalSome
  <1>7. x # z
    BY <1>3, <1>6
  <1>8. ASSUME NEW r \in SUBSET s, r # s, NEW w \in r
        PROVE  Total(f, r) = f[w] + Total(f, r \ {w})
    <2>1. r \in SUBSET S /\ r \notin B
      BY <1>2, <1>5, <1>8
    <2>2. QED
      BY <2>1
  <1>9. /\ Total(f, s \ {x}) = f[z] + Total(f, (s \ {x}) \ {z})
        /\ Total(f, s \ {z}) = f[x] + Total(f, (s \ {z}) \ {x})
    BY <1>5, <1>7, <1>8
  <1>10. (s \ {x}) \ {z} = (s \ {z}) \ {x}
    OBVIOUS
  <1>11. f[x] \in Int /\ f[z] \in Int /\ Total(f, (s \ {z}) \ {x}) \in Int
    <2>1. IsFiniteSet((s \ {z}) \ {x}) /\ \A w \in (s \ {z}) \ {x} : f[w] \in Int
      BY <1>5, FS_RemoveElement
    <2>2. QED
      BY <1>5, <2>1, TotalType
  <1>12. Total(f, s) = f[z] + Total(f, s \ {z})
    <2>1. Total(f, s) = f[x] + (f[z] + Total(f, (s \ {z}) \ {x}))
      BY <1>6, <1>9, <1>10
    <2>2. Total(f, s \ {z}) = f[x] + Total(f, (s \ {z}) \ {x})
      BY <1>9
    <2>3. QED
      BY <1>11, <2>1, <2>2
  <1>13. QED
    BY <1>3, <1>12

\* One more element adds its value.
LEMMA TotalWith ==
    ASSUME NEW f, NEW S, IsFiniteSet(S), NEW y, y \notin S,
           \A x \in S \cup {y} : f[x] \in Int
    PROVE  Total(f, S \cup {y}) = Total(f, S) + f[y]
  <1>1. IsFiniteSet(S \cup {y}) /\ (S \cup {y}) \ {y} = S
    BY FS_AddElement
  <1>2. Total(f, S) \in Int /\ f[y] \in Int
    BY TotalType
  <1>3. Total(f, S \cup {y}) = f[y] + Total(f, S)
    BY <1>1, TotalWithout
  <1>4. QED
    BY <1>2, <1>3

\* Functions that agree on a set have the same sum over it.
LEMMA TotalSame ==
    ASSUME NEW f, NEW g, NEW S, IsFiniteSet(S), \A x \in S : f[x] = g[x]
    PROVE  Total(f, S) = Total(g, S)
  <1> DEFINE B == {s \in SUBSET S : Total(f, s) # Total(g, s)}
  <1>1. SUFFICES ASSUME B # {} PROVE FALSE
    OBVIOUS
  <1>2. PICK s \in B : \A r \in B : r \subseteq s => r = s
    <2>1. B \subseteq SUBSET S
      OBVIOUS
    <2> HIDE DEF B
    <2>2. QED
      BY <1>1, <2>1, SmallestSubset
  <1>3. s \in SUBSET S /\ Total(f, s) # Total(g, s) /\ IsFiniteSet(s)
    BY <1>2, FS_Subset
  <1>4. s # {}
    BY <1>3, TotalEmpty
  <1>5. Some(s) \in s
    BY <1>4, SomeIsElement
  <1>6. Total(f, s \ {Some(s)}) = Total(g, s \ {Some(s)})
    <2>1. s \ {Some(s)} \in SUBSET S /\ s \ {Some(s)} # s
      BY <1>3, <1>5
    <2>2. QED
      BY <1>2, <2>1
  <1>7. Total(f, s) = f[Some(s)] + Total(f, s \ {Some(s)}) /\ Total(g, s) = g[Some(s)] + Total(g, s \ {Some(s)})
    BY <1>3, <1>4, TotalSome
  <1>8. QED
    BY <1>3, <1>5, <1>6, <1>7

Shifted(s) == {x + 1 : x \in s}

\* A sum does not change when its indices move up by one.
LEMMA TotalShifted ==
    ASSUME NEW f, NEW g, NEW S, IsFiniteSet(S), S \subseteq Int, IsFiniteSet(Shifted(S)),
           \A x \in S : g[x] \in Int /\ f[x + 1] = g[x]
    PROVE  Total(g, S) = Total(f, Shifted(S))
  <1> DEFINE B == {s \in SUBSET S : Total(g, s) # Total(f, Shifted(s))}
  <1>1. SUFFICES ASSUME B # {} PROVE FALSE
    OBVIOUS
  <1>2. PICK s \in B : \A r \in B : r \subseteq s => r = s
    <2>1. B \subseteq SUBSET S
      OBVIOUS
    <2>2. \A C : C \subseteq SUBSET S /\ C # {} => HasSmallest(C)
      BY Smallest
    <2> HIDE DEF B
    <2>3. HasSmallest(B)
      BY <1>1, <2>1, <2>2
    <2>4. QED
      BY <2>3 DEF HasSmallest
  <1>3. s \in SUBSET S /\ Total(g, s) # Total(f, Shifted(s)) /\ IsFiniteSet(s)
    BY <1>2, FS_Subset
  <1>4. s # {}
    <2>1. SUFFICES ASSUME s = {} PROVE FALSE
      OBVIOUS
    <2>2. Shifted(s) = {}
      BY <2>1 DEF Shifted
    <2>3. Total(g, {}) = 0 /\ Total(f, {}) = 0
      BY TotalEmpty
    <2>4. QED
      BY <1>3, <2>1, <2>2, <2>3
  <1>5. PICK y \in s : TRUE
    BY <1>4
  <1>6. PICK r : r = s \ {y}
    OBVIOUS
  <1>7. Total(g, r) = Total(f, Shifted(r))
    <2>1. r \in SUBSET S /\ r # s /\ r \subseteq s
      BY <1>3, <1>5, <1>6
    <2>2. QED
      BY <1>2, <2>1
  <1>8. Shifted(s) \ {y + 1} = Shifted(r) /\ y + 1 \in Shifted(s) /\ Shifted(s) \in SUBSET Shifted(S)
    <2>1. \A x \in s : x \in Int /\ x \in S
      BY <1>3
    <2>2. y + 1 \in Shifted(s) /\ Shifted(s) \in SUBSET Shifted(S)
      BY <1>5, <2>1 DEF Shifted
    <2>3. \A x \in s : x + 1 = y + 1 => x = y
      BY <1>5, <2>1
    <2>4. Shifted(s) \ {y + 1} \subseteq Shifted(r)
      BY <1>6, <2>3 DEF Shifted
    <2>5. Shifted(r) \subseteq Shifted(s) \ {y + 1}
      BY <1>6, <2>3 DEF Shifted
    <2>6. QED
      BY <2>2, <2>4, <2>5
  <1>9. IsFiniteSet(Shifted(s))
    BY <1>8, FS_Subset
  <1>10. \A z \in Shifted(s) : f[z] \in Int
    BY <1>3 DEF Shifted
  <1>11. Total(f, Shifted(s)) = f[y + 1] + Total(f, Shifted(s) \ {y + 1})
    <2>1. PICK T : T = Shifted(s)
      OBVIOUS
    <2>2. PICK z : z = y + 1
      OBVIOUS
    <2>3. IsFiniteSet(T) /\ z \in T /\ \A x \in T : f[x] \in Int
      BY <1>8, <1>9, <1>10, <2>1, <2>2
    <2>4. Total(f, T) = f[z] + Total(f, T \ {z})
      BY <2>3, TotalWithout
    <2>5. QED
      BY <2>1, <2>2, <2>4
  <1>12. Total(g, s) = g[y] + Total(g, s \ {y})
    <2>1. IsFiniteSet(s) /\ y \in s /\ \A x \in s : g[x] \in Int
      BY <1>3, <1>5
    <2> HIDE DEF B
    <2>2. QED
      BY ONLY <2>1, TotalWithout
  <1>13. QED
    BY <1>3, <1>5, <1>6, <1>7, <1>8, <1>11, <1>12
=============================================================================
