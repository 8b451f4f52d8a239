---------------------------- MODULE SumTheorems ----------------------------
(***************************************************************************)
(* The laws of MapThenSumSet: what the sum over a finite set is when an    *)
(* element is added or removed.  The library's induction takes an operator *)
(* as a parameter; here an induction is the least counterexample, which    *)
(* WFMin yields for a set of numbers.                                      *)
(***************************************************************************)
EXTENDS Integers, FiniteSetsExt, FiniteSetTheorems, WellFoundedInduction, TLAPS

\* The sum of f[x] over the x in S.
SumOf(f, S) == MapThenSumSet(LAMBDA x : f[x], S)

Below == OpToRel(<, Nat)

LEMMA LeastNumber ==
  ASSUME NEW T \in SUBSET Nat, T # {}
  PROVE  \E n \in T : \A m \in Nat : m < n => m \notin T
<1>1. IsWellFoundedOn(Below, Nat)
  BY NatLessThanWellFounded DEF Below
<1>2. PICK n \in T : \A m \in T : ~(<<m, n>> \in Below)
  BY <1>1, WFMin
<1>3. \A m \in T : ~(m < n)
  BY <1>2 DEF Below, OpToRel
<1> QED  BY <1>3

\* The element a sum goes on with.
First(s) == CHOOSE x \in s : TRUE

LEMMA FirstIsElement ==
  ASSUME NEW s, s # {}
  PROVE  First(s) \in s
BY DEF First

\* The recursion of the sum, on the sets of D.
Recurs(g, f, D) ==
  g = [s \in D |-> IF s = {} THEN 0 ELSE f[First(s)] + g[s \ {First(s)}]]

UpTo(S, n) == {s \in SUBSET S : Cardinality(s) <= n}

LEMMA SumIsRecursion ==
  ASSUME NEW f, NEW S
  PROVE  SumOf(f, S) = (CHOOSE g : Recurs(g, f, SUBSET S))[S]
BY DEF SumOf, MapThenSumSet, MapThenFoldSet, Recurs, First

\* A set without one of its elements is smaller.
LEMMA Smaller ==
  ASSUME NEW s, IsFiniteSet(s), NEW x \in s
  PROVE  /\ Cardinality(s) \in Nat \ {0}
         /\ IsFiniteSet(s \ {x})
         /\ Cardinality(s \ {x}) = Cardinality(s) - 1 /\ Cardinality(s \ {x}) \in Nat
<1>1. Cardinality(s) \in Nat /\ Cardinality(s) # 0
  BY FS_CardinalityType, FS_EmptySet
<1>2. IsFiniteSet(s \ {x}) /\ Cardinality(s \ {x}) = Cardinality(s) - 1
  BY FS_RemoveElement
<1> QED  BY <1>1, <1>2

LEMMA RecursionUpTo ==
  ASSUME NEW f, NEW S, IsFiniteSet(S)
  PROVE  \A n \in Nat : \E g : Recurs(g, f, UpTo(S, n))
<1> DEFINE Bad == {n \in Nat : ~ \E g : Recurs(g, f, UpTo(S, n))}
<1> SUFFICES ASSUME Bad # {} PROVE FALSE
  OBVIOUS
<1>1. PICK n \in Bad : \A m \in Nat : m < n => m \notin Bad
  BY LeastNumber
<1>2. CASE n = 0
  <2> DEFINE g == [s \in UpTo(S, 0) |-> 0]
  <2>1. \A s \in UpTo(S, 0) : s = {}
    <3> SUFFICES ASSUME NEW s \in UpTo(S, 0), s # {} PROVE FALSE
      OBVIOUS
    <3>1. s \in SUBSET S /\ Cardinality(s) <= 0
      BY DEF UpTo
    <3>2. IsFiniteSet(s) /\ First(s) \in s
      BY <3>1, FS_Subset, FirstIsElement
    <3>3. Cardinality(s) \in Nat \ {0}
      BY <3>2, Smaller
    <3> QED  BY <3>1, <3>3
  <2>2. Recurs(g, f, UpTo(S, 0))
    BY <2>1 DEF Recurs
  <2> QED  BY <1>2, <2>2
<1>3. CASE n # 0
  <2>1. n - 1 \in Nat /\ n - 1 \notin Bad
    BY <1>1, <1>3
  <2>2. PICK g : Recurs(g, f, UpTo(S, n - 1))
    BY <2>1
  <2> DEFINE h == [s \in UpTo(S, n) |-> IF s = {} THEN 0 ELSE f[First(s)] + g[s \ {First(s)}]]
  <2>3. ASSUME NEW s \in UpTo(S, n), s # {}
        PROVE  s \ {First(s)} \in UpTo(S, n - 1)
    <3>1. s \in SUBSET S /\ Cardinality(s) <= n
      BY DEF UpTo
    <3>2. IsFiniteSet(s) /\ First(s) \in s
      BY <2>3, <3>1, FS_Subset, FirstIsElement
    <3>3. Cardinality(s) \in Nat /\ Cardinality(s \ {First(s)}) = Cardinality(s) - 1
      BY <3>2, Smaller
    <3> QED  BY <3>1, <3>3 DEF UpTo
  <2>4. \A t \in UpTo(S, n - 1) : t \in UpTo(S, n)
    <3> SUFFICES ASSUME NEW t \in UpTo(S, n - 1) PROVE t \in UpTo(S, n)
      OBVIOUS
    <3>1. IsFiniteSet(t)
      BY FS_Subset DEF UpTo
    <3>2. Cardinality(t) \in Nat
      BY <3>1, FS_CardinalityType
    <3> QED  BY <3>2 DEF UpTo
  <2>5. \A t \in UpTo(S, n - 1) : h[t] = g[t]
    BY <2>2, <2>4 DEF Recurs
  <2>6. \A s \in UpTo(S, n) : s # {} => h[s \ {First(s)}] = g[s \ {First(s)}]
    BY <2>3, <2>5
  <2>7. h = [s \in UpTo(S, n) |-> IF s = {} THEN 0 ELSE f[First(s)] + h[s \ {First(s)}]]
    BY <2>6
  <2>8. Recurs(h, f, UpTo(S, n))
    BY <2>7 DEF Recurs
  <2> QED  BY <2>8
<1> QED  BY <1>2, <1>3

LEMMA RecursionExists ==
  ASSUME NEW f, NEW S, IsFiniteSet(S)
  PROVE  Recurs(CHOOSE g : Recurs(g, f, SUBSET S), f, SUBSET S)
<1>1. Cardinality(S) \in Nat
  BY FS_CardinalityType
<1>2. \A s \in SUBSET S : Cardinality(s) <= Cardinality(S)
  BY FS_Subset
<1>3. UpTo(S, Cardinality(S)) = SUBSET S
  BY <1>2 DEF UpTo
<1>4. \E g : Recurs(g, f, UpTo(S, Cardinality(S)))
  <2>1. \A n \in Nat : \E g : Recurs(g, f, UpTo(S, n))
    BY RecursionUpTo
  <2> QED  BY <1>1, <2>1
<1> QED  BY <1>3, <1>4

\* The sum over nothing is zero, and a sum goes on with its first element: the recursions
\* behind the two sums are the same where both are defined.
LEMMA SumStep ==
  ASSUME NEW f, NEW S, IsFiniteSet(S)
  PROVE  SumOf(f, S) = IF S = {} THEN 0 ELSE f[First(S)] + SumOf(f, S \ {First(S)})
<1> DEFINE T == S \ {First(S)}
           g == CHOOSE i : Recurs(i, f, SUBSET S)
           h == CHOOSE i : Recurs(i, f, SUBSET T)
<1>1. IsFiniteSet(T) /\ T \in SUBSET S
  BY FS_Subset
<1>2. Recurs(g, f, SUBSET S) /\ Recurs(h, f, SUBSET T)
  BY <1>1, RecursionExists
<1>3. SumOf(f, S) = g[S] /\ SumOf(f, T) = h[T]
  BY SumIsRecursion
<1> HIDE DEF T, g, h
<1>4. g[T] = h[T]
  <2> DEFINE Bad == {n \in Nat : \E s \in SUBSET T : Cardinality(s) = n /\ g[s] # h[s]}
  <2> SUFFICES ASSUME Bad # {} PROVE FALSE
    BY <1>1, FS_CardinalityType
  <2>1. PICK n \in Bad : \A m \in Nat : m < n => m \notin Bad
    BY LeastNumber
  <2>2. PICK s \in SUBSET T : Cardinality(s) = n /\ g[s] # h[s]
    OBVIOUS
  <2>3. s # {}
    BY <1>1, <1>2, <2>2 DEF Recurs
  <2> DEFINE t == s \ {First(s)}
  <2>4. IsFiniteSet(s) /\ First(s) \in s
    BY <1>1, <2>3, FS_Subset, FirstIsElement
  <2>5. Cardinality(t) = n - 1 /\ Cardinality(t) \in Nat
    BY <2>2, <2>4, Smaller
  <2>6. Cardinality(t) \notin Bad
    <3>1. Cardinality(t) < n
      BY <2>5
    <3> HIDE DEF Bad, t
    <3> QED  BY <2>1, <2>5, <3>1
  <2>7. g[t] = h[t]
    BY <2>5, <2>6
  <2>8. g[s] = f[First(s)] + g[t] /\ h[s] = f[First(s)] + h[t]
    BY <1>1, <1>2, <2>3 DEF Recurs
  <2> QED  BY <2>2, <2>7, <2>8
<1>5. g[S] = IF S = {} THEN 0 ELSE f[First(S)] + g[T]
  BY <1>2 DEF Recurs, T
<1> QED  BY <1>3, <1>4, <1>5 DEF T

LEMMA SumEmpty == \A f : SumOf(f, {}) = 0
BY SumStep, FS_EmptySet

LEMMA SumInt ==
  ASSUME NEW f, NEW S, IsFiniteSet(S), \A x \in S : f[x] \in Int
  PROVE  SumOf(f, S) \in Int
<1> DEFINE Bad == {n \in Nat : \E s \in SUBSET S : Cardinality(s) = n /\ SumOf(f, s) \notin Int}
<1>0. Cardinality(S) \in Nat
  BY FS_CardinalityType
<1> SUFFICES ASSUME Bad # {} PROVE FALSE
  BY <1>0
<1>1. PICK n \in Bad : \A m \in Nat : m < n => m \notin Bad
  BY LeastNumber
<1>2. PICK s \in SUBSET S : Cardinality(s) = n /\ SumOf(f, s) \notin Int
  OBVIOUS
<1>3. IsFiniteSet(s)
  BY FS_Subset
<1>4. s # {} /\ SumOf(f, s) = f[First(s)] + SumOf(f, s \ {First(s)})
  BY <1>2, <1>3, SumStep
<1>5. First(s) \in s
  BY <1>4, FirstIsElement
<1>6. Cardinality(s \ {First(s)}) = n - 1 /\ Cardinality(s \ {First(s)}) \in Nat
  BY <1>2, <1>3, <1>5, Smaller
<1>7. SumOf(f, s \ {First(s)}) \in Int
  BY <1>1, <1>6
<1> QED  BY <1>2, <1>4, <1>5, <1>7

\* The order of the elements does not matter.
LEMMA SumRemove ==
  ASSUME NEW f, NEW S, IsFiniteSet(S), \A x \in S : f[x] \in Int, NEW x \in S
  PROVE  SumOf(f, S) = f[x] + SumOf(f, S \ {x})
<1> DEFINE Splits(s, y) == SumOf(f, s) = f[y] + SumOf(f, s \ {y})
           Bad == {n \in Nat : \E s \in SUBSET S : Cardinality(s) = n /\ \E y \in s : ~Splits(s, y)}
<1>0. Cardinality(S) \in Nat
  BY FS_CardinalityType
<1> SUFFICES ASSUME Bad # {} PROVE FALSE
  BY <1>0
<1>1. PICK n \in Bad : \A m \in Nat : m < n => m \notin Bad
  BY LeastNumber
<1>2. PICK s \in SUBSET S : Cardinality(s) = n /\ \E y \in s : ~Splits(s, y)
  OBVIOUS
<1>3. PICK y \in s : ~Splits(s, y)
  BY <1>2
<1> DEFINE c == First(s)
<1>4. IsFiniteSet(s) /\ c \in s
  BY <1>3, FS_Subset, FirstIsElement
<1>5. Splits(s, c)
  BY <1>3, <1>4, SumStep
<1>6. y # c
  BY <1>3, <1>5
<1>7. ASSUME NEW z \in s
      PROVE  \A u \in s \ {z} : Splits(s \ {z}, u)
  <2>1. Cardinality(s \ {z}) = n - 1 /\ Cardinality(s \ {z}) \in Nat
    BY <1>2, <1>4, Smaller
  <2>2. Cardinality(s \ {z}) \notin Bad
    <3>1. Cardinality(s \ {z}) < n
      BY <2>1
    <3> HIDE DEF Bad
    <3> QED  BY <1>1, <2>1, <3>1
  <2> QED  BY <2>1, <2>2
<1>8. Splits(s \ {c}, y) /\ Splits(s \ {y}, c)
  BY <1>4, <1>6, <1>7
<1>9. (s \ {c}) \ {y} = (s \ {y}) \ {c}
  OBVIOUS
<1>10. IsFiniteSet((s \ {c}) \ {y}) /\ SumOf(f, (s \ {c}) \ {y}) \in Int
  BY FS_Subset, SumInt
<1>11. f[c] \in Int /\ f[y] \in Int
  BY <1>4
<1> HIDE DEF c
<1> QED  BY <1>3, <1>5, <1>8, <1>9, <1>10, <1>11

LEMMA SumAdd ==
  ASSUME NEW f, NEW S, IsFiniteSet(S), NEW x, x \notin S,
         \A y \in S \cup {x} : f[y] \in Int
  PROVE  SumOf(f, S \cup {x}) = f[x] + SumOf(f, S)
<1>1. IsFiniteSet(S \cup {x}) /\ (S \cup {x}) \ {x} = S
  BY FS_AddElement
<1> QED  BY <1>1, SumRemove

LEMMA SumNat ==
  ASSUME NEW f, NEW S, IsFiniteSet(S), \A x \in S : f[x] \in Nat
  PROVE  SumOf(f, S) \in Nat
<1> DEFINE Bad == {n \in Nat : \E s \in SUBSET S : Cardinality(s) = n /\ SumOf(f, s) \notin Nat}
<1>0. Cardinality(S) \in Nat
  BY FS_CardinalityType
<1> SUFFICES ASSUME Bad # {} PROVE FALSE
  BY <1>0
<1>1. PICK n \in Bad : \A m \in Nat : m < n => m \notin Bad
  BY LeastNumber
<1>2. PICK s \in SUBSET S : Cardinality(s) = n /\ SumOf(f, s) \notin Nat
  OBVIOUS
<1>3. IsFiniteSet(s)
  BY FS_Subset
<1>4. s # {} /\ SumOf(f, s) = f[First(s)] + SumOf(f, s \ {First(s)})
  BY <1>2, <1>3, SumStep
<1>5. First(s) \in s
  BY <1>4, FirstIsElement
<1>6. Cardinality(s \ {First(s)}) = n - 1 /\ Cardinality(s \ {First(s)}) \in Nat
  BY <1>2, <1>3, <1>5, Smaller
<1>7. SumOf(f, s \ {First(s)}) \in Nat
  BY <1>1, <1>6
<1> QED  BY <1>2, <1>4, <1>5, <1>7

\* A sum depends on nothing but its terms.
LEMMA SumSame ==
  ASSUME NEW f, NEW g, NEW S, IsFiniteSet(S), \A x \in S : f[x] = g[x]
  PROVE  SumOf(f, S) = SumOf(g, S)
<1> DEFINE Bad == {n \in Nat : \E s \in SUBSET S : Cardinality(s) = n /\ SumOf(f, s) # SumOf(g, s)}
<1>0. Cardinality(S) \in Nat
  BY FS_CardinalityType
<1> SUFFICES ASSUME Bad # {} PROVE FALSE
  BY <1>0
<1>1. PICK n \in Bad : \A m \in Nat : m < n => m \notin Bad
  BY LeastNumber
<1>2. PICK s \in SUBSET S : Cardinality(s) = n /\ SumOf(f, s) # SumOf(g, s)
  OBVIOUS
<1>3. IsFiniteSet(s)
  BY FS_Subset
<1>4. /\ s # {} /\ SumOf(f, s) = f[First(s)] + SumOf(f, s \ {First(s)})
      /\ SumOf(g, s) = g[First(s)] + SumOf(g, s \ {First(s)})
  BY <1>2, <1>3, SumStep
<1>5. First(s) \in s
  BY <1>4, FirstIsElement
<1>6. Cardinality(s \ {First(s)}) = n - 1 /\ Cardinality(s \ {First(s)}) \in Nat
  BY <1>2, <1>3, <1>5, Smaller
<1>7. SumOf(f, s \ {First(s)}) = SumOf(g, s \ {First(s)})
  BY <1>1, <1>6
<1> QED  BY <1>2, <1>4, <1>5, <1>7

\* One term changes.
LEMMA SumChange ==
  ASSUME NEW f, NEW g, NEW S, IsFiniteSet(S), NEW x \in S,
         \A y \in S : f[y] \in Int /\ g[y] \in Int, \A y \in S \ {x} : f[y] = g[y]
  PROVE  SumOf(g, S) = SumOf(f, S) - f[x] + g[x]
<1>1. SumOf(f, S) = f[x] + SumOf(f, S \ {x}) /\ SumOf(g, S) = g[x] + SumOf(g, S \ {x})
  BY SumRemove
<1>2. IsFiniteSet(S \ {x})
  BY FS_Subset
<1>3. SumOf(f, S \ {x}) = SumOf(g, S \ {x}) /\ SumOf(f, S \ {x}) \in Int
  BY <1>2, SumSame, SumInt
<1> QED  BY <1>1, <1>3

LEMMA SumOne ==
  ASSUME NEW f, NEW x, f[x] \in Int
  PROVE  SumOf(f, {x}) = f[x]
<1>1. IsFiniteSet({x}) /\ {x} \ {x} = {}
  BY FS_Singleton
<1>2. SumOf(f, {x}) = f[x] + SumOf(f, {})
  BY <1>1, SumRemove
<1> QED  BY <1>2, SumEmpty
=============================================================================
