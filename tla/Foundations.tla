----------------------------- MODULE Foundations -----------------------------
(***************************************************************************)
(* What the proofs of several modules rest on: induction over numbers and  *)
(* over finite sets, stated with sets in the place of predicates; the sums *)
(* (SumFunctionOnSet) that Cluster takes over sets of tasks, subgraphs and *)
(* jobs; and the waiting line of a device with slots.                      *)
(***************************************************************************)
EXTENDS Integers, Sequences, FiniteSetTheorems, WellFoundedInduction, Functions, TLAPS

LessThan == {p \in Nat \X Nat : p[1] < p[2]}

LEMMA LessThanWellFounded == IsWellFoundedOn(LessThan, Nat)
<1>1. OpToRel(<, Nat) = LessThan
  BY DEF OpToRel, LessThan
<1> QED BY <1>1, NatLessThanWellFounded

(* What holds of 0 and of the successor of each number of which it holds.  *)
LEMMA SetInduction ==
  ASSUME NEW S, 0 \in S, \A n \in Nat : n \in S => n + 1 \in S
  PROVE  Nat \subseteq S
<1>1. SUFFICES ASSUME Nat \ S # {} PROVE FALSE
  OBVIOUS
<1>2. PICK m \in Nat \ S : \A k \in Nat \ S : <<k, m>> \notin LessThan
  <2>1. Nat \ S \subseteq Nat
    OBVIOUS
  <2> QED BY <1>1, <2>1, LessThanWellFounded, WFMin
<1>3. m # 0 /\ m - 1 \in Nat /\ m - 1 < m
  OBVIOUS
<1>4. m - 1 \in S
  BY <1>2, <1>3 DEF LessThan
<1> QED BY <1>3, <1>4

(* A set of numbers that is not empty has a smallest element.              *)
LEMMA LeastElement ==
  ASSUME NEW T \in SUBSET Nat, T # {}
  PROVE  \E m \in T : \A k \in T : m <= k
<1>1. PICK m \in T : \A k \in T : <<k, m>> \notin LessThan
  BY LessThanWellFounded, WFMin
<1>2. ASSUME NEW k \in T PROVE m <= k
  <2>1. k \in Nat /\ m \in Nat /\ <<k, m>> \notin LessThan
    BY <1>1
  <2> QED BY <2>1 DEF LessThan
<1> QED BY <1>2

(* The subsets of D of which something holds are all of them, if it holds  *)
(* of each set whose smaller subsets it holds of.                          *)
LEMMA SubsetInduction ==
  ASSUME NEW D, IsFiniteSet(D), NEW P,
         \A T \in SUBSET D : (\A U \in SUBSET T : U # T => U \in P) => T \in P
  PROVE  SUBSET D \subseteq P
<1> DEFINE N == {n \in Nat : \A T \in SUBSET D : Cardinality(T) <= n => T \in P}
<1>1. \A T \in SUBSET D : IsFiniteSet(T) /\ Cardinality(T) \in Nat
  BY FS_Subset, FS_CardinalityType
<1>2. \A T \in SUBSET D : \A U \in SUBSET T :
        U # T => U \in SUBSET D /\ Cardinality(U) < Cardinality(T)
  BY <1>1, FS_Subset
<1>3. 0 \in N
  <2>1. ASSUME NEW T \in SUBSET D, Cardinality(T) <= 0 PROVE T \in P
    BY <1>1, <1>2, <2>1
  <2> QED BY <2>1
<1>4. ASSUME NEW n \in Nat, n \in N PROVE n + 1 \in N
  <2>1. ASSUME NEW T \in SUBSET D, Cardinality(T) <= n + 1 PROVE T \in P
    <3>1. ASSUME NEW U \in SUBSET T, U # T PROVE U \in P
      <4>1. Cardinality(U) <= n /\ U \in SUBSET D
        BY <1>1, <1>2, <2>1, <3>1
      <4> QED BY <4>1, <1>4
    <3> QED BY <3>1
  <2> QED BY <2>1
<1>5. Nat \subseteq N
  <2> HIDE DEF N
  <2> QED BY <1>3, <1>4, SetInduction
<1> QED BY <1>1, <1>5

-----------------------------------------------------------------------------
(* The function whose value the sum is.                                    *)
AnElement(s) == CHOOSE x \in s : TRUE

IsSum(g, f, S) ==
  g = [s \in SUBSET S |->
         IF s = {} THEN 0 ELSE f[AnElement(s)] + g[s \ {AnElement(s)}]]

LEMMA SumUnfold ==
  ASSUME NEW f, NEW S
  PROVE  SumFunctionOnSet(f, S) = (CHOOSE g : IsSum(g, f, S))[S]
BY Zenon DEF SumFunctionOnSet, FoldFunctionOnSet, MapThenFoldSet, IsSum, AnElement

LEMMA AnElementIn == \A s : s # {} => AnElement(s) \in s
BY DEF AnElement

LEMMA SumUnique ==
  ASSUME NEW f, NEW A, NEW B, NEW g, NEW h, IsSum(g, f, A), IsSum(h, f, B),
         NEW T \in SUBSET (A \cap B), IsFiniteSet(T)
  PROVE  g[T] = h[T]
<1> DEFINE P == {s \in SUBSET T : g[s] = h[s]}
<1>1. ASSUME NEW s \in SUBSET T, \A u \in SUBSET s : u # s => u \in P
      PROVE  s \in P
  <2>1. CASE s = {}
    BY <2>1 DEF IsSum
  <2>2. CASE s # {}
    <3>1. AnElement(s) \in s
      BY <2>2, AnElementIn
    <3>2. s \ {AnElement(s)} \in P
      BY <3>1, <1>1
    <3>3. g[s] = f[AnElement(s)] + g[s \ {AnElement(s)}]
      <4>1. s \in SUBSET A
        OBVIOUS
      <4> QED BY <4>1, <2>2 DEF IsSum
    <3>4. h[s] = f[AnElement(s)] + h[s \ {AnElement(s)}]
      <4>1. s \in SUBSET B
        OBVIOUS
      <4> QED BY <4>1, <2>2 DEF IsSum
    <3> QED BY <3>2, <3>3, <3>4
  <2> QED BY <2>1, <2>2
<1>2. SUBSET T \subseteq P
  <2> HIDE DEF P
  <2> QED BY <1>1, SubsetInduction
<1>3. T \in SUBSET T
  OBVIOUS
<1> QED BY <1>2, <1>3

(* The recursion of the sum is well defined on every finite set.           *)
LEMMA SumExists ==
  ASSUME NEW f, NEW D, IsFiniteSet(D)
  PROVE  \E g : IsSum(g, f, D)
<1> DEFINE P == {s \in SUBSET D : \E g : IsSum(g, f, s)}
           Value(t) == (CHOOSE g : IsSum(g, f, t))[t]
<1>1. ASSUME NEW s \in SUBSET D, \A u \in SUBSET s : u # s => u \in P
      PROVE  s \in P
  <2> DEFINE G == [t \in SUBSET s |->
                     IF t = {} THEN 0
                     ELSE f[AnElement(t)] + Value(t \ {AnElement(t)})]
  <2>1. ASSUME NEW t \in SUBSET s, t # s PROVE G[t] = Value(t)
    <3> DEFINE g == CHOOSE g : IsSum(g, f, t)
    <3>1. IsSum(g, f, t)
      BY <2>1, <1>1
    <3> HIDE DEF g
    <3>2. g[t] = IF t = {} THEN 0 ELSE f[AnElement(t)] + g[t \ {AnElement(t)}]
      <4>1. t \in SUBSET t
        OBVIOUS
      <4> QED BY <3>1, <4>1 DEF IsSum
    <3>3. ASSUME t # {} PROVE g[t \ {AnElement(t)}] = Value(t \ {AnElement(t)})
      <4> DEFINE u == t \ {AnElement(t)}
                 h == CHOOSE g1 : IsSum(g1, f, u)
      <4>1. u \in SUBSET s /\ u # s
        BY <3>3, AnElementIn
      <4>2. IsSum(h, f, u)
        BY <4>1, <1>1
      <4>3. IsFiniteSet(u) /\ u \in SUBSET (t \cap u)
        BY <4>1, FS_Subset
      <4> HIDE DEF h, u
      <4>4. g[u] = h[u]
        BY <3>1, <4>2, <4>3, SumUnique
      <4> QED BY <4>4 DEF h, u
    <3>4. g[t] = Value(t)
      BY DEF g
    <3> QED BY <3>2, <3>3, <3>4
  <2>2. ASSUME NEW t \in SUBSET s, t # {}
        PROVE  G[t \ {AnElement(t)}] = Value(t \ {AnElement(t)})
    <3>1. t \ {AnElement(t)} \in SUBSET s /\ t \ {AnElement(t)} # s
      BY <2>2, AnElementIn
    <3> HIDE DEF G, Value
    <3> QED BY <3>1, <2>1
  <2>3. IsSum(G, f, s)
    <3> HIDE DEF Value
    <3> QED BY <2>2 DEF IsSum
  <2> QED BY <2>3
<1>2. SUBSET D \subseteq P
  <2> HIDE DEF P
  <2> QED BY <1>1, SubsetInduction
<1> QED BY <1>2

-----------------------------------------------------------------------------
(* What the sums are, without the function.                                *)

LEMMA SumStep ==
  ASSUME NEW f, NEW S, IsFiniteSet(S)
  PROVE  SumFunctionOnSet(f, S) =
           IF S = {} THEN 0
           ELSE f[AnElement(S)] + SumFunctionOnSet(f, S \ {AnElement(S)})
<1> DEFINE R == S \ {AnElement(S)}
           g == CHOOSE g1 : IsSum(g1, f, S)
           h == CHOOSE h1 : IsSum(h1, f, R)
<1>1. IsFiniteSet(R) /\ R \in SUBSET S /\ R \in SUBSET (S \cap R)
  BY FS_Subset
<1>2. IsSum(g, f, S) /\ IsSum(h, f, R)
  BY <1>1, SumExists
<1>3. SumFunctionOnSet(f, S) = g[S] /\ SumFunctionOnSet(f, R) = h[R]
  BY SumUnfold
<1> HIDE DEF g, h
<1>4. g[S] = IF S = {} THEN 0 ELSE f[AnElement(S)] + g[R]
  <2>1. S \in SUBSET S
    OBVIOUS
  <2> QED BY <1>2, <2>1 DEF IsSum
<1>5. g[R] = h[R]
  <2> HIDE DEF R
  <2> QED BY <1>1, <1>2, SumUnique
<1> QED BY <1>3, <1>4, <1>5

LEMMA SumEmpty == ASSUME NEW f PROVE SumFunctionOnSet(f, {}) = 0
BY SumStep, FS_EmptySet

LEMMA SumType ==
  ASSUME NEW f, NEW S, IsFiniteSet(S), \A x \in S : f[x] \in Int
  PROVE  SumFunctionOnSet(f, S) \in Int
<1> DEFINE P == {s \in SUBSET S : SumFunctionOnSet(f, s) \in Int}
<1>1. ASSUME NEW s \in SUBSET S, \A u \in SUBSET s : u # s => u \in P
      PROVE  s \in P
  <2>1. IsFiniteSet(s)
    BY FS_Subset
  <2>2. CASE s = {}
    BY <2>2, SumEmpty
  <2>3. CASE s # {}
    <3>1. AnElement(s) \in s
      BY <2>3, AnElementIn
    <3>2. s \ {AnElement(s)} \in P /\ f[AnElement(s)] \in Int
      BY <3>1, <1>1
    <3> QED BY <2>1, <2>3, <3>2, SumStep
  <2> QED BY <2>2, <2>3
<1>2. SUBSET S \subseteq P
  <2> HIDE DEF P
  <2> QED BY <1>1, SubsetInduction
<1> QED BY <1>2

(* The element that is taken out first makes no difference.                *)
LEMMA SumRemove ==
  ASSUME NEW f, NEW S, IsFiniteSet(S), \A y \in S : f[y] \in Int, NEW x \in S
  PROVE  SumFunctionOnSet(f, S) = f[x] + SumFunctionOnSet(f, S \ {x})
<1> DEFINE P == {s \in SUBSET S :
                   \A y \in s : SumFunctionOnSet(f, s)
                                  = f[y] + SumFunctionOnSet(f, s \ {y})}
<1>1. ASSUME NEW s \in SUBSET S, \A u \in SUBSET s : u # s => u \in P
      PROVE  s \in P
  <2> SUFFICES ASSUME NEW y \in s
               PROVE  SumFunctionOnSet(f, s) = f[y] + SumFunctionOnSet(f, s \ {y})
    OBVIOUS
  <2> DEFINE c == AnElement(s)
  <2>1. IsFiniteSet(s) /\ c \in s
    BY FS_Subset, AnElementIn
  <2>2. SumFunctionOnSet(f, s) = f[c] + SumFunctionOnSet(f, s \ {c})
    BY <2>1, SumStep
  <2> HIDE DEF c
  <2>3. CASE y # c
    <3> DEFINE r == (s \ {c}) \ {y}
    <3>1. r = (s \ {y}) \ {c} /\ IsFiniteSet(r) /\ r \in SUBSET S
      BY <2>1, FS_Subset
    <3>2. SumFunctionOnSet(f, s \ {c}) = f[y] + SumFunctionOnSet(f, r)
      <4>1. s \ {c} \in P
        BY <1>1, <2>1
      <4> QED BY <4>1, <2>3
    <3>3. SumFunctionOnSet(f, s \ {y}) = f[c] + SumFunctionOnSet(f, r)
      <4>1. s \ {y} \in P
        BY <1>1
      <4> QED BY <4>1, <2>1, <2>3, <3>1
    <3> HIDE DEF r
    <3>4. SumFunctionOnSet(f, r) \in Int /\ f[c] \in Int /\ f[y] \in Int
      BY <2>1, <3>1, SumType
    <3> QED BY <2>2, <3>2, <3>3, <3>4
  <2> QED BY <2>2, <2>3
<1>2. SUBSET S \subseteq P
  <2> HIDE DEF P
  <2> QED BY <1>1, SubsetInduction
<1>3. S \in SUBSET S
  OBVIOUS
<1> QED BY <1>2, <1>3

LEMMA SumWithout ==
  ASSUME NEW f, NEW S, IsFiniteSet(S), \A y \in S : f[y] \in Int, NEW x
  PROVE  SumFunctionOnSet(f, S)
           = SumFunctionOnSet(f, S \ {x}) + (IF x \in S THEN f[x] ELSE 0)
<1>1. IsFiniteSet(S \ {x}) /\ \A y \in S \ {x} : f[y] \in Int
  BY FS_Subset
<1>2. SumFunctionOnSet(f, S \ {x}) \in Int /\ SumFunctionOnSet(f, S) \in Int
  BY <1>1, SumType
<1>3. CASE x \in S
  BY <1>2, <1>3, SumRemove
<1>4. CASE x \notin S
  <2>1. SumFunctionOnSet(f, S \ {x}) = SumFunctionOnSet(f, S)
    <3>1. S \ {x} = S
      BY <1>4
    <3> QED BY <3>1, Zenon
  <2>2. (IF x \in S THEN f[x] ELSE 0) = 0
    BY <1>4
  <2> QED BY <1>2, <2>1, <2>2
<1> QED BY <1>3, <1>4

(* Sums over disjoint sets add up.                                         *)
LEMMA SumUnion ==
  ASSUME NEW f, NEW A, NEW B, IsFiniteSet(A), IsFiniteSet(B), A \cap B = {},
         \A x \in A \cup B : f[x] \in Int
  PROVE  SumFunctionOnSet(f, A \cup B)
           = SumFunctionOnSet(f, A) + SumFunctionOnSet(f, B)
<1> DEFINE P == {s \in SUBSET B : SumFunctionOnSet(f, A \cup s)
                    = SumFunctionOnSet(f, A) + SumFunctionOnSet(f, s)}
<1>1. ASSUME NEW s \in SUBSET B, \A u \in SUBSET s : u # s => u \in P
      PROVE  s \in P
  <2>1. IsFiniteSet(s) /\ IsFiniteSet(A \cup s) /\ SumFunctionOnSet(f, A) \in Int
    BY FS_Subset, FS_Union, SumType
  <2>2. CASE s = {}
    <3>1. A \cup s = A
      BY <2>2
    <3> QED BY <2>1, <2>2, <3>1, SumEmpty
  <2>3. ASSUME NEW x \in s PROVE s \in P
    <3>1. (A \cup s) \ {x} = A \cup (s \ {x})
      OBVIOUS
    <3>2. SumFunctionOnSet(f, A \cup s) = f[x] + SumFunctionOnSet(f, A \cup (s \ {x}))
      BY <2>1, <3>1, SumRemove
    <3>3. SumFunctionOnSet(f, s) = f[x] + SumFunctionOnSet(f, s \ {x})
      BY <2>1, SumRemove
    <3>4. s \ {x} \in P
      BY <1>1
    <3>5. IsFiniteSet(s \ {x})
      BY <2>1, FS_Subset
    <3>6. SumFunctionOnSet(f, s \ {x}) \in Int /\ f[x] \in Int
      BY <3>5, SumType
    <3> QED BY <2>1, <3>2, <3>3, <3>4, <3>6
  <2> QED BY <2>2, <2>3
<1>2. SUBSET B \subseteq P
  <2> HIDE DEF P
  <2> QED BY <1>1, SubsetInduction
<1> QED BY <1>2

(* Only the values on the set matter.                                      *)
LEMMA SumCongruence ==
  ASSUME NEW f, NEW h, NEW S, IsFiniteSet(S), \A x \in S : f[x] = h[x]
  PROVE  SumFunctionOnSet(f, S) = SumFunctionOnSet(h, S)
<1> DEFINE P == {s \in SUBSET S : SumFunctionOnSet(f, s) = SumFunctionOnSet(h, s)}
<1>1. ASSUME NEW s \in SUBSET S, \A u \in SUBSET s : u # s => u \in P
      PROVE  s \in P
  <2>1. IsFiniteSet(s)
    BY FS_Subset
  <2>2. s = {} \/ (AnElement(s) \in s /\ s \ {AnElement(s)} \in P)
    BY <1>1, AnElementIn
  <2> QED BY <2>1, <2>2, SumStep
<1>2. SUBSET S \subseteq P
  <2> HIDE DEF P
  <2> QED BY <1>1, SubsetInduction
<1> QED BY <1>2

(* A sum of numbers that are not negative bounds each of them.             *)
LEMMA SumNat ==
  ASSUME NEW f, NEW S, IsFiniteSet(S), \A x \in S : f[x] \in Nat
  PROVE  /\ SumFunctionOnSet(f, S) \in Nat
         /\ \A x \in S : f[x] <= SumFunctionOnSet(f, S)
<1> DEFINE P == {s \in SUBSET S : SumFunctionOnSet(f, s) \in Nat}
<1>1. ASSUME NEW s \in SUBSET S, \A u \in SUBSET s : u # s => u \in P
      PROVE  s \in P
  <2>1. IsFiniteSet(s)
    BY FS_Subset
  <2>2. CASE s = {}
    BY <2>2, SumEmpty
  <2>3. CASE s # {}
    <3>1. AnElement(s) \in s
      BY <2>3, AnElementIn
    <3>2. s \ {AnElement(s)} \in P /\ f[AnElement(s)] \in Nat
      BY <3>1, <1>1
    <3> QED BY <2>1, <2>3, <3>2, SumStep
  <2> QED BY <2>2, <2>3
<1>2. SUBSET S \subseteq P
  <2> HIDE DEF P
  <2> QED BY <1>1, SubsetInduction
<1>3. ASSUME NEW x \in S PROVE f[x] <= SumFunctionOnSet(f, S)
  <2>1. SumFunctionOnSet(f, S) = f[x] + SumFunctionOnSet(f, S \ {x})
    BY SumRemove
  <2>2. SumFunctionOnSet(f, S \ {x}) \in Nat
    BY <1>2
  <2> QED BY <2>1, <2>2
<1> QED BY <1>2, <1>3

LEMMA SumNotPositive ==
  ASSUME NEW f, NEW S, IsFiniteSet(S), \A x \in S : f[x] \in Int /\ f[x] <= 0
  PROVE  SumFunctionOnSet(f, S) \in Int /\ SumFunctionOnSet(f, S) <= 0
<1> DEFINE P == {s \in SUBSET S : SumFunctionOnSet(f, s) \in Int
                                    /\ SumFunctionOnSet(f, s) <= 0}
<1>1. ASSUME NEW s \in SUBSET S, \A u \in SUBSET s : u # s => u \in P
      PROVE  s \in P
  <2>1. IsFiniteSet(s)
    BY FS_Subset
  <2>2. CASE s = {}
    BY <2>2, SumEmpty
  <2>3. CASE s # {}
    <3> DEFINE a == f[AnElement(s)]
               b == SumFunctionOnSet(f, s \ {AnElement(s)})
    <3>1. AnElement(s) \in s
      BY <2>3, AnElementIn
    <3>2. a \in Int /\ a <= 0 /\ b \in Int /\ b <= 0
      BY <3>1, <1>1
    <3>3. SumFunctionOnSet(f, s) = a + b
      BY <2>1, <2>3, SumStep
    <3> HIDE DEF a, b
    <3>4. a + b \in Int /\ a + b <= 0
      BY <3>2
    <3> QED BY <3>3, <3>4
  <2> QED BY <2>2, <2>3
<1>2. SUBSET S \subseteq P
  <2> HIDE DEF P
  <2> QED BY <1>1, SubsetInduction
<1> QED BY <1>2

LEMMA SumScaled ==
  ASSUME NEW f, NEW g, NEW c \in Int, NEW S, IsFiniteSet(S),
         \A x \in S : g[x] \in Int /\ f[x] = c * g[x]
  PROVE  SumFunctionOnSet(f, S) = c * SumFunctionOnSet(g, S)
<1> DEFINE P == {s \in SUBSET S : SumFunctionOnSet(f, s) = c * SumFunctionOnSet(g, s)}
<1>1. ASSUME NEW s \in SUBSET S, \A u \in SUBSET s : u # s => u \in P
      PROVE  s \in P
  <2>1. IsFiniteSet(s)
    BY FS_Subset
  <2>2. CASE s = {}
    BY <2>2, SumEmpty
  <2>3. CASE s # {}
    <3> DEFINE r == s \ {AnElement(s)}
               a == g[AnElement(s)]
               b == SumFunctionOnSet(g, r)
    <3>1. AnElement(s) \in s /\ IsFiniteSet(r) /\ r \in SUBSET S
      BY <2>3, AnElementIn, FS_Subset
    <3>2. r \in P
      BY <3>1, <1>1
    <3>3. SumFunctionOnSet(f, s) = f[AnElement(s)] + SumFunctionOnSet(f, r)
          /\ SumFunctionOnSet(g, s) = a + b
      BY <2>1, <2>3, SumStep
    <3>4. f[AnElement(s)] = c * a /\ a \in Int /\ SumFunctionOnSet(f, r) = c * b
      BY <3>1, <3>2
    <3>5. b \in Int
      BY <3>1, SumType
    <3> HIDE DEF a, b, r
    <3>6. c * a + c * b = c * (a + b)
      BY <3>4, <3>5
    <3> QED BY <3>3, <3>4, <3>6
  <2> QED BY <2>2, <2>3
<1>2. SUBSET S \subseteq P
  <2> HIDE DEF P
  <2> QED BY <1>1, SubsetInduction
<1> QED BY <1>2

LEMMA SumShifted ==
  ASSUME NEW f, NEW g, NEW c \in Int, NEW S, IsFiniteSet(S),
         \A x \in S : g[x] \in Int /\ f[x] = g[x] + c
  PROVE  SumFunctionOnSet(f, S) = SumFunctionOnSet(g, S) + Cardinality(S) * c
<1> DEFINE P == {s \in SUBSET S : SumFunctionOnSet(f, s)
                                    = SumFunctionOnSet(g, s) + Cardinality(s) * c}
<1>1. ASSUME NEW s \in SUBSET S, \A u \in SUBSET s : u # s => u \in P
      PROVE  s \in P
  <2>1. IsFiniteSet(s)
    BY FS_Subset
  <2>2. CASE s = {}
    <3>1. Cardinality(s) = 0
      BY <2>2, FS_EmptySet
    <3>2. SumFunctionOnSet(f, s) = 0 /\ SumFunctionOnSet(g, s) = 0
      BY <2>2, SumEmpty
    <3>3. SumFunctionOnSet(f, s) = SumFunctionOnSet(g, s) + Cardinality(s) * c
      BY <3>1, <3>2
    <3> QED BY <3>3
  <2>3. CASE s # {}
    <3> DEFINE r == s \ {AnElement(s)}
               a == g[AnElement(s)]
               b == SumFunctionOnSet(g, r)
               k == Cardinality(r)
    <3>1. AnElement(s) \in s /\ IsFiniteSet(r) /\ r \in SUBSET S
      BY <2>3, AnElementIn, FS_Subset
    <3>2. r \in P
      BY <3>1, <1>1
    <3>3. SumFunctionOnSet(f, s) = f[AnElement(s)] + SumFunctionOnSet(f, r)
          /\ SumFunctionOnSet(g, s) = a + b
      BY <2>1, <2>3, SumStep
    <3>4. f[AnElement(s)] = a + c /\ a \in Int /\ SumFunctionOnSet(f, r) = b + k * c
      BY <3>1, <3>2
    <3>5. b \in Int
      BY <3>1, SumType
    <3>6. Cardinality(s) = k + 1 /\ k \in Nat
      BY <2>1, <3>1, FS_RemoveElement, FS_CardinalityType
    <3> HIDE DEF a, b, r, k
    <3>7. (a + c) + (b + k * c) = (a + b) + (k + 1) * c
      BY <3>4, <3>5, <3>6
    <3> QED BY <3>3, <3>4, <3>6, <3>7
  <2> QED BY <2>2, <2>3
<1>2. SUBSET S \subseteq P
  <2> HIDE DEF P
  <2> QED BY <1>1, SubsetInduction
<1> QED BY <1>2

LEMMA SumRenamed ==
  ASSUME NEW f, NEW g, NEW h, NEW S, IsFiniteSet(S),
         \A x, y \in S : h[x] = h[y] => x = y,
         \A x \in S : g[h[x]] \in Int /\ f[x] = g[h[x]]
  PROVE  SumFunctionOnSet(f, S) = SumFunctionOnSet(g, {h[x] : x \in S})
<1> DEFINE Image(s) == {h[x] : x \in s}
           P == {s \in SUBSET S : /\ IsFiniteSet(Image(s))
                                  /\ SumFunctionOnSet(f, s) = SumFunctionOnSet(g, Image(s))}
<1>1. ASSUME NEW s \in SUBSET S, \A u \in SUBSET s : u # s => u \in P
      PROVE  s \in P
  <2>1. IsFiniteSet(s)
    BY FS_Subset
  <2>2. CASE s = {}
    <3>1. Image(s) = {}
      BY <2>2
    <3> QED BY <2>2, <3>1, SumEmpty, FS_EmptySet
  <2>3. CASE s # {}
    <3> DEFINE x == AnElement(s)
               r == s \ {x}
    <3>1. x \in s /\ IsFiniteSet(r) /\ r \in SUBSET S
      BY <2>3, AnElementIn, FS_Subset
    <3>2. r \in P
      BY <3>1, <1>1
    <3>3. SumFunctionOnSet(f, s) = f[x] + SumFunctionOnSet(f, r)
      BY <2>1, <2>3, SumStep
    <3> HIDE DEF x
    <3>4. Image(s) = Image(r) \cup {h[x]} /\ h[x] \notin Image(r)
      BY <3>1
    <3>5. IsFiniteSet(Image(s)) /\ Image(s) \ {h[x]} = Image(r)
      <4>1. IsFiniteSet(Image(r))
        BY <3>2
      <4>2. IsFiniteSet({h[x]})
        BY FS_Singleton
      <4> HIDE DEF Image
      <4>3. IsFiniteSet(Image(r) \cup {h[x]})
        BY <4>1, <4>2, FS_Union
      <4> QED BY <3>4, <4>3
    <3>6. \A y \in Image(s) : g[y] \in Int
      OBVIOUS
    <3>7. h[x] \in Image(s)
      BY <3>4
    <3>8. SumFunctionOnSet(f, r) = SumFunctionOnSet(g, Image(r)) /\ f[x] = g[h[x]]
      BY <3>1, <3>2
    <3> HIDE DEF Image, r
    <3>9. SumFunctionOnSet(g, Image(s)) = g[h[x]] + SumFunctionOnSet(g, Image(s) \ {h[x]})
      BY <3>5, <3>6, <3>7, SumRemove
    <3>10. SumFunctionOnSet(f, s) = SumFunctionOnSet(g, Image(s))
      BY <3>3, <3>5, <3>8, <3>9
    <3> QED BY <3>5, <3>10
  <2> QED BY <2>2, <2>3
<1>2. SUBSET S \subseteq P
  <2> HIDE DEF P
  <2> QED BY <1>1, SubsetInduction
<1> QED BY <1>2

-----------------------------------------------------------------------------
(* A waiting line: tasks arrive in the order a, and those that wait are a  *)
(* suffix q of it.  A disk, a network interface and the cores of a worker  *)
(* have such a line each.                                                  *)
Started(a, q) == Len(a) - Len(q)
StartedOf(a, q) == {a[i] : i \in 1 .. Started(a, q)}

InLine(a, q, S) ==
  /\ a \in Seq(S) /\ q \in Seq(S)
  /\ \A i, k \in 1 .. Len(a) : a[i] = a[k] => i = k
  /\ Started(a, q) \in Nat
  /\ \A i \in 1 .. Len(q) : q[i] = a[Started(a, q) + i]

LEMMA EmptyLine ==
  ASSUME NEW S
  PROVE  /\ InLine(<< >>, << >>, S)
         /\ Started(<< >>, << >>) = 0
         /\ StartedOf(<< >>, << >>) = {}
<1>1. << >> \in Seq(S) /\ Len(<< >>) = 0
  OBVIOUS
<1>2. Started(<< >>, << >>) = 0
  BY <1>1 DEF Started
<1>3. \A i : i \notin 1 .. 0
  OBVIOUS
<1> QED BY <1>1, <1>2, <1>3 DEF InLine, StartedOf

(* One more element at the end of a sequence.                              *)
LEMMA AppendElement ==
  ASSUME NEW S, NEW s \in Seq(S), NEW x \in S
  PROVE  /\ Append(s, x) \in Seq(S)
         /\ Len(s) \in Nat /\ Len(Append(s, x)) = Len(s) + 1
         /\ \A i \in 1 .. Len(s) : Append(s, x)[i] = s[i]
         /\ Append(s, x)[Len(s) + 1] = x
         /\ Range(Append(s, x)) = Range(s) \cup {x}
<1> DEFINE n == Len(s)
           b == Append(s, x)
<1>1. /\ b \in Seq(S) /\ n \in Nat /\ Len(b) = n + 1
      /\ \A i \in 1 .. n : b[i] = s[i]
      /\ b[n + 1] = x
      /\ DOMAIN s = 1 .. n /\ DOMAIN b = 1 .. n + 1
  OBVIOUS
<1> HIDE DEF n, b
<1>2. \A i : i \in 1 .. n + 1 <=> i \in 1 .. n \/ i = n + 1
  BY <1>1
<1>3. \A y : y \in Range(b) <=> y \in Range(s) \/ y = x
  BY <1>1, <1>2 DEF Range
<1>4. Range(b) = Range(s) \cup {x}
  BY <1>3
<1> QED BY <1>1, <1>4 DEF n, b

(* Who has started has arrived, and the others wait.                       *)
LEMMA LineRange ==
  ASSUME NEW a, NEW q, NEW S, InLine(a, q, S)
  PROVE  Range(a) = StartedOf(a, q) \cup Range(q)
<1> DEFINE n == Len(a)
           m == Len(q)
           k == Started(a, q)
<1>1. /\ n \in Nat /\ m \in Nat /\ k = n - m /\ k \in Nat
      /\ DOMAIN a = 1 .. n /\ DOMAIN q = 1 .. m
      /\ \A i \in 1 .. m : q[i] = a[k + i]
  BY DEF InLine, Started
<1>2. StartedOf(a, q) = {a[i] : i \in 1 .. k}
  BY DEF StartedOf
<1> HIDE DEF n, m, k
<1>3. \A i \in 1 .. n : i \in 1 .. k \/ (i - k \in 1 .. m /\ k + (i - k) = i)
  BY <1>1
<1>4. \A i \in 1 .. k : i \in 1 .. n
  BY <1>1
<1>5. \A i \in 1 .. m : k + i \in 1 .. n
  BY <1>1
<1>6. ASSUME NEW i \in 1 .. n PROVE a[i] \in StartedOf(a, q) \cup Range(q)
  <2>1. CASE i \in 1 .. k
    BY <1>2, <2>1
  <2>2. CASE i - k \in 1 .. m /\ k + (i - k) = i
    BY <1>1, <2>2 DEF Range
  <2> QED BY <1>3, <2>1, <2>2
<1>7. Range(a) \subseteq StartedOf(a, q) \cup Range(q)
  BY <1>1, <1>6 DEF Range
<1>8. StartedOf(a, q) \subseteq Range(a)
  BY <1>1, <1>2, <1>4 DEF Range
<1>9. Range(q) \subseteq Range(a)
  BY <1>1, <1>5 DEF Range
<1> QED BY <1>7, <1>8, <1>9

LEMMA LineIsSuffix ==
  ASSUME NEW a, NEW q, NEW S, InLine(a, q, S)
  PROVE  q = SubSeq(a, Len(a) - Len(q) + 1, Len(a))
<1> DEFINE n == Len(a)
           m == Len(q)
           k == Started(a, q)
           tail == SubSeq(a, n - m + 1, n)
<1>1. /\ a \in Seq(S) /\ q \in Seq(S)
      /\ n \in Nat /\ m \in Nat /\ k = n - m /\ k \in Nat
      /\ \A i \in 1 .. m : q[i] = a[k + i]
  BY DEF InLine, Started
<1>2. /\ n - m + 1 \in 1 .. n + 1 /\ n - (n - m + 1) + 1 = m
      /\ \A i \in 1 .. m : (n - m + 1) + i - 1 = k + i
  <2> HIDE DEF n, m, k
  <2> QED BY <1>1
<1>3. tail \in Seq(S) /\ Len(tail) = m /\ \A i \in 1 .. m : tail[i] = q[i]
  <2>1. /\ tail \in Seq(S)
        /\ Len(tail) = n - (n - m + 1) + 1
        /\ \A i \in 1 .. n - (n - m + 1) + 1 : tail[i] = a[(n - m + 1) + i - 1]
    BY <1>1, <1>2
  <2> HIDE DEF tail, n, m, k
  <2> QED BY <1>1, <1>2, <2>1
<1> HIDE DEF tail
<1>4. q = tail
  BY <1>1, <1>3
<1> QED BY <1>4 DEF tail

(* A task arrives and starts, because nobody waits ...                     *)
LEMMA ArrivesAndStarts ==
  ASSUME NEW S, NEW a, InLine(a, << >>, S), NEW t \in S, t \notin Range(a)
  PROVE  /\ InLine(Append(a, t), << >>, S)
         /\ Started(Append(a, t), << >>) = Started(a, << >>) + 1
         /\ t \notin StartedOf(a, << >>)
         /\ StartedOf(Append(a, t), << >>) = StartedOf(a, << >>) \cup {t}
<1> DEFINE n == Len(a)
           b == Append(a, t)
<1>1. /\ a \in Seq(S) /\ n \in Nat /\ Len(<< >>) = 0 /\ DOMAIN a = 1 .. n
      /\ << >> \in Seq(S)
      /\ \A i, k \in 1 .. n : a[i] = a[k] => i = k
  BY DEF InLine
<1>2. /\ b \in Seq(S) /\ Len(b) = n + 1
      /\ \A i \in 1 .. n : b[i] = a[i]
      /\ b[n + 1] = t
  BY <1>1, AppendElement
<1>3. \A i \in 1 .. n : a[i] # t
  BY <1>1 DEF Range
<1>4. Started(a, << >>) = n /\ Started(b, << >>) = n + 1
  BY <1>1, <1>2 DEF Started
<1> HIDE DEF n, b
<1>5. \A i : i \in 1 .. n + 1 <=> i \in 1 .. n \/ i = n + 1
  BY <1>1
<1>6. \A i, k \in 1 .. n + 1 : b[i] = b[k] => i = k
  BY <1>1, <1>2, <1>3, <1>5
<1>7. t \notin StartedOf(a, << >>) /\ StartedOf(b, << >>) = StartedOf(a, << >>) \cup {t}
  BY <1>2, <1>3, <1>4, <1>5 DEF StartedOf
<1>8. \A i : i \notin 1 .. 0
  OBVIOUS
<1>9. InLine(b, << >>, S)
  BY <1>1, <1>2, <1>4, <1>6, <1>8 DEF InLine
<1> QED BY <1>4, <1>7, <1>9 DEF b

(* ... or queues up behind the others.                                     *)
LEMMA ArrivesAndWaits ==
  ASSUME NEW S, NEW a, NEW q, InLine(a, q, S), NEW t \in S, t \notin Range(a)
  PROVE  /\ InLine(Append(a, t), Append(q, t), S)
         /\ Started(Append(a, t), Append(q, t)) = Started(a, q)
         /\ StartedOf(Append(a, t), Append(q, t)) = StartedOf(a, q)
<1> DEFINE n == Len(a)
           m == Len(q)
           k == Started(a, q)
           b == Append(a, t)
           r == Append(q, t)
<1>1. /\ a \in Seq(S) /\ q \in Seq(S) /\ n \in Nat /\ m \in Nat
      /\ k \in Nat /\ k = n - m /\ DOMAIN a = 1 .. n
      /\ \A i, j \in 1 .. n : a[i] = a[j] => i = j
      /\ \A i \in 1 .. m : q[i] = a[k + i]
  BY DEF InLine, Started
<1>2. /\ b \in Seq(S) /\ Len(b) = n + 1
      /\ \A i \in 1 .. n : b[i] = a[i]
      /\ b[n + 1] = t
  BY <1>1, AppendElement
<1>3. /\ r \in Seq(S) /\ Len(r) = m + 1
      /\ \A i \in 1 .. m : r[i] = q[i]
      /\ r[m + 1] = t
  BY <1>1, AppendElement
<1>4. \A i \in 1 .. n : a[i] # t
  BY <1>1 DEF Range
<1>5. Started(b, r) = k
  BY <1>1, <1>2, <1>3 DEF Started
<1>6. StartedOf(b, r) = {b[i] : i \in 1 .. k} /\ StartedOf(a, q) = {a[i] : i \in 1 .. k}
  BY <1>5 DEF StartedOf
<1> HIDE DEF n, m, k, b, r
<1>7. \A i, j \in 1 .. n + 1 : b[i] = b[j] => i = j
  <2>1. \A i \in 1 .. n + 1 : i \in 1 .. n \/ i = n + 1
    BY <1>1
  <2> QED BY <1>1, <1>2, <1>4, <2>1
<1>8. \A i \in 1 .. m + 1 : r[i] = b[k + i]
  <2> SUFFICES ASSUME NEW i \in 1 .. m + 1 PROVE r[i] = b[k + i]
    OBVIOUS
  <2>1. CASE i = m + 1
    <3>1. k + i = n + 1
      BY <1>1, <2>1
    <3> QED BY <1>2, <1>3, <2>1, <3>1
  <2>2. CASE i # m + 1
    <3>1. i \in 1 .. m /\ k + i \in 1 .. n
      BY <1>1, <2>2
    <3> QED BY <1>1, <1>2, <1>3, <3>1
  <2> QED BY <2>1, <2>2
<1>9. StartedOf(b, r) = StartedOf(a, q)
  <2>1. 1 .. k \subseteq 1 .. n
    BY <1>1
  <2> QED BY <1>2, <1>6, <2>1
<1>10. InLine(b, r, S)
  BY <1>1, <1>2, <1>3, <1>5, <1>7, <1>8 DEF InLine
<1> QED BY <1>5, <1>9, <1>10 DEF b, r, k

(* The first of the line starts.                                           *)
LEMMA FirstStarts ==
  ASSUME NEW S, NEW a, NEW q, InLine(a, q, S), q # << >>
  PROVE  /\ InLine(a, Tail(q), S)
         /\ Head(q) \in S
         /\ Started(a, Tail(q)) = Started(a, q) + 1
         /\ Head(q) \notin StartedOf(a, q)
         /\ StartedOf(a, Tail(q)) = StartedOf(a, q) \cup {Head(q)}
<1> DEFINE n == Len(a)
           m == Len(q)
           k == Started(a, q)
           t == Head(q)
           r == Tail(q)
<1>1. /\ a \in Seq(S) /\ q \in Seq(S) /\ n \in Nat /\ m \in Nat /\ m >= 1
      /\ k \in Nat /\ k = n - m
      /\ \A i, j \in 1 .. n : a[i] = a[j] => i = j
      /\ \A i \in 1 .. m : q[i] = a[k + i]
  BY DEF InLine, Started
<1>2. /\ t \in S /\ t = q[1]
      /\ r \in Seq(S) /\ Len(r) = m - 1
      /\ \A i \in 1 .. m - 1 : r[i] = q[i + 1]
  BY <1>1
<1>3. Started(a, r) = k + 1
  BY <1>1, <1>2 DEF Started
<1>4. StartedOf(a, r) = {a[i] : i \in 1 .. k + 1} /\ StartedOf(a, q) = {a[i] : i \in 1 .. k}
  BY <1>3 DEF StartedOf
<1>5. Len(r) = m - 1 /\ Len(a) = n
  BY <1>2
<1> HIDE DEF n, m, k, t, r
<1>6. t = a[k + 1] /\ k + 1 \in 1 .. n
  BY <1>1, <1>2
<1>7. t \notin StartedOf(a, q)
  <2>1. \A i \in 1 .. k : i \in 1 .. n /\ i # k + 1
    BY <1>1
  <2> QED BY <1>1, <1>4, <1>6, <2>1
<1>8. StartedOf(a, r) = StartedOf(a, q) \cup {t}
  <2>1. \A i : i \in 1 .. k + 1 <=> i \in 1 .. k \/ i = k + 1
    BY <1>1
  <2> QED BY <1>4, <1>6, <2>1
<1>9. \A i \in 1 .. m - 1 : r[i] = a[(k + 1) + i]
  <2> SUFFICES ASSUME NEW i \in 1 .. m - 1 PROVE r[i] = a[(k + 1) + i]
    OBVIOUS
  <2>1. i + 1 \in 1 .. m /\ k + (i + 1) = (k + 1) + i
    BY <1>1
  <2> QED BY <1>1, <1>2, <2>1
<1>10. k + 1 \in Nat
  BY <1>1
<1>11. InLine(a, r, S)
  BY <1>1, <1>2, <1>3, <1>5, <1>9, <1>10 DEF InLine
<1> QED BY <1>2, <1>3, <1>7, <1>8, <1>11 DEF t, r, k

=============================================================================
