---------------------------- MODULE ReportProofs ----------------------------
(***************************************************************************)
(* What the loop of ReportUtilization writes for every map of records: one *)
(* line for each tick from the first key to the last, and the line of a    *)
(* tick is the record of the latest key that is not after it.              *)
(***************************************************************************)
EXTENDS UtilizationReport, Foundations, SequenceTheorems

(* The largest and the smallest of finitely many numbers.                  *)
LEMMA Largest ==
  ASSUME NEW S, IsFiniteSet(S), S \subseteq Int, S # {}
  PROVE  \E m \in S : \A x \in S : x <= m
<1> DEFINE P == {T \in SUBSET S : T # {} => \E m \in T : \A x \in T : x <= m}
<1>1. ASSUME NEW T \in SUBSET S, \A U \in SUBSET T : U # T => U \in P
      PROVE  T \in P
  <2>1. CASE T = {}
    BY <2>1
  <2>2. CASE T # {}
    <3>1. PICK x \in T : TRUE
      BY <2>2
    <3>2. T \ {x} \in P
      BY <1>1
    <3>3. CASE T \ {x} = {}
      BY <3>1, <3>3
    <3>4. CASE T \ {x} # {}
      <4>1. PICK m \in T \ {x} : \A y \in T \ {x} : y <= m
        BY <3>2, <3>4
      <4>2. x \in Int /\ m \in Int /\ \A y \in T : y \in Int
        OBVIOUS
      <4>3. CASE x <= m
        BY <4>1, <4>2, <4>3
      <4>4. CASE m <= x
        BY <4>1, <4>2, <4>4
      <4> QED BY <4>2, <4>3, <4>4
    <3> QED BY <3>3, <3>4
  <2> QED BY <2>1, <2>2
<1>2. SUBSET S \subseteq P
  <2> HIDE DEF P
  <2> QED BY <1>1, SubsetInduction
<1> QED BY <1>2

LEMMA MaxIs ==
  ASSUME NEW S, IsFiniteSet(S), S \subseteq Int, S # {}
  PROVE  Max(S) \in S /\ \A x \in S : x <= Max(S)
<1>1. \E m \in S : \A x \in S : m >= x
  <2>1. PICK m \in S : \A x \in S : x <= m
    BY Largest
  <2> QED BY <2>1
<1>2. Max(S) \in S /\ \A x \in S : Max(S) >= x
  BY <1>1 DEF Max
<1> QED BY <1>2

LEMMA MinIs ==
  ASSUME NEW S, IsFiniteSet(S), S \subseteq Int, S # {}
  PROVE  Min(S) \in S /\ \A x \in S : Min(S) <= x
<1> DEFINE N == {-x : x \in S}
<1>1. IsFiniteSet(N) /\ N \subseteq Int /\ N # {}
  <2> DEFINE f == [x \in S |-> -x]
  <2>1. f \in [S -> N] /\ \A y \in N : \E x \in S : f[x] = y
    OBVIOUS
  <2>2. IsFiniteSet(N)
    <3> HIDE DEF f, N
    <3>1. f \in Surjection(S, N)
      BY <2>1 DEF Surjection
    <3> QED BY <3>1, FS_Surjection
  <2>3. N \subseteq Int
    OBVIOUS
  <2>4. N # {}
    OBVIOUS
  <2> QED BY <2>2, <2>3, <2>4
<1>2. PICK m \in N : \A x \in N : x <= m
  <2> HIDE DEF N
  <2> QED BY <1>1, Largest
<1>3. PICK y \in S : m = -y
  OBVIOUS
<1>4. \A x \in S : y <= x
  <2> TAKE x \in S
  <2>1. -x <= -y
    BY <1>2, <1>3
  <2> QED BY <2>1
<1> QED BY <1>4 DEF Min

(* A number that is in a set and a bound of it is its maximum.             *)
LEMMA MaxFound ==
  ASSUME NEW S, S \subseteq Int, NEW m \in S, \A x \in S : x <= m
  PROVE  Max(S) = m
<1>1. \A x \in S : m >= x
  OBVIOUS
<1>2. Max(S) \in S /\ \A x \in S : Max(S) >= x
  BY <1>1 DEF Max
<1>3. Max(S) \in Int /\ m \in Int /\ Max(S) >= m /\ Max(S) <= m
  BY <1>2
<1> QED BY <1>3

-----------------------------------------------------------------------------
(* The latest key that is not after n.                                     *)
Latest(D, n) == Max({k \in D : k <= n})

LEMMA LatestIs ==
  ASSUME NEW D, IsFiniteSet(D), D \subseteq Int, NEW n \in Int,
         \E k \in D : k <= n
  PROVE  /\ Latest(D, n) \in D
         /\ Latest(D, n) <= n
         /\ \A k \in D : k <= n => k <= Latest(D, n)
<1> DEFINE S == {k \in D : k <= n}
<1>1. IsFiniteSet(S) /\ S \subseteq Int /\ S # {}
  BY FS_Subset
<1>2. Max(S) \in S /\ \A x \in S : x <= Max(S)
  <2> HIDE DEF S
  <2> QED BY <1>1, MaxIs
<1> QED BY <1>2 DEF Latest

LEMMA LatestFound ==
  ASSUME NEW D, D \subseteq Int, NEW n \in Int, NEW m \in D, m <= n,
         \A k \in D : k <= n => k <= m
  PROVE  Latest(D, n) = m
<1> DEFINE S == {k \in D : k <= n}
<1>1. S \subseteq Int /\ m \in S /\ \A x \in S : x <= m
  OBVIOUS
<1> HIDE DEF S
<1>2. Max(S) = m
  BY <1>1, MaxFound
<1> QED BY <1>2 DEF S, Latest

(* The lines from key k on, said without the loop.                         *)
LinesFrom(record, k) ==
  [n \in 1 .. Max(DOMAIN record) - k + 1 |-> record[Latest(DOMAIN record, k + n - 1)]]

(* One turn of the loop, f being what the turns after it write.            *)
Turn(record, f, k) ==
  [n \in 1 .. Repeats(record, k) |-> record[k]]
    \o (IF Later(record, k) = {} THEN << >> ELSE f[Min(Later(record, k))])

IsLines(f, record) == f = [k \in DOMAIN record |-> Turn(record, f, k)]

LEMMA ReportUnfold ==
  ASSUME NEW record
  PROVE  ReportUtilization(record) = (CHOOSE f : IsLines(f, record))[Min(DOMAIN record)]
BY Zenon DEF ReportUtilization, IsLines, Turn

(* The keys after k, if there are any.                                     *)
LEMMA NextKey ==
  ASSUME NEW record, IsFiniteSet(DOMAIN record), DOMAIN record \subseteq Int,
         NEW k \in DOMAIN record, Later(record, k) # {}
  PROVE  /\ Min(Later(record, k)) \in DOMAIN record
         /\ Min(Later(record, k)) > k
         /\ \A l \in DOMAIN record : l > k => Min(Later(record, k)) <= l
<1>1. IsFiniteSet(Later(record, k)) /\ Later(record, k) \subseteq Int
  BY FS_Subset DEF Later
<1>2. /\ Min(Later(record, k)) \in Later(record, k)
      /\ \A l \in Later(record, k) : Min(Later(record, k)) <= l
  BY <1>1, MinIs
<1> QED BY <1>2 DEF Later

(* One turn of the loop writes what LinesFrom says, if the turns after it  *)
(* do.                                                                     *)
LEMMA TurnWrites ==
  ASSUME NEW record, IsFiniteSet(DOMAIN record), DOMAIN record \subseteq Int,
         NEW k \in DOMAIN record, NEW f,
         Later(record, k) # {} =>
           f[Min(Later(record, k))] = LinesFrom(record, Min(Later(record, k)))
  PROVE  Turn(record, f, k) = LinesFrom(record, k)
<1> DEFINE D == DOMAIN record
           m == Max(D)
           s == [n \in 1 .. Repeats(record, k) |-> record[k]]
           R == {record[l] : l \in D}
<1>1. m \in D /\ m \in Int /\ k \in Int /\ \A l \in D : l <= m
  BY MaxIs
<1>2. CASE Later(record, k) = {}
  <2>1. m = k
    <3>1. ~(m > k)
      BY <1>1, <1>2 DEF Later
    <3> QED BY <1>1, <3>1
  <2>2. Repeats(record, k) = 1
    BY <1>2 DEF Repeats
  <2>3. Latest(D, k) = k
    <3>1. D \subseteq Int /\ k \in D /\ k <= k /\ \A x \in D : x <= k => x <= k
      BY <1>1
    <3> HIDE DEF D
    <3> QED BY <3>1, <1>1, LatestFound
  <2>4. LinesFrom(record, k) = [n \in 1 .. 1 |-> record[k]]
    <3>1. m - k + 1 = 1
      BY <1>1, <2>1
    <3>2. \A n \in 1 .. 1 : k + n - 1 = k
      BY <1>1
    <3> QED BY <3>1, <3>2, <2>3 DEF LinesFrom
  <2>5. Turn(record, f, k) = s \o << >>
    BY <1>2 DEF Turn
  <2>6. s \in Seq(R)
    BY <2>2
  <2>7. s \o << >> = s
    BY <2>6
  <2> QED BY <2>2, <2>4, <2>5, <2>7
<1>3. CASE Later(record, k) # {}
  <2> DEFINE l == Min(Later(record, k))
             t == LinesFrom(record, l)
  <2>1. l \in D /\ l \in Int /\ l > k /\ \A x \in D : x > k => l <= x
    BY <1>3, NextKey
  <2>2. Repeats(record, k) = l - k /\ l - k \in Nat
    BY <1>1, <1>3, <2>1 DEF Repeats
  <2> HIDE DEF l
  <2>3. s \in Seq(R) /\ Len(s) = l - k /\ \A n \in 1 .. l - k : s[n] = record[k]
    BY <2>2
  <2>4. m - l + 1 \in Nat /\ l <= m
    BY <1>1, <2>1
  <2>5. \A n \in 1 .. m - l + 1 : record[Latest(D, l + n - 1)] \in R
    <3> TAKE n \in 1 .. m - l + 1
    <3>1. l + n - 1 \in Int /\ l <= l + n - 1
      BY <2>1, <2>4
    <3>2. Latest(D, l + n - 1) \in D
      BY <3>1, <2>1, LatestIs
    <3> QED BY <3>2
  <2>6. /\ t \in Seq(R) /\ Len(t) = m - l + 1
        /\ \A n \in 1 .. m - l + 1 : t[n] = record[Latest(D, l + n - 1)]
    BY <2>4, <2>5 DEF LinesFrom
  <2>7. Turn(record, f, k) = s \o t
    BY <1>3 DEF Turn, l
  <2> HIDE DEF s, t
  <2>8. /\ s \o t \in Seq(R) /\ Len(s \o t) = (l - k) + (m - l + 1)
        /\ \A n \in 1 .. (l - k) + (m - l + 1) :
             (s \o t)[n] = IF n <= l - k THEN s[n] ELSE t[n - (l - k)]
    <3> HIDE DEF R
    <3>1. /\ s \o t \in Seq(R)
          /\ Len(s \o t) = Len(s) + Len(t)
          /\ \A i \in 1 .. Len(s) + Len(t) :
               (s \o t)[i] = IF i <= Len(s) THEN s[i] ELSE t[i - Len(s)]
      BY <2>3, <2>6, ConcatProperties
    <3> QED BY <3>1, <2>3, <2>6
  <2>9. (l - k) + (m - l + 1) = m - k + 1 /\ m - k + 1 \in Nat
    BY <1>1, <2>1, <2>4
  <2>10. ASSUME NEW n \in 1 .. m - k + 1
         PROVE  (s \o t)[n] = record[Latest(D, k + n - 1)]
    <3>1. n \in Int /\ 1 <= n /\ n <= m - k + 1
      BY <2>9
    <3>2. CASE n <= l - k
      <4>1. (s \o t)[n] = record[k]
        <5>1. n \in 1 .. l - k
          BY <2>2, <3>1, <3>2
        <5>2. (s \o t)[n] = s[n]
          BY <2>8, <2>9, <3>2
        <5> QED BY <5>1, <5>2, <2>3
      <4>2. Latest(D, k + n - 1) = k
        <5>1. k + n - 1 \in Int /\ k <= k + n - 1 /\ k + n - 1 < l
          BY <1>1, <2>1, <3>1, <3>2
        <5>2. \A x \in D : x <= k + n - 1 => x <= k
          <6> TAKE x \in D
          <6>1. x \in Int
            OBVIOUS
          <6> QED BY <6>1, <1>1, <2>1, <5>1
        <5>3. k \in D /\ D \subseteq Int
          OBVIOUS
        <5> HIDE DEF D
        <5> QED BY <5>1, <5>2, <5>3, LatestFound
      <4> QED BY <4>1, <4>2
    <3>3. CASE ~(n <= l - k)
      <4>1. n - (l - k) \in 1 .. m - l + 1
        BY <1>1, <2>1, <2>2, <3>1, <3>3
      <4>2. (s \o t)[n] = t[n - (l - k)]
        BY <2>8, <2>9, <3>3
      <4>3. l + (n - (l - k)) - 1 = k + n - 1
        BY <1>1, <2>1, <3>1
      <4> QED BY <4>1, <4>2, <4>3, <2>6
    <3> QED BY <3>2, <3>3
  <2>11. s \o t = [n \in 1 .. m - k + 1 |-> (s \o t)[n]]
    <3> DEFINE u == s \o t
    <3>1. u \in Seq(R) /\ Len(u) = m - k + 1
      BY <2>8, <2>9
    <3> HIDE DEF u
    <3>2. u = [n \in 1 .. Len(u) |-> u[n]]
      BY <3>1
    <3> QED BY <3>1, <3>2 DEF u
  <2>12. LinesFrom(record, k) = [n \in 1 .. m - k + 1 |-> record[Latest(D, k + n - 1)]]
    BY DEF LinesFrom
  <2> HIDE DEF m, D
  <2> QED BY <2>7, <2>10, <2>11, <2>12
<1> QED BY <1>2, <1>3

(* The report has a line for each tick from the first key to the last, and *)
(* each is the record of the latest key that is not after its tick         *)
(* (worker_abstract.h and player.h, ReportUtilization).                    *)
LEMMA ReportLines ==
  ASSUME NEW record, IsFiniteSet(DOMAIN record), DOMAIN record \subseteq Int,
         DOMAIN record # {}
  PROVE  ReportUtilization(record) = LinesFrom(record, Min(DOMAIN record))
<1> DEFINE D == DOMAIN record
           g == [k \in D |-> LinesFrom(record, k)]
           f == CHOOSE h : IsLines(h, record)
<1>1. IsLines(g, record)
  <2>1. ASSUME NEW k \in D PROVE LinesFrom(record, k) = Turn(record, g, k)
    <3>1. Later(record, k) # {} =>
            g[Min(Later(record, k))] = LinesFrom(record, Min(Later(record, k)))
      BY NextKey
    <3> HIDE DEF g
    <3> QED BY <3>1, TurnWrites
  <2>2. [k \in D |-> LinesFrom(record, k)] = [k \in D |-> Turn(record, g, k)]
    <3> HIDE DEF g
    <3> QED BY <2>1
  <2> QED BY Zenon, <2>2 DEF IsLines
<1>2. IsLines(f, record)
  <2> HIDE DEF g
  <2> QED BY <1>1
<1>3. \A k \in D : f[k] = Turn(record, f, k)
  <2> HIDE DEF f
  <2> QED BY <1>2 DEF IsLines
<1> DEFINE Bad == {k \in D : f[k] # LinesFrom(record, k)}
<1>4. Bad = {}
  <2> HIDE DEF f
  <2>1. SUFFICES ASSUME Bad # {} PROVE FALSE
    OBVIOUS
  <2>2. IsFiniteSet(Bad) /\ Bad \subseteq Int
    BY FS_Subset
  <2>3. PICK k \in Bad : \A x \in Bad : x <= k
    <3> HIDE DEF Bad
    <3> QED BY <2>1, <2>2, Largest
  <2>4. Later(record, k) # {} =>
          f[Min(Later(record, k))] = LinesFrom(record, Min(Later(record, k)))
    <3> SUFFICES ASSUME Later(record, k) # {}
                 PROVE  f[Min(Later(record, k))] = LinesFrom(record, Min(Later(record, k)))
      OBVIOUS
    <3> DEFINE l == Min(Later(record, k))
    <3>1. l \in D /\ l > k /\ l \in Int /\ k \in Int
      BY NextKey
    <3> HIDE DEF l
    <3>2. l \notin Bad
      BY <2>3, <3>1
    <3>3. f[l] = LinesFrom(record, l)
      BY <3>1, <3>2
    <3> QED BY <3>3 DEF l
  <2>5. Turn(record, f, k) = LinesFrom(record, k)
    BY <2>4, TurnWrites
  <2> QED BY <1>3, <2>3, <2>5
<1>5. Min(D) \in D
  BY MinIs
<1>6. ReportUtilization(record) = f[Min(D)]
  BY ReportUnfold
<1> QED BY <1>4, <1>5, <1>6

=============================================================================
