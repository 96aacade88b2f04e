---------------------------- MODULE ClusterProofs ----------------------------
(***************************************************************************)
(* The safety of Cluster for every set of workers, users and other jobs,   *)
(* and every job: what is reserved anywhere is what the unfinished work    *)
(* needs, however the messages are ordered.                                *)
(***************************************************************************)
EXTENDS Cluster, JobManagerProofs, Foundations, SequenceTheorems

-----------------------------------------------------------------------------
(* The manager inside the cluster is the one of JobManager.                *)

LEMMA StepOfManager == [ClusterNext]_clusterVars => [Next]_vars
<1> SUFFICES ASSUME [ClusterNext]_clusterVars PROVE [Next]_vars
  OBVIOUS
<1>1. CASE Admission
  BY <1>1 DEF Admission, Next
<1>2. ASSUME NEW r \in SubGraph \cup Others, HandleNewReq(r)
      PROVE  UNCHANGED vars
  BY <1>2 DEF HandleNewReq, TakeRequest
<1>3. CASE HandleResourceAvailable
  BY <1>3 DEF HandleResourceAvailable, TakeAvailable
<1>4. ASSUME NEW s \in SubGraph, NEW w \in Worker, HandleDecision(s, w)
      PROVE  Next
  BY <1>4 DEF HandleDecision, Next
<1>5. ASSUME NEW t \in Task, Finish(t)
      PROVE  Next
  BY <1>5 DEF Finish, Next
<1>6. ASSUME NEW j \in JobFinishWaiting, HandleJobFinish(j)
      PROVE  UNCHANGED vars
  BY <1>6 DEF HandleJobFinish
<1>7. ASSUME NEW o \in Others, OtherAdmission(o) \/ OtherFinish(o)
      PROVE  UNCHANGED vars
  BY <1>7 DEF OtherAdmission, OtherFinish
<1>8. ASSUME NEW o \in Others, NEW w \in Worker, OtherDecision(o, w)
      PROVE  UNCHANGED vars
  BY <1>8 DEF OtherDecision
<1>9. CASE UNCHANGED clusterVars
  BY <1>9 DEF clusterVars
<1> QED
  BY <1>1, <1>2, <1>3, <1>4, <1>5, <1>6, <1>7, <1>8, <1>9 DEF ClusterNext

(* What JobManager assumes of its environment is true of the scheduler, so *)
(* everything proved about it holds in the cluster.                        *)
THEOREM ClusterRefinesManager == ClusterSpec => Spec
<1>1. ClusterInit => Init
  BY DEF ClusterInit
<1> QED BY <1>1, StepOfManager, PTL DEF ClusterSpec, Spec

-----------------------------------------------------------------------------
(* Packs.                                                                  *)

IntPack == [Resource -> Int]

LEMMA PackTypes ==
  /\ Pack \subseteq IntPack
  /\ NoPack \in Pack
  /\ \A p, q \in Pack : Add(p, q) \in Pack
  /\ \A p, q \in IntPack : Add(p, q) \in IntPack /\ Subtract(p, q) \in IntPack
BY DEF Pack, IntPack, NoPack, Add, Subtract

LEMMA PackArithmetic ==
  /\ \A p, q, r \in IntPack : Add(Add(p, q), r) = Add(p, Add(q, r))
  /\ \A p, q \in IntPack : Add(p, q) = Add(q, p)
  /\ \A p \in IntPack : Add(p, NoPack) = p /\ Add(NoPack, p) = p
  /\ \A p, q \in IntPack : Subtract(Add(p, q), q) = p
BY DEF IntPack, NoPack, Add, Subtract

(* Giving back never makes a reservation too large.                        *)
LEMMA FitsLess ==
  ASSUME NEW p \in IntPack, NEW q \in Pack, NEW limit \in Pack, FitIn(p, limit)
  PROVE  FitIn(Subtract(p, q), limit)
BY DEF IntPack, Pack, FitIn, Subtract

-----------------------------------------------------------------------------
(* Sequences of requests.                                                  *)

Distinct(q) == \A i, k \in 1 .. Len(q) : q[i] = q[k] => i = k

InsertedAt(q, Q, r, i) == q = SubSeq(Q, 1, i - 1) \o <<r>> \o SubSeq(Q, i, Len(Q))

(* Where the elements of a sequence are after one has been put in.         *)
LEMMA InsertPositions ==
  ASSUME NEW R, NEW Q \in Seq(R), NEW r \in R, NEW i \in 1 .. Len(Q) + 1,
         NEW q, InsertedAt(q, Q, r, i)
  PROVE  /\ q \in Seq(R)
         /\ Len(q) = Len(Q) + 1
         /\ \A k \in 1 .. Len(Q) + 1 :
              q[k] = IF k < i THEN Q[k] ELSE IF k = i THEN r ELSE Q[k - 1]
<1> DEFINE a == SubSeq(Q, 1, i - 1)
           b == SubSeq(Q, i, Len(Q))
           c == a \o <<r>>
<1>1. Len(Q) \in Nat /\ i \in Nat /\ \A k \in 1 .. Len(Q) : Q[k] \in R
  OBVIOUS
<1>2. /\ a \in Seq(R) /\ Len(a) = i - 1
      /\ \A k \in 1 .. i - 1 : a[k] = Q[k]
  OBVIOUS
<1>3. /\ b \in Seq(R) /\ Len(b) = Len(Q) - i + 1
      /\ \A k \in 1 .. Len(Q) - i + 1 : b[k] = Q[i + k - 1]
  OBVIOUS
<1> HIDE DEF a, b
<1>5. /\ c \in Seq(R) /\ Len(c) = i
      /\ \A k \in 1 .. i : c[k] = IF k < i THEN Q[k] ELSE r
  <2>1. c = Append(a, r)
    BY <1>2
  <2> QED BY <1>1, <1>2, <2>1
<1> HIDE DEF c
<1>6. /\ c \o b \in Seq(R)
      /\ Len(c \o b) = Len(Q) + 1
      /\ \A k \in 1 .. Len(Q) + 1 :
           (c \o b)[k] = IF k <= i THEN c[k] ELSE b[k - i]
  <2>1. /\ c \o b \in Seq(R)
        /\ Len(c \o b) = Len(c) + Len(b)
        /\ \A k \in 1 .. Len(c) + Len(b) :
             (c \o b)[k] = IF k <= Len(c) THEN c[k] ELSE b[k - Len(c)]
    BY <1>3, <1>5, ConcatProperties
  <2>2. Len(c) + Len(b) = Len(Q) + 1 /\ Len(c) = i
    BY <1>1, <1>3, <1>5
  <2> QED BY <2>1, <2>2
<1>7. ASSUME NEW k \in 1 .. Len(Q) + 1
      PROVE  (c \o b)[k] = IF k < i THEN Q[k] ELSE IF k = i THEN r ELSE Q[k - 1]
  <2> DEFINE z == c \o b
  <2>1. z[k] = IF k <= i THEN c[k] ELSE b[k - i]
    BY <1>6
  <2> HIDE DEF z
  <2>2. CASE k <= i
    BY <2>1, <2>2, <1>1, <1>5 DEF z
  <2>3. CASE k > i
    <3>1. k - i \in 1 .. Len(Q) - i + 1 /\ i + (k - i) - 1 = k - 1
      BY <2>3, <1>1
    <3>2. b[k - i] = Q[i + (k - i) - 1]
      BY <1>3, <3>1
    <3>3. z[k] = Q[k - 1]
      BY <2>1, <2>3, <3>1, <3>2, <1>1
    <3> QED BY <3>3, <2>3, <1>1 DEF z
  <2>4. k <= i \/ k > i
    BY <1>1
  <2> QED BY <2>2, <2>3, <2>4, Zenon
<1>8. q = c \o b
  BY DEF InsertedAt, a, b, c
<1> QED BY <1>6, <1>7, <1>8, Zenon

(* Something new was put in, once.                                        *)
LEMMA InsertDistinct ==
  ASSUME NEW R, NEW Q \in Seq(R), NEW r \in R, NEW i \in 1 .. Len(Q) + 1,
         NEW q \in Seq(R), Len(q) = Len(Q) + 1,
         \A k \in 1 .. Len(Q) + 1 :
              q[k] = IF k < i THEN Q[k] ELSE IF k = i THEN r ELSE Q[k - 1]
  PROVE  /\ Range(q) = Range(Q) \cup {r}
         /\ Distinct(Q) /\ r \notin Range(Q) => Distinct(q)
<1>1. DOMAIN q = 1 .. Len(Q) + 1 /\ DOMAIN Q = 1 .. Len(Q)
  OBVIOUS
<1>2. \A n \in 1 .. Len(Q) + 1 :
          \/ n < i /\ n \in 1 .. Len(Q) /\ q[n] = Q[n]
          \/ n = i /\ q[n] = r
          \/ n > i /\ n - 1 \in 1 .. Len(Q) /\ q[n] = Q[n - 1]
  OBVIOUS
<1>3. Range(q) \subseteq Range(Q) \cup {r}
  BY <1>1, <1>2 DEF Range
<1>4. r \in Range(q)
    BY <1>1 DEF Range
<1>5. ASSUME NEW k \in 1 .. Len(Q) PROVE Q[k] \in Range(q)
    <3>1. CASE k < i
      BY <3>1, <1>1 DEF Range
    <3>2. CASE k >= i
      <4>1. k + 1 \in 1 .. Len(Q) + 1 /\ q[k + 1] = Q[k]
        BY <3>2
      <4> QED BY <4>1, <1>1 DEF Range
    <3> QED BY <3>1, <3>2
<1>6. Range(q) = Range(Q) \cup {r}
  BY <1>1, <1>3, <1>4, <1>5 DEF Range
<1>7. ASSUME Distinct(Q), r \notin Range(Q) PROVE Distinct(q)
  <2>1. \A k \in 1 .. Len(Q) : Q[k] # r
    BY <1>1, <1>7 DEF Range
  <2> SUFFICES ASSUME NEW k \in 1 .. Len(Q) + 1, NEW m \in 1 .. Len(Q) + 1,
                      q[k] = q[m]
               PROVE  k = m
    BY DEF Distinct
  <2>2. \A a, b \in 1 .. Len(Q) : Q[a] = Q[b] => a = b
    BY <1>7 DEF Distinct
  <2>3. Len(Q) \in Nat /\ i \in Nat /\ k \in Nat /\ m \in Nat
    OBVIOUS
  <2>4. k = i \/ m = i => k = m
    BY <2>1, <1>2
  <2>5. ASSUME k # i, m # i PROVE k = m
    <3>1. PICK x \in 1 .. Len(Q) : q[k] = Q[x] /\ x = IF k < i THEN k ELSE k - 1
      BY <2>5, <1>2
    <3>2. PICK y \in 1 .. Len(Q) : q[m] = Q[y] /\ y = IF m < i THEN m ELSE m - 1
      BY <2>5, <1>2
    <3>3. x = y
      BY <3>1, <3>2, <2>2
    <3> QED BY <3>1, <3>2, <3>3, <2>3, <2>5
  <2> QED BY <2>4, <2>5
<1> QED BY <1>6, <1>7

-----------------------------------------------------------------------------
(* What is reserved for work that was assigned.                            *)

JobTyped ==
  /\ job \in Jobs
  /\ IsJob(job)

LEMMA JobFields ==
  ASSUME JobTyped
  PROVE  /\ job.kind \in [Task -> Kind] /\ job.req \in [Task -> Nat]
         /\ job.memory \in [SubGraph -> Nat] /\ job.sg \in [Task -> SubGraph]
         /\ IsFiniteSet(SubGraphsOf(job)) /\ SubGraphsOf(job) \subseteq SubGraph
         /\ SubGraphsOf(job) \cap Others = {}
         /\ \A T \in SUBSET Task : IsFiniteSet(T)
<1>1. /\ job.kind \in [Task -> Kind] /\ job.req \in [Task -> Nat]
      /\ job.memory \in [SubGraph -> Nat] /\ job.sg \in [Task -> SubGraph]
  BY ClusterJobsAssumption DEF JobTyped, IsJob
<1>2. SubGraphsOf(job) \subseteq SubGraph
  BY <1>1 DEF SubGraphsOf
<1>3. IsFiniteSet(SubGraphsOf(job)) /\ \A T \in SUBSET Task : IsFiniteSet(T)
  BY FiniteParts, TaskAssumption, FS_Subset
<1> QED BY <1>1, <1>2, <1>3, ClusterAssumption

(* Held and OthersHold with the finished tasks and jobs as a parameter.    *)
OpenBy(F, S) == {t \in Task : job.sg[t] \in S /\ F[t] = 0}

HeldBy(F, S) ==
  [r \in Resource |->
     IF r = "memory"
     THEN SumFunctionOnSet(job.memory, {s \in S : OpenBy(F, {s}) # {}})
     ELSE SumFunctionOnSet(job.req, {t \in OpenBy(F, S) : job.kind[t] = r})]

OthersBy(E, O) ==
  [r \in Resource |->
     SumFunctionOnSet([o \in Others |-> OtherPack[o][r]], O \ E)]

LEMMA HeldByType ==
  ASSUME JobTyped, NEW F, NEW S \in SUBSET SubGraphsOf(job)
  PROVE  HeldBy(F, S) \in Pack
<1> SUFFICES ASSUME NEW r \in Resource PROVE HeldBy(F, S)[r] \in Nat
  BY DEF Pack, HeldBy
<1>1. CASE r = "memory"
  <2> DEFINE M == {s \in S : OpenBy(F, {s}) # {}}
  <2>1. IsFiniteSet(M)
    BY JobFields, FS_Subset
  <2>2. \A s \in M : job.memory[s] \in Nat
    BY JobFields
  <2> HIDE DEF M
  <2>3. SumFunctionOnSet(job.memory, M) \in Nat
    BY <2>1, <2>2, SumNat
  <2> QED BY <1>1, <2>3 DEF HeldBy, M
<1>2. CASE r # "memory"
  <2> DEFINE T == {t \in OpenBy(F, S) : job.kind[t] = r}
  <2>1. IsFiniteSet(T) /\ T \subseteq Task
    BY JobFields DEF OpenBy
  <2>2. \A t \in T : job.req[t] \in Nat
    BY <2>1, JobFields
  <2> HIDE DEF T
  <2>3. SumFunctionOnSet(job.req, T) \in Nat
    BY <2>1, <2>2, SumNat
  <2> QED BY <1>2, <2>3 DEF HeldBy, T
<1> QED BY <1>1, <1>2

LEMMA HeldType ==
  ASSUME JobTyped, NEW S \in SUBSET SubGraphsOf(job)
  PROVE  Held(S) \in Pack
<1>1. Held(S) = HeldBy(finished, S)
  BY DEF Held, HeldBy, OpenTasks, OpenBy
<1> QED BY <1>1, HeldByType

LEMMA OthersByType ==
  ASSUME NEW E, NEW O \in SUBSET Others
  PROVE  OthersBy(E, O) \in Pack
<1> SUFFICES ASSUME NEW r \in Resource PROVE OthersBy(E, O)[r] \in Nat
  BY DEF Pack, OthersBy
<1> DEFINE f == [o \in Others |-> OtherPack[o][r]]
           R == O \ E
<1>1. IsFiniteSet(R) /\ \A o \in R : f[o] \in Nat
  BY ClusterAssumption, FS_Subset DEF Pack
<1> HIDE DEF f, R
<1>2. SumFunctionOnSet(f, R) \in Nat
  BY <1>1, SumNat
<1> QED BY <1>2 DEF OthersBy, f, R

LEMMA OthersHoldType ==
  ASSUME NEW O \in SUBSET Others
  PROVE  OthersHold(O) \in Pack
<1>1. OthersHold(O) = OthersBy(otherDone, O)
  BY DEF OthersHold, OthersBy
<1> QED BY <1>1, OthersByType

(* A subgraph none of whose tasks has finished holds what was asked for it.*)
LEMMA HeldAdd ==
  ASSUME JobTyped, NEW S \in SUBSET SubGraphsOf(job),
         NEW s \in SubGraphsOf(job), s \notin S,
         \A t \in TasksOf(job, s) : finished[t] = 0
  PROVE  /\ Held(S \cup {s}) = Add(Held(S), SubGraphPack(job, s))
         /\ SubGraphPack(job, s) \in Pack
<1> DEFINE U == S \cup {s}
<1>1. \A r \in Resource : /\ Held(U)[r] = Held(S)[r] + SubGraphPack(job, s)[r]
                          /\ SubGraphPack(job, s)[r] \in Nat
  <2> SUFFICES ASSUME NEW r \in Resource
               PROVE  /\ Held(U)[r] = Held(S)[r] + SubGraphPack(job, s)[r]
                      /\ SubGraphPack(job, s)[r] \in Nat
    OBVIOUS
  <2>1. CASE r = "memory"
    <3> DEFINE M(V) == {x \in V : OpenTasks({x}) # {}}
    <3>1. M(U) \ {s} = M(S)
      OBVIOUS
    <3>2. s \in M(U)
      <4>1. PICK t \in Task : job.sg[t] = s
        BY DEF SubGraphsOf
      <4>2. t \in OpenTasks({s})
        BY <4>1 DEF OpenTasks, TasksOf
      <4> QED BY <4>2
    <3>3. IsFiniteSet(M(U)) /\ \A x \in M(U) : job.memory[x] \in Int
      <4>1. M(U) \in SUBSET SubGraphsOf(job)
        OBVIOUS
      <4>2. IsFiniteSet(M(U))
        BY <4>1, JobFields, FS_Subset
      <4> QED BY <4>1, <4>2, JobFields
    <3>4. SumFunctionOnSet(job.memory, M(U))
            = job.memory[s] + SumFunctionOnSet(job.memory, M(S))
      <4> DEFINE A == M(U)
      <4>1. A \ {s} = M(S) /\ s \in A /\ IsFiniteSet(A)
              /\ \A x \in A : job.memory[x] \in Int
        BY <3>1, <3>2, <3>3
      <4> HIDE DEF A
      <4>2. SumFunctionOnSet(job.memory, A)
              = job.memory[s] + SumFunctionOnSet(job.memory, A \ {s})
        BY <4>1, SumRemove
      <4> QED BY <4>1, <4>2 DEF A
    <3>5. Held(S)[r] \in Nat /\ job.memory[s] \in Nat
      BY HeldType, JobFields DEF Pack
    <3>6. /\ Held(U)[r] = SumFunctionOnSet(job.memory, M(U))
          /\ Held(S)[r] = SumFunctionOnSet(job.memory, M(S))
          /\ SubGraphPack(job, s)[r] = job.memory[s]
      BY <2>1 DEF Held, SubGraphPack
    <3> HIDE DEF M, U
    <3> QED BY <3>4, <3>5, <3>6
  <2>2. CASE r # "memory"
    <3> DEFINE T(V) == {t \in OpenTasks(V) : job.kind[t] = r}
               R == {t \in TasksOf(job, s) : job.kind[t] = r}
    <3>1. T(U) = T(S) \cup R /\ T(S) \cap R = {}
      BY DEF OpenTasks, TasksOf
    <3>2. /\ IsFiniteSet(T(S)) /\ IsFiniteSet(R) /\ R \subseteq Task
          /\ \A t \in T(S) \cup R : job.req[t] \in Int
      <4>1. T(S) \in SUBSET Task /\ R \in SUBSET Task
        BY DEF OpenTasks, TasksOf
      <4> HIDE DEF T, R
      <4> QED BY <4>1, JobFields
    <3>3. /\ SumFunctionOnSet(job.req, T(U))
               = SumFunctionOnSet(job.req, T(S)) + SumFunctionOnSet(job.req, R)
          /\ SumFunctionOnSet(job.req, R) \in Nat
      <4> HIDE DEF T, R
      <4>1. \A t \in R : job.req[t] \in Nat
        BY <3>2, JobFields
      <4>2. SumFunctionOnSet(job.req, R) \in Nat
        BY <3>2, <4>1, SumNat
      <4>3. SumFunctionOnSet(job.req, T(S) \cup R)
              = SumFunctionOnSet(job.req, T(S)) + SumFunctionOnSet(job.req, R)
        <5> DEFINE A == T(S)
        <5>1. A \cap R = {} /\ IsFiniteSet(A) /\ IsFiniteSet(R)
              /\ \A t \in A \cup R : job.req[t] \in Int
          BY <3>1, <3>2
        <5> HIDE DEF A
        <5>2. SumFunctionOnSet(job.req, A \cup R)
                = SumFunctionOnSet(job.req, A) + SumFunctionOnSet(job.req, R)
          BY <5>1, SumUnion
        <5> QED BY <5>2 DEF A
      <4> QED BY <3>1, <4>2, <4>3, Zenon
    <3>4. /\ Held(U)[r] = SumFunctionOnSet(job.req, T(U))
          /\ Held(S)[r] = SumFunctionOnSet(job.req, T(S))
          /\ SubGraphPack(job, s)[r] = SumFunctionOnSet(job.req, R)
      BY <2>2 DEF Held, SubGraphPack
    <3> HIDE DEF T, U, R
    <3> QED BY <3>3, <3>4
  <2> QED BY <2>1, <2>2
<1>2. SubGraphPack(job, s) \in Pack
  BY <1>1 DEF Pack, SubGraphPack
<1> QED BY <1>1, <1>2 DEF Held, Add

LEMMA OthersHoldAdd ==
  ASSUME NEW O \in SUBSET Others, NEW o \in Others, o \notin O, o \notin otherDone
  PROVE  OthersHold(O \cup {o}) = Add(OthersHold(O), OtherPack[o])
<1> DEFINE V == O \cup {o}
<1>1. ASSUME NEW r \in Resource
      PROVE  OthersHold(V)[r] = OthersHold(O)[r] + OtherPack[o][r]
  <2> DEFINE f == [x \in Others |-> OtherPack[x][r]]
  <2>1. /\ (V \ otherDone) \ {o} = O \ otherDone
        /\ o \in V \ otherDone
        /\ IsFiniteSet(V \ otherDone)
        /\ \A x \in V \ otherDone : f[x] \in Int
        /\ f[o] = OtherPack[o][r] /\ f[o] \in Int
    BY ClusterAssumption, FS_Subset DEF Pack
  <2>2. /\ OthersHold(V)[r] = SumFunctionOnSet(f, V \ otherDone)
        /\ OthersHold(O)[r] = SumFunctionOnSet(f, O \ otherDone)
    BY DEF OthersHold
  <2>3. OthersHold(O)[r] \in Int
    BY OthersHoldType DEF Pack
  <2> HIDE DEF f, V
  <2>4. SumFunctionOnSet(f, V \ otherDone) = f[o] + SumFunctionOnSet(f, O \ otherDone)
    BY <2>1, SumRemove
  <2> QED BY <2>1, <2>2, <2>3, <2>4
<1> QED BY <1>1 DEF OthersHold, Add

AllFinished(F, s) == \A u \in TasksOf(job, s) : F[u] > 0

GivesBack(F, t) ==
  IF AllFinished(F, job.sg[t]) THEN Add(TaskPack(t), MemoryPack(job.sg[t]))
                               ELSE TaskPack(t)

(* A finished task gives back what it held, and the last one of a subgraph *)
(* the memory too.                                                         *)
LEMMA HeldFinish ==
  ASSUME JobTyped, NEW F \in [Task -> Nat], NEW t \in Task, F[t] = 0,
         NEW G \in [Task -> Nat], G[t] = 1, \A u \in Task : u # t => G[u] = F[u],
         NEW S \in SUBSET SubGraphsOf(job)
  PROVE  /\ GivesBack(G, t) \in Pack
         /\ job.sg[t] \notin S => HeldBy(G, S) = HeldBy(F, S)
         /\ job.sg[t] \in S => HeldBy(F, S) = Add(HeldBy(G, S), GivesBack(G, t))
<1> DEFINE s == job.sg[t]
           p == GivesBack(G, t)
<1>1. /\ job.kind[t] \in Resource \ {"memory"} /\ job.req[t] \in Nat
      /\ job.memory[s] \in Nat /\ s \in SubGraph
      /\ "memory" \in Resource
  BY JobFields, ClusterAssumption DEF Resource
<1>2. /\ TaskPack(t) \in Pack /\ MemoryPack(s) \in Pack
      /\ \A r \in Resource : TaskPack(t)[r] = IF r = job.kind[t] THEN job.req[t] ELSE 0
      /\ \A r \in Resource : MemoryPack(s)[r] = IF r = "memory" THEN job.memory[s] ELSE 0
  BY <1>1 DEF TaskPack, MemoryPack, NoPack, Pack
<1>3. p \in Pack
  BY <1>2, PackTypes DEF GivesBack
<1>4. \A r \in Resource : p[r] = IF r = "memory" THEN (IF AllFinished(G, s) THEN job.memory[s] ELSE 0)
                                 ELSE IF r = job.kind[t] THEN job.req[t] ELSE 0
  BY <1>1, <1>2 DEF Add, Pack, GivesBack
<1> HIDE DEF p
<1>5. \A u \in Task : /\ G[u] \in Nat /\ F[u] \in Nat
                      /\ G[u] = 0 <=> F[u] = 0 /\ u # t
  OBVIOUS
<1>6. HeldBy(F, S) \in Pack /\ HeldBy(G, S) \in Pack
  BY HeldByType
<1>7. HeldBy(F, S)["memory"] = HeldBy(G, S)["memory"] + (IF s \in S THEN p["memory"] ELSE 0)
  <2> DEFINE M(H) == {x \in S : OpenBy(H, {x}) # {}}
  <2>1. M(G) = IF AllFinished(G, s) THEN M(F) \ {s} ELSE M(F)
    <3>1. ASSUME NEW x \in S, x # s PROVE OpenBy(G, {x}) = OpenBy(F, {x})
      BY <1>5, <3>1 DEF OpenBy
    <3>2. OpenBy(G, {s}) = {} <=> AllFinished(G, s)
      BY <1>5 DEF OpenBy, TasksOf, AllFinished
    <3>3. OpenBy(F, {s}) # {}
      BY DEF OpenBy
    <3> HIDE DEF s
    <3> QED BY <3>1, <3>2, <3>3
  <2>2. s \in S <=> s \in M(F)
    BY DEF OpenBy
  <2>3. /\ IsFiniteSet(M(F)) /\ \A x \in M(F) : job.memory[x] \in Int
    <3>1. M(F) \in SUBSET SubGraphsOf(job)
      OBVIOUS
    <3>2. IsFiniteSet(M(F))
      BY <3>1, JobFields, FS_Subset
    <3> QED BY <3>1, <3>2, JobFields
  <2> DEFINE A == M(F)
             B == M(G)
  <2>4. /\ B = IF AllFinished(G, s) THEN A \ {s} ELSE A
        /\ s \in S <=> s \in A
        /\ IsFiniteSet(A) /\ \A x \in A : job.memory[x] \in Int
    BY <2>1, <2>2, <2>3
  <2>5. /\ HeldBy(F, S)["memory"] = SumFunctionOnSet(job.memory, A)
        /\ HeldBy(G, S)["memory"] = SumFunctionOnSet(job.memory, B)
    BY <1>1 DEF HeldBy
  <2>6. p["memory"] = IF AllFinished(G, s) THEN job.memory[s] ELSE 0
    BY <1>1, <1>4
  <2> HIDE DEF A, B, s
  <2>7. SumFunctionOnSet(job.memory, A)
          = SumFunctionOnSet(job.memory, A \ {s}) + (IF s \in A THEN job.memory[s] ELSE 0)
    BY <2>4, SumWithout
  <2>8. SumFunctionOnSet(job.memory, A) \in Int
    BY <2>4, SumType
  <2> QED BY <2>4, <2>5, <2>6, <2>7, <2>8
<1>8. ASSUME NEW r \in Resource, r # "memory"
      PROVE  HeldBy(F, S)[r] = HeldBy(G, S)[r] + (IF s \in S THEN p[r] ELSE 0)
  <2> DEFINE A == {u \in OpenBy(F, S) : job.kind[u] = r}
             B == {u \in OpenBy(G, S) : job.kind[u] = r}
  <2>1. B = A \ {t}
    BY <1>5 DEF OpenBy
  <2>2. t \in A <=> s \in S /\ r = job.kind[t]
    BY DEF OpenBy
  <2>3. A \in SUBSET Task
    BY DEF OpenBy
  <2>4. /\ HeldBy(F, S)[r] = SumFunctionOnSet(job.req, A)
        /\ HeldBy(G, S)[r] = SumFunctionOnSet(job.req, B)
    BY <1>8 DEF HeldBy
  <2>5. p[r] = IF r = job.kind[t] THEN job.req[t] ELSE 0
    BY <1>4, <1>8
  <2> HIDE DEF A, B, s
  <2>6. IsFiniteSet(A) /\ \A u \in A : job.req[u] \in Int
    BY <2>3, JobFields
  <2>7. SumFunctionOnSet(job.req, A)
          = SumFunctionOnSet(job.req, A \ {t}) + (IF t \in A THEN job.req[t] ELSE 0)
    BY <2>6, SumWithout
  <2> QED BY <2>1, <2>2, <2>4, <2>5, <2>7
<1>9. ASSUME NEW r \in Resource
      PROVE  /\ HeldBy(F, S)[r] = HeldBy(G, S)[r] + (IF s \in S THEN p[r] ELSE 0)
             /\ HeldBy(F, S)[r] \in Nat /\ HeldBy(G, S)[r] \in Nat
  BY <1>6, <1>7, <1>8 DEF Pack
<1> HIDE DEF s
<1>10. ASSUME s \notin S PROVE HeldBy(G, S) = HeldBy(F, S)
  <2>1. ASSUME NEW r \in Resource PROVE HeldBy(G, S)[r] = HeldBy(F, S)[r]
    <3> DEFINE z == IF s \in S THEN p[r] ELSE 0
    <3>1. z = 0
      BY <1>10
    <3>2. HeldBy(F, S)[r] = HeldBy(G, S)[r] + z /\ HeldBy(G, S)[r] \in Nat
      BY <1>9
    <3> HIDE DEF z
    <3> QED BY <3>1, <3>2
  <2> QED BY <2>1 DEF HeldBy
<1>11. s \in S => HeldBy(F, S) = Add(HeldBy(G, S), p)
  <2>1. s \in S => \A r \in Resource : HeldBy(F, S)[r] = HeldBy(G, S)[r] + p[r]
    BY <1>9
  <2> QED BY <1>6, <2>1 DEF Pack, Add
<1> QED BY <1>3, <1>10, <1>11 DEF s, p

LEMMA OthersFinish ==
  ASSUME NEW E, NEW o \in Others \ E, NEW O \in SUBSET Others
  PROVE  /\ o \notin O => OthersBy(E \cup {o}, O) = OthersBy(E, O)
         /\ o \in O => OthersBy(E, O) = Add(OthersBy(E \cup {o}, O), OtherPack[o])
<1> DEFINE G == E \cup {o}
<1>1. o \notin O => OthersBy(G, O) = OthersBy(E, O)
  <2>1. o \notin O => O \ G = O \ E
    OBVIOUS
  <2> QED BY <2>1 DEF OthersBy
<1>2. ASSUME NEW r \in Resource, o \in O
      PROVE  OthersBy(E, O)[r] = OthersBy(G, O)[r] + OtherPack[o][r]
  <2> DEFINE f == [x \in Others |-> OtherPack[x][r]]
             A == O \ E
  <2>1. /\ A \ {o} = O \ G /\ o \in A
        /\ IsFiniteSet(A)
        /\ \A x \in A : f[x] \in Int
        /\ f[o] = OtherPack[o][r] /\ f[o] \in Int
    BY <1>2, ClusterAssumption, FS_Subset DEF Pack
  <2>2. /\ OthersBy(E, O)[r] = SumFunctionOnSet(f, A)
        /\ OthersBy(G, O)[r] = SumFunctionOnSet(f, O \ G)
    BY DEF OthersBy
  <2> HIDE DEF f, A, G
  <2>4. OthersBy(G, O) \in Pack
    BY OthersByType
  <2>5. OthersBy(G, O)[r] \in Int
    BY <2>4 DEF Pack
  <2>3. SumFunctionOnSet(f, A) = f[o] + SumFunctionOnSet(f, O \ G)
    BY <2>1, SumRemove
  <2> QED BY <2>1, <2>2, <2>3, <2>5
<1>3. OthersBy(E, O) \in Pack /\ OthersBy(G, O) \in Pack
  BY OthersByType
<1>4. o \in O => OthersBy(E, O) = Add(OthersBy(G, O), OtherPack[o])
  <2> HIDE DEF G
  <2> QED BY <1>2, <1>3 DEF Add, Pack
<1> QED BY <1>1, <1>4

-----------------------------------------------------------------------------
(* The inductive invariant.                                                *)

Requests == SubGraphsOf(job) \cup Others

MessagesTyped ==
  /\ requested \subseteq SubGraphsOf(job)
  /\ reqEvents \subseteq Requests
  /\ decisions \subseteq Requests \X Worker
  /\ handled \in 0 .. available + Cardinality(otherDone)
  /\ reqQueue \in Seq(Requests)
  /\ lastWorker \in Worker
  /\ userShare \in [User -> Pack]
  /\ otherWorker \in [Others -> Worker \cup {NoWorker}]
  /\ otherDone \subseteq Others
  /\ jobRecords \in Seq({"job"} \cup Others)

(* The requests decisions are about, and all that are not yet answered.    *)
DecidedIn(D) == {d[1] : d \in D}
Waiting == reqEvents \cup Range(reqQueue) \cup DecidedIn(decisions)

(* A request waits in one place only, and only if it is open.              *)
OnePlace ==
  /\ reqEvents \cap Range(reqQueue) = {}
  /\ reqEvents \cap DecidedIn(decisions) = {}
  /\ Range(reqQueue) \cap DecidedIn(decisions) = {}
  /\ Distinct(reqQueue)
  /\ \A d, e \in decisions : d[1] = e[1] => d = e
  /\ \A s \in SubGraph : reqs[s] = IF s \in Waiting THEN 1 ELSE 0
  /\ \A o \in Others : o \in Waiting => otherWorker[o] = NoWorker

OthersInOrder ==
  \A o \in Others : o \in otherDone => otherWorker[o] # NoWorker

CInv ==
  /\ JobTyped
  /\ MessagesTyped
  /\ OnePlace
  /\ OthersInOrder
  /\ reservation \in [Worker -> Pack]
  /\ ReservationExact
  /\ UserShareExact
  /\ NeverOverReserved

-----------------------------------------------------------------------------
(* What one request adds to the load of a worker.                          *)

AssignedWith(D, w) == {s \in SubGraphsOf(job) : workerId[s] = w \/ <<s, w>> \in D}
TakenWith(D, w) == {o \in Others : otherWorker[o] = w \/ <<o, w>> \in D}
LoadWith(D, w) == Add(Held(AssignedWith(D, w)), OthersHold(TakenWith(D, w)))

(* Nothing has been done for request r yet.                                *)
Fresh(r) ==
  /\ r \in Requests
  /\ r \in Others => otherWorker[r] = NoWorker /\ r \notin otherDone
  /\ r \notin Others => /\ workerId[r] = NoWorker
                        /\ \A t \in TasksOf(job, r) : finished[t] = 0

LEMMA LoadType ==
  ASSUME JobTyped, NEW D, NEW w
  PROVE  /\ Held(AssignedWith(D, w)) \in Pack
         /\ OthersHold(TakenWith(D, w)) \in Pack
         /\ LoadWith(D, w) \in Pack
<1>1. AssignedWith(D, w) \in SUBSET SubGraphsOf(job) /\ TakenWith(D, w) \in SUBSET Others
  BY DEF AssignedWith, TakenWith
<1> QED BY <1>1, HeldType, OthersHoldType, PackTypes DEF LoadWith

LEMMA LoadStep ==
  ASSUME JobTyped, NEW D, NEW r, Fresh(r), r \notin DecidedIn(D),
         NEW w \in Worker
  PROVE  /\ LoadWith(D \cup {<<r, w>>}, w) = Add(LoadWith(D, w), PackOf(r))
         /\ \A v \in Worker : v # w => LoadWith(D \cup {<<r, w>>}, v) = LoadWith(D, v)
         /\ PackOf(r) \in Pack
<1> DEFINE E == D \cup {<<r, w>>}
           H == Held(AssignedWith(D, w))
           O == OthersHold(TakenWith(D, w))
<1>1. \A v \in Worker : v # w => LoadWith(E, v) = LoadWith(D, v)
  BY DEF LoadWith, AssignedWith, TakenWith
<1>2. \A v : <<r, v>> \notin D
  BY DEF DecidedIn
<1>3. H \in IntPack /\ O \in IntPack /\ w # NoWorker
  BY LoadType, PackTypes, WorkerAssumption
<1>4. CASE r \in Others
  <2>1. AssignedWith(E, w) = AssignedWith(D, w)
    BY <1>4, JobFields DEF AssignedWith
  <2>2. /\ TakenWith(E, w) = TakenWith(D, w) \cup {r}
        /\ r \notin TakenWith(D, w) /\ r \notin otherDone
        /\ TakenWith(D, w) \in SUBSET Others
    BY <1>2, <1>3, <1>4 DEF TakenWith, Fresh
  <2>3. OthersHold(TakenWith(E, w)) = Add(O, OtherPack[r])
    BY <1>4, <2>2, OthersHoldAdd
  <2>4. OtherPack[r] \in Pack /\ PackOf(r) = OtherPack[r]
    BY <1>4, ClusterAssumption DEF PackOf
  <2>5. Add(H, Add(O, PackOf(r))) = Add(Add(H, O), PackOf(r))
    <3> HIDE DEF H, O
    <3>1. PackOf(r) \in IntPack
      BY <2>4, PackTypes
    <3> QED BY <1>3, <3>1, PackArithmetic
  <2> QED BY <1>1, <2>1, <2>3, <2>4, <2>5 DEF LoadWith
<1>5. CASE r \notin Others
  <2>1. TakenWith(E, w) = TakenWith(D, w)
    BY <1>5 DEF TakenWith
  <2>2. /\ AssignedWith(E, w) = AssignedWith(D, w) \cup {r}
        /\ r \notin AssignedWith(D, w) /\ r \in SubGraphsOf(job)
        /\ \A t \in TasksOf(job, r) : finished[t] = 0
        /\ AssignedWith(D, w) \in SUBSET SubGraphsOf(job)
    BY <1>2, <1>3, <1>5 DEF AssignedWith, Fresh, Requests
  <2>3. /\ Held(AssignedWith(E, w)) = Add(H, SubGraphPack(job, r))
        /\ SubGraphPack(job, r) \in Pack
    BY <2>2, HeldAdd
  <2>4. PackOf(r) \in Pack /\ PackOf(r) = SubGraphPack(job, r)
    BY <1>5, <2>3 DEF PackOf
  <2>5. Add(Add(H, PackOf(r)), O) = Add(Add(H, O), PackOf(r))
    <3> HIDE DEF H, O
    <3>1. PackOf(r) \in IntPack
      BY <2>4, PackTypes
    <3>2. Add(Add(H, PackOf(r)), O) = Add(H, Add(PackOf(r), O))
      BY <1>3, <3>1, PackArithmetic
    <3>3. Add(PackOf(r), O) = Add(O, PackOf(r))
      BY <1>3, <3>1, PackArithmetic
    <3> QED BY <1>3, <3>1, <3>2, <3>3, PackArithmetic
  <2> QED BY <1>1, <2>1, <2>3, <2>4, <2>5 DEF LoadWith
<1> QED BY <1>4, <1>5

-----------------------------------------------------------------------------
(* The round of FIFO.                                                      *)

LEMMA TurnType == ASSUME lastWorker \in Worker, NEW i \in Nat PROVE Turn(i) \in Worker
<1>1. lastWorker + i \in Nat /\ NWorker \in Nat \ {0}
  BY ClusterAssumption
<1>2. (lastWorker + i) % NWorker \in 0 .. NWorker - 1
  BY <1>1
<1> QED BY <1>2, ClusterAssumption DEF Turn

IsReserved(res, q, n) ==
  res = [i \in 0 .. n |->
           IF i = 0 THEN reservation
           ELSE [res[i - 1] EXCEPT ![Turn(i)] = Add(@, PackOf(q[i]))]]

LEMMA ReservedExists == ASSUME NEW q, NEW n \in Nat PROVE \E res : IsReserved(res, q, n)
<1> DEFINE P == {k \in Nat : \E res : IsReserved(res, q, k)}
<1>1. 0 \in P
  <2> DEFINE res == [i \in 0 .. 0 |-> reservation]
  <2>1. IsReserved(res, q, 0)
    BY DEF IsReserved
  <2> QED BY <2>1
<1>2. ASSUME NEW k \in Nat, k \in P PROVE k + 1 \in P
  <2>1. PICK res : IsReserved(res, q, k)
    BY <1>2
  <2> DEFINE last == [res[k] EXCEPT ![Turn(k + 1)] = Add(@, PackOf(q[k + 1]))]
             new == [i \in 0 .. k + 1 |-> IF i = k + 1 THEN last ELSE res[i]]
  <2>2. \A i \in 0 .. k : res[i] =
           IF i = 0 THEN reservation
           ELSE [res[i - 1] EXCEPT ![Turn(i)] = Add(@, PackOf(q[i]))]
    BY <2>1 DEF IsReserved
  <2> HIDE DEF last
  <2>3. ASSUME NEW i \in 0 .. k + 1
        PROVE  new[i] = IF i = 0 THEN reservation
                        ELSE [new[i - 1] EXCEPT ![Turn(i)] = Add(@, PackOf(q[i]))]
    <3>1. CASE i = k + 1
      <4>1. new[i] = last /\ new[i - 1] = res[k] /\ i # 0
        BY <3>1
      <4> QED BY <3>1, <4>1 DEF last
    <3>2. CASE i # k + 1
      <4>1. new[i] = res[i] /\ i \in 0 .. k /\ (i # 0 => new[i - 1] = res[i - 1])
        BY <3>2
      <4> QED BY <2>2, <4>1
    <3> QED BY <3>1, <3>2
  <2>4. IsReserved(new, q, k + 1)
    <3>1. new = [i \in 0 .. k + 1 |-> new[i]]
      OBVIOUS
    <3> HIDE DEF new
    <3> QED BY <2>3, <3>1 DEF IsReserved
  <2> QED BY <2>4
<1> QED
  <2> HIDE DEF P
  <2>1. n \in P
    BY <1>1, <1>2, SetInduction
  <2> QED BY <2>1 DEF P

LEMMA ReservedStep ==
  ASSUME NEW R, NEW q \in Seq(R), NEW i \in 0 .. Len(q)
  PROVE  Reserved(q)[i] =
           IF i = 0 THEN reservation
           ELSE [Reserved(q)[i - 1] EXCEPT ![Turn(i)] = Add(@, PackOf(q[i]))]
<1>1. Reserved(q) = CHOOSE res : IsReserved(res, q, Len(q))
  BY Zenon DEF Reserved, IsReserved
<1>2. IsReserved(Reserved(q), q, Len(q))
  BY <1>1, ReservedExists
<1> QED BY <1>2 DEF IsReserved

LEMMA CountPlacedExact ==
  ASSUME NEW R, NEW q \in Seq(R)
  PROVE  /\ CountPlaced(q) \in 0 .. Len(q)
         /\ \A i \in 1 .. CountPlaced(q) : CanReserve(q, i)
<1> DEFINE F == {i \in 1 .. Len(q) : ~CanReserve(q, i)}
           Stops(n) == /\ \A i \in 1 .. n : CanReserve(q, i)
                       /\ n < Len(q) => ~CanReserve(q, n + 1)
<1>1. Len(q) \in Nat
  OBVIOUS
<1>2. \E n \in 0 .. Len(q) : Stops(n)
  <2>1. CASE F = {}
    BY <2>1, <1>1
  <2>2. CASE F # {}
    <3>1. F \in SUBSET Nat
      OBVIOUS
    <3>2. PICK m \in F : \A k \in F : m <= k
      <4> HIDE DEF F
      <4> QED BY <2>2, <3>1, LeastElement
    <3>3. m \in 1 .. Len(q) /\ m - 1 \in 0 .. Len(q) /\ ~CanReserve(q, m)
      BY <1>1
    <3>4. ASSUME NEW i \in 1 .. m - 1 PROVE CanReserve(q, i)
      <4>1. i \in 1 .. Len(q) /\ ~(m <= i)
        BY <1>1, <3>3
      <4> QED BY <4>1, <3>2
    <3>5. Stops(m - 1)
      <4>1. (m - 1) + 1 = m
        BY <3>3
      <4> QED BY <3>3, <3>4, <4>1
    <3> QED BY <3>3, <3>5
  <2> QED BY <2>1, <2>2
<1>3. CountPlaced(q) = CHOOSE n \in 0 .. Len(q) : Stops(n)
  BY DEF CountPlaced
<1> HIDE DEF Stops
<1>4. CountPlaced(q) \in 0 .. Len(q) /\ Stops(CountPlaced(q))
  BY <1>2, <1>3
<1> QED BY <1>4 DEF Stops

(* A round of scheduling takes the requests of D from the queue q, reserves*)
(* for each what it asks for, and no worker is reserved too much.          *)
Round(q, D) ==
  /\ D \subseteq Range(q) \X Worker
  /\ \A d, e \in D : d[1] = e[1] => d = e
  /\ decisions' = decisions \cup D
  /\ reqQueue' \in Seq(Range(q))
  /\ Distinct(reqQueue')
  /\ Range(reqQueue') = Range(q) \ DecidedIn(D)
  /\ lastWorker' \in Worker
  /\ reservation' \in [Worker -> Pack]
  /\ \A w \in Worker : reservation'[w] = LoadWith(decisions \cup D, w)
  /\ \A w \in Worker : reservation'[w] # NoPack => FitIn(reservation'[w], Limit[w])

(* What may be handed to a scheduling round.                               *)
QueueReady(q) ==
  /\ q \in Seq(Requests)
  /\ Distinct(q)
  /\ Range(q) \cap DecidedIn(decisions) = {}
  /\ \A r \in Range(q) : Fresh(r)

LEMMA FIFORound ==
  ASSUME JobTyped, lastWorker \in Worker, reservation \in [Worker -> Pack],
         ReservationExact, NeverOverReserved,
         NEW q, QueueReady(q), FIFO(q)
  PROVE  \E D : Round(q, D)
<1> DEFINE n == CountPlaced(q)
           DD(i) == {<<q[k], Turn(k)>> : k \in 1 .. i}
           E(i) == decisions \cup DD(i)
           Good(res, i) ==
             /\ res \in [Worker -> Pack]
             /\ \A w \in Worker : /\ res[w] = LoadWith(E(i), w)
                                  /\ res[w] # NoPack => FitIn(res[w], Limit[w])
<1>1. /\ q \in Seq(Requests) /\ Len(q) \in Nat /\ n \in 0 .. Len(q)
      /\ \A i \in 1 .. n : CanReserve(q, i)
      /\ DOMAIN q = 1 .. Len(q)
  BY CountPlacedExact DEF QueueReady
<1> HIDE DEF n
<1>2. Good(Reserved(q)[0], 0)
  <2>1. Reserved(q)[0] = reservation
    <3>1. 0 \in 0 .. Len(q)
      BY <1>1
    <3> QED BY <1>1, <3>1, ReservedStep
  <2>2. E(0) = decisions
    OBVIOUS
  <2> QED BY <2>1, <2>2
          DEF ReservationExact, NeverOverReserved, LoadWith, AssignedTo, AssignedWith, TakenWith
<1>3. ASSUME NEW i \in Nat, i + 1 <= n, Good(Reserved(q)[i], i)
      PROVE  Good(Reserved(q)[i + 1], i + 1)
  <2> DEFINE r == q[i + 1]
             w == Turn(i + 1)
             old == Reserved(q)[i]
             new == Reserved(q)[i + 1]
  <2>1. i + 1 \in 1 .. n /\ i + 1 \in 1 .. Len(q) /\ i + 1 \in Nat
        /\ i + 1 \in 0 .. Len(q) /\ (i + 1) - 1 = i /\ i + 1 # 0
    BY <1>1, <1>3
  <2>2. w \in Worker
    BY <2>1, TurnType
  <2>3. new = [old EXCEPT ![w] = Add(@, PackOf(r))]
    BY <1>1, <2>1, ReservedStep
  <2>4. FitIn(new[w], Limit[w])
    BY <1>1, <2>1 DEF CanReserve
  <2>5. E(i + 1) = E(i) \cup {<<r, w>>}
    <3>1. \A k : k \in 1 .. i + 1 <=> k \in 1 .. i \/ k = i + 1
      BY <2>1
    <3> QED BY <3>1
  <2>6. Fresh(r) /\ r \notin DecidedIn(E(i))
    <3>1. r \in Range(q)
      BY <1>1, <2>1 DEF Range
    <3>2. \A k \in 1 .. i : q[k] # r
      <4>1. ASSUME NEW k \in 1 .. i PROVE q[k] # r
        <5>1. k \in 1 .. Len(q) /\ k # i + 1
          BY <1>1, <2>1
        <5> QED BY <5>1, <2>1 DEF QueueReady, Distinct
      <4> QED BY <4>1
    <3> QED BY <3>1, <3>2 DEF QueueReady, DecidedIn
  <2> HIDE DEF r, w, old, new, E
  <2>7. /\ LoadWith(E(i + 1), w) = Add(LoadWith(E(i), w), PackOf(r))
        /\ \A v \in Worker : v # w => LoadWith(E(i + 1), v) = LoadWith(E(i), v)
    BY <2>2, <2>5, <2>6, LoadStep
  <2>8. old \in [Worker -> Pack] /\ \A v \in Worker : old[v] = LoadWith(E(i), v)
    BY <1>3 DEF old
  <2>9. /\ new[w] = Add(old[w], PackOf(r))
        /\ \A v \in Worker : v # w => new[v] = old[v]
        /\ new = [v \in Worker |-> new[v]]
    BY <2>2, <2>3, <2>8
  <2>10. \A v \in Worker : new[v] = LoadWith(E(i + 1), v)
    BY <2>7, <2>8, <2>9
  <2>11. new \in [Worker -> Pack]
    BY <2>9, <2>10, LoadType
  <2>12. \A v \in Worker : new[v] # NoPack => FitIn(new[v], Limit[v])
    BY <1>3, <2>4, <2>9 DEF old
  <2> QED BY <2>10, <2>11, <2>12 DEF new
<1>4. Good(Reserved(q)[n], n)
  <2> DEFINE P == {i \in Nat : i <= n => Good(Reserved(q)[i], i)}
  <2> HIDE DEF Good
  <2>1. 0 \in P
    BY <1>2
  <2>2. ASSUME NEW i \in Nat, i \in P PROVE i + 1 \in P
    BY <1>1, <1>3, <2>2
  <2> HIDE DEF P
  <2>3. n \in P
    BY <1>1, <2>1, <2>2, SetInduction
  <2> QED BY <1>1, <2>3 DEF P
<1> DEFINE D == DD(n)
           rest == SubSeq(q, n + 1, Len(q))
<1>5. /\ decisions' = decisions \cup D /\ reservation' = Reserved(q)[n]
      /\ reqQueue' = rest
      /\ lastWorker' \in {Turn(n), Turn(n + 1)}
  BY DEF FIFO, n
<1>6. lastWorker' \in Worker
  BY <1>1, <1>5, TurnType
<1>7. D \subseteq Range(q) \X Worker
  <2>1. ASSUME NEW k \in 1 .. n PROVE q[k] \in Range(q) /\ Turn(k) \in Worker
    BY <1>1, TurnType DEF Range
  <2> QED BY <2>1
<1>8. \A i, k \in 1 .. Len(q) : q[i] = q[k] => i = k
  BY DEF QueueReady, Distinct
<1>9. \A d, e \in D : d[1] = e[1] => d = e
  <2>1. 1 .. n \subseteq 1 .. Len(q)
    BY <1>1
  <2> QED BY <1>8, <2>1
<1>10. /\ rest \in Seq(Range(q)) /\ Len(rest) = Len(q) - n
       /\ \A k \in 1 .. Len(q) - n : rest[k] = q[n + k]
       /\ DOMAIN rest = 1 .. Len(q) - n
  <2>1. \A k \in n + 1 .. Len(q) : q[k] \in Range(q)
    BY <1>1 DEF Range
  <2>2. n + 1 \in Int /\ Len(q) \in Int
    BY <1>1
  <2>3. /\ rest \in Seq(Range(q))
        /\ Len(rest) = IF n + 1 <= Len(q) THEN Len(q) - (n + 1) + 1 ELSE 0
        /\ \A k \in 1 .. Len(q) - (n + 1) + 1 : rest[k] = q[(n + 1) + k - 1]
    BY <2>1, <2>2, SubSeqProperties
  <2> HIDE DEF rest
  <2>4. Len(rest) = Len(q) - n /\ Len(q) - (n + 1) + 1 = Len(q) - n
    <3>1. n \in Nat /\ Len(q) \in Nat /\ n <= Len(q)
      BY <1>1
    <3>2. CASE n + 1 <= Len(q)
      BY <1>1, <2>3, <3>1, <3>2
    <3>3. CASE ~(n + 1 <= Len(q))
      <4>1. Len(rest) = 0
        BY <2>3, <3>3
      <4>2. n = Len(q)
        BY <3>1, <3>3
      <4> QED BY <3>1, <4>1, <4>2
    <3> QED BY <3>2, <3>3
  <2>5. \A k \in 1 .. Len(q) - n : (n + 1) + k - 1 = n + k
    BY <1>1
  <2> QED BY <2>3, <2>4, <2>5
<1> HIDE DEF rest
<1>11. Distinct(rest)
  <2>1. ASSUME NEW i \in 1 .. Len(q) - n, NEW k \in 1 .. Len(q) - n, rest[i] = rest[k]
        PROVE  i = k
    <3>1. n + i \in 1 .. Len(q) /\ n + k \in 1 .. Len(q)
      BY <1>1
    <3>2. n + i = n + k
      BY <1>8, <1>10, <2>1, <3>1
    <3> QED BY <1>1, <3>2
  <2> QED BY <1>10, <2>1 DEF Distinct
<1>12. Range(rest) = Range(q) \ DecidedIn(D)
  <2>1. Range(rest) = {q[k] : k \in n + 1 .. Len(q)}
    <3>1. ASSUME NEW k \in 1 .. Len(q) - n PROVE n + k \in n + 1 .. Len(q)
      BY <1>1
    <3>2. ASSUME NEW k \in n + 1 .. Len(q)
          PROVE  k - n \in 1 .. Len(q) - n /\ n + (k - n) = k
      BY <1>1
    <3> QED BY <1>10, <3>1, <3>2 DEF Range
  <2>2. DecidedIn(D) = {q[k] : k \in 1 .. n}
    <3>1. \A k \in 1 .. n : <<q[k], Turn(k)>> \in D /\ <<q[k], Turn(k)>>[1] = q[k]
      OBVIOUS
    <3>2. \A d \in D : \E k \in 1 .. n : d[1] = q[k]
      OBVIOUS
    <3> HIDE DEF D
    <3>3. ASSUME NEW x \in DecidedIn(D) PROVE x \in {q[k] : k \in 1 .. n}
      BY <3>2 DEF DecidedIn
    <3>4. ASSUME NEW k \in 1 .. n PROVE q[k] \in DecidedIn(D)
      <4>1. PICK d \in D : d[1] = q[k]
        BY <3>1
      <4> QED BY <4>1 DEF DecidedIn
    <3> QED BY <3>3, <3>4
  <2>3. Range(q) = {q[k] : k \in 1 .. Len(q)}
    BY <1>1 DEF Range
  <2>4. \A k : k \in 1 .. Len(q) <=> k \in 1 .. n \/ k \in n + 1 .. Len(q)
    BY <1>1
  <2>5. \A k \in 1 .. n : k \notin n + 1 .. Len(q)
    BY <1>1
  <2> HIDE DEF D
  <2> QED BY <1>8, <2>1, <2>2, <2>3, <2>4, <2>5
<1>13. Round(q, D)
  BY <1>4, <1>5, <1>6, <1>7, <1>9, <1>10, <1>11, <1>12 DEF Round
<1> QED BY <1>13
-----------------------------------------------------------------------------
(* The invariant in terms of the variables before or after a step.         *)

AssignedBy(W, D, w) == {s \in SubGraphsOf(job) : W[s] = w \/ <<s, w>> \in D}
PlacedBy(W) == {s \in SubGraphsOf(job) : W[s] # NoWorker}
TakenBy(V, D, w) == {o \in Others : V[o] = w \/ <<o, w>> \in D}
RunBy(V, u) == {o \in Others : UserOf[o] = u /\ V[o] # NoWorker}

Reserves(res, F, E, W, V, D) ==
  \A w \in Worker :
     res[w] = Add(HeldBy(F, AssignedBy(W, D, w)), OthersBy(E, TakenBy(V, D, w)))

Shares(share, F, E, W, V) ==
  \A u \in User :
     share[u] = Add(IF u = JobUser THEN HeldBy(F, PlacedBy(W)) ELSE NoPack,
                    OthersBy(E, RunBy(V, u)))

LEMMA ExactNow ==
  /\ ReservationExact <=> Reserves(reservation, finished, otherDone, workerId,
                                   otherWorker, decisions)
  /\ UserShareExact <=> Shares(userShare, finished, otherDone, workerId, otherWorker)
BY DEF ReservationExact, UserShareExact, Reserves, Shares, Held, HeldBy, OpenTasks, OpenBy,
       OthersHold, OthersBy, AssignedTo, AssignedBy, PlacedBy, TakenBy, RunBy

LEMMA ExactNext ==
  ASSUME job' = job
  PROVE  /\ ReservationExact' <=> Reserves(reservation', finished', otherDone', workerId',
                                           otherWorker', decisions')
         /\ UserShareExact' <=> Shares(userShare', finished', otherDone', workerId',
                                       otherWorker')
BY DEF ReservationExact, UserShareExact, Reserves, Shares, Held, HeldBy, OpenTasks, OpenBy,
       OthersHold, OthersBy, AssignedTo, AssignedBy, PlacedBy, TakenBy, RunBy, SubGraphsOf

-----------------------------------------------------------------------------
(* Steps that announce and hand out requests.                              *)

(* Nothing has been done for a request that still waits.                   *)
LEMMA FreshWaiting ==
  ASSUME IInv, CInv, NEW r \in Waiting
  PROVE  Fresh(r)
<1>1. r \in Requests
  <2>1. Range(reqQueue) \subseteq Requests
    BY DEF CInv, MessagesTyped, Range
  <2>2. DecidedIn(decisions) \subseteq Requests
    BY DEF CInv, MessagesTyped, DecidedIn
  <2> QED BY <2>1, <2>2 DEF CInv, MessagesTyped, Waiting
<1>2. CASE r \in Others
  BY <1>1, <1>2 DEF CInv, OnePlace, OthersInOrder, Fresh
<1>3. CASE r \notin Others
  <2>1. r \in SubGraph
    BY <1>1, <1>3, JobFields DEF Requests, CInv
  <2>2. workerId[r] = NoWorker
    BY <2>1 DEF CInv, OnePlace, IInv, RequestsCounted
  <2>3. ASSUME NEW t \in TasksOf(job, r) PROVE finished[t] = 0
    <3>1. t \in Task /\ job.sg[t] = r
      BY DEF TasksOf
    <3>2. placed[t] = << >> /\ finished[t] \in Nat /\ finished[t] <= Len(placed[t])
      BY <2>2, <3>1 DEF IInv, HandedOut, FinishedWasPlaced, TypeOK
    <3> QED BY <3>2
  <2> QED BY <1>1, <1>3, <2>2, <2>3 DEF Fresh
<1> QED BY <1>2, <1>3

(* A queue that holds what waited and the new requests of R is ready for a *)
(* round.                                                                  *)
LEMMA ReadyForRound ==
  ASSUME IInv, CInv, NEW q \in Seq(Requests), Distinct(q), NEW R \in SUBSET reqEvents,
         Range(q) = Range(reqQueue) \cup R
  PROVE  QueueReady(q)
<1> USE DEF CInv
<1>1. \A r \in Range(q) : r \in Waiting
  BY DEF Waiting
<1>2. Range(q) \cap DecidedIn(decisions) = {}
  BY DEF OnePlace
<1> QED BY <1>1, <1>2, FreshWaiting DEF QueueReady

(* A round on the queue, into which the requests of R have just been put.  *)
LEMMA RoundKeeps ==
  ASSUME IInv, CInv, NEW q \in Seq(Requests), Distinct(q), NEW R \in SUBSET reqEvents,
         Range(q) = Range(reqQueue) \cup R, reqEvents' = reqEvents \ R,
         handled' \in 0 .. available + Cardinality(otherDone),
         NEW D, Round(q, D), UNCHANGED <<vars, userShare, otherWorker, otherDone, jobRecords>>
  PROVE  CInv'
<1>1. QueueReady(q)
  BY ReadyForRound
<1> USE DEF CInv
<1>2. Round(q, D)
  OBVIOUS
<1>3. /\ job' = job /\ workerId' = workerId /\ finished' = finished /\ reqs' = reqs
      /\ requested' = requested /\ available' = available
      /\ otherWorker' = otherWorker /\ otherDone' = otherDone
      /\ userShare' = userShare /\ jobRecords' = jobRecords
  BY DEF vars
<1>4. JobTyped'
  BY <1>3 DEF JobTyped
<1>5. Range(q) \subseteq Requests
  BY DEF Range
<1>6. decisions' = decisions \cup D /\ D \subseteq Requests \X Worker
  BY <1>2, <1>5 DEF Round
<1>7. MessagesTyped'
  <2>1. Requests' = Requests
    BY <1>3 DEF Requests
  <2>2. reqQueue' \in Seq(Requests)
    <3>1. reqQueue' \in Seq(Range(q)) /\ Seq(Range(q)) \subseteq Seq(Requests)
      BY <1>2, <1>5 DEF Round
    <3> QED BY <3>1
  <2> QED BY <1>2, <1>3, <1>6, <2>1, <2>2 DEF MessagesTyped, Round
<1>8. /\ DecidedIn(decisions') = DecidedIn(decisions) \cup DecidedIn(D)
      /\ DecidedIn(D) \subseteq Range(q)
  <2>1. \A d \in D : d[1] \in Range(q)
    BY <1>2 DEF Round
  <2> QED BY <1>6, <2>1 DEF DecidedIn
<1>9. Range(reqQueue') = Range(q) \ DecidedIn(D)
  BY <1>2 DEF Round
<1>10. OnePlace'
  <2>1. Waiting' = reqEvents' \cup Range(reqQueue') \cup DecidedIn(decisions')
    BY DEF Waiting, Range, DecidedIn
  <2>2. Waiting' = Waiting
    BY <1>8, <1>9, <2>1 DEF Waiting
  <2>3. /\ reqEvents' \cap Range(reqQueue') = {}
        /\ reqEvents' \cap DecidedIn(decisions') = {}
        /\ Range(reqQueue') \cap DecidedIn(decisions') = {}
    BY <1>8, <1>9 DEF OnePlace
  <2>4. Distinct(reqQueue')
    BY <1>2 DEF Round
  <2>5. ASSUME NEW d \in decisions', NEW e \in decisions', d[1] = e[1] PROVE d = e
    <3>1. CASE d \in decisions /\ e \in decisions
      BY <2>5, <3>1 DEF OnePlace
    <3>2. CASE d \in D /\ e \in D
      BY <1>2, <2>5, <3>2 DEF Round
    <3>3. \A x \in decisions, y \in D : x[1] # y[1]
      <4>1. \A x \in decisions : x[1] \in DecidedIn(decisions)
        BY DEF DecidedIn
      <4>2. \A y \in D : y[1] \in Range(q)
        BY <1>8 DEF DecidedIn
      <4> QED BY <1>1, <4>1, <4>2 DEF QueueReady
    <3> QED BY <1>6, <2>5, <3>1, <3>2, <3>3
  <2>6. /\ \A s \in SubGraph : reqs'[s] = IF s \in Waiting' THEN 1 ELSE 0
        /\ \A o \in Others : o \in Waiting' => otherWorker'[o] = NoWorker
    BY <1>3, <2>2 DEF OnePlace
  <2>7. \A i, k \in 1 .. Len(reqQueue') : reqQueue'[i] = reqQueue'[k] => i = k
    BY <2>4 DEF Distinct
  <2> QED BY <2>3, <2>5, <2>6, <2>7 DEF OnePlace, DecidedIn, Distinct, Range
<1>11. OthersInOrder'
  BY <1>3 DEF OthersInOrder
<1>12. (reservation \in [Worker -> Pack])'
  BY <1>2 DEF Round, Pack
<1>13. ReservationExact'
  <2>1. ASSUME NEW w \in Worker
        PROVE  reservation'[w] = Add(HeldBy(finished, AssignedBy(workerId, decisions', w)),
                                     OthersBy(otherDone, TakenBy(otherWorker, decisions', w)))
    <3>1. reservation'[w] = LoadWith(decisions', w)
      BY <1>2, <1>6 DEF Round
    <3> QED
      BY <3>1 DEF LoadWith, AssignedWith, AssignedBy, TakenWith, TakenBy,
                  Held, HeldBy, OpenTasks, OpenBy, OthersHold, OthersBy
  <2> QED BY <1>3, <2>1, ExactNext DEF Reserves
<1>14. UserShareExact'
  BY <1>3, ExactNow, ExactNext
<1>15. NeverOverReserved'
  BY <1>2 DEF NeverOverReserved, Round, FitIn
<1> QED BY <1>4, <1>7, <1>10, <1>11, <1>12, <1>13, <1>14, <1>15

(* The same for a round of FIFO.                                           *)
LEMMA RoundInvariant ==
  ASSUME IInv, CInv, NEW q \in Seq(Requests), Distinct(q), NEW R \in SUBSET reqEvents,
         Range(q) = Range(reqQueue) \cup R, reqEvents' = reqEvents \ R,
         handled' \in 0 .. available + Cardinality(otherDone),
         FIFO(q), UNCHANGED <<vars, userShare, otherWorker, otherDone, jobRecords>>
  PROVE  CInv'
<1>1. QueueReady(q)
  BY ReadyForRound
<1>2. PICK D : Round(q, D)
  BY <1>1, FIFORound DEF CInv, MessagesTyped
<1> QED BY <1>2, RoundKeeps

(* The queue with a new request in it.                                     *)
LEMMA QueueWithRequest ==
  ASSUME IInv, CInv, NEW r \in reqEvents, NEW q \in QueuesWith(r)
  PROVE  /\ q \in Seq(Requests) /\ Distinct(q)
         /\ Range(q) = Range(reqQueue) \cup {r}
         /\ {r} \in SUBSET reqEvents
<1>1. reqQueue \in Seq(Requests) /\ r \in Requests /\ r \notin Range(reqQueue)
      /\ Distinct(reqQueue) /\ Len(reqQueue) \in Nat
  BY DEF CInv, MessagesTyped, OnePlace
<1>2. PICK i \in 1 .. Len(reqQueue) + 1 : InsertedAt(q, reqQueue, r, i)
  <2> DEFINE I == IF InOrder THEN {Len(reqQueue) + 1} ELSE 1 .. Len(reqQueue) + 1
  <2>1. I \subseteq 1 .. Len(reqQueue) + 1
    BY <1>1
  <2> QED BY <2>1 DEF QueuesWith, InsertedAt
<1>3. /\ q \in Seq(Requests) /\ Len(q) = Len(reqQueue) + 1
      /\ \A k \in 1 .. Len(reqQueue) + 1 :
           q[k] = IF k < i THEN reqQueue[k] ELSE IF k = i THEN r ELSE reqQueue[k - 1]
  BY <1>1, <1>2, InsertPositions
<1>4. /\ Range(q) = Range(reqQueue) \cup {r}
      /\ Distinct(reqQueue) /\ r \notin Range(reqQueue) => Distinct(q)
  BY <1>1, <1>3, InsertDistinct
<1> QED BY <1>1, <1>3, <1>4

LEMMA HandleNewReqInvariant ==
  ASSUME IInv, CInv, NEW r, HandleNewReq(r)
  PROVE  CInv'
<1>1. /\ r \in reqEvents /\ reqEvents' = reqEvents \ {r} /\ handled' = handled
      /\ UNCHANGED <<vars, userShare, otherWorker, otherDone, jobRecords>>
      /\ \E q \in QueuesWith(r) : FIFO(q)
  BY DEF HandleNewReq, TakeRequest
<1>2. PICK q \in QueuesWith(r) : FIFO(q)
  BY <1>1
<1>3. /\ q \in Seq(Requests) /\ Distinct(q)
      /\ Range(q) = Range(reqQueue) \cup {r}
      /\ {r} \in SUBSET reqEvents
  BY <1>1, QueueWithRequest
<1>4. handled' \in 0 .. available + Cardinality(otherDone)
  BY <1>1 DEF CInv, MessagesTyped
<1> QED BY <1>1, <1>2, <1>3, <1>4, RoundInvariant

(* A step that changes nothing the invariant is about but the counter of   *)
(* handled events or the reported jobs.                                    *)
LEMMA FrameInvariant ==
  ASSUME CInv, UNCHANGED <<vars, reqEvents, decisions, reqQueue, lastWorker, reservation,
                           userShare, otherWorker, otherDone>>,
         handled' \in 0 .. available + Cardinality(otherDone),
         jobRecords' \in Seq({"job"} \cup Others)
  PROVE  CInv'
<1> USE DEF CInv
<1>1. /\ job' = job /\ workerId' = workerId /\ finished' = finished /\ reqs' = reqs
      /\ requested' = requested /\ available' = available
  BY DEF vars
<1>2. JobTyped'
  BY <1>1 DEF JobTyped
<1>3. MessagesTyped'
  BY <1>1 DEF MessagesTyped, Requests
<1>4. OnePlace'
  BY <1>1 DEF OnePlace, Waiting, DecidedIn, Distinct
<1>5. OthersInOrder'
  BY DEF OthersInOrder
<1>6. (reservation \in [Worker -> Pack])'
  BY DEF Pack
<1>7. ReservationExact' /\ UserShareExact'
  BY <1>1, ExactNow, ExactNext
<1>8. NeverOverReserved'
  BY DEF NeverOverReserved
<1> QED BY <1>2, <1>3, <1>4, <1>5, <1>6, <1>7, <1>8

LEMMA HandledStays ==
  ASSUME IInv, CInv, TakeAvailable
  PROVE  handled' \in 0 .. available + Cardinality(otherDone)
<1>1. handled < available + Cardinality(otherDone) /\ handled' = handled + 1
  BY DEF TakeAvailable, AvailableWaiting
<1>2. IsFiniteSet(otherDone)
  BY ClusterAssumption, FS_Subset DEF CInv, MessagesTyped
<1>3. handled \in Nat /\ available \in Nat /\ Cardinality(otherDone) \in Nat
  BY <1>2, FS_CardinalityType DEF CInv, MessagesTyped, IInv, TypeOK
<1> QED BY <1>1, <1>3

LEMMA HandleResourceAvailableInvariant ==
  ASSUME IInv, CInv, HandleResourceAvailable
  PROVE  CInv'
<1>1. /\ handled < available + Cardinality(otherDone) /\ handled' = handled + 1
      /\ UNCHANGED <<vars, reqEvents, userShare, otherWorker, otherDone, jobRecords>>
  BY DEF HandleResourceAvailable, TakeAvailable, AvailableWaiting
<1>2. handled' \in 0 .. available + Cardinality(otherDone)
  BY HandledStays DEF HandleResourceAvailable
<1>3. CASE FIFO(reqQueue)
  <2>1. reqQueue \in Seq(Requests) /\ Distinct(reqQueue)
    BY DEF CInv, MessagesTyped, OnePlace
  <2>2. Range(reqQueue) = Range(reqQueue) \cup {} /\ reqEvents' = reqEvents \ {}
        /\ {} \in SUBSET reqEvents
    BY <1>1
  <2> QED BY <1>1, <1>2, <1>3, <2>1, <2>2, RoundInvariant
<1>4. CASE UNCHANGED <<decisions, reqQueue, lastWorker, reservation>>
  <2>1. jobRecords' \in Seq({"job"} \cup Others)
    BY <1>1 DEF CInv, MessagesTyped
  <2> QED BY <1>1, <1>2, <1>4, <2>1, FrameInvariant
<1> QED BY <1>3, <1>4 DEF HandleResourceAvailable

LEMMA HandleJobFinishInvariant ==
  ASSUME IInv, CInv, NEW j, HandleJobFinish(j)
  PROVE  CInv'
<1>1. /\ j \in JobFinishWaiting /\ jobRecords' = Append(jobRecords, j)
      /\ UNCHANGED <<vars, schedulerVars, reqEvents, userShare, otherWorker, otherDone>>
  BY DEF HandleJobFinish
<1>2. j \in {"job"} \cup Others
  BY <1>1 DEF JobFinishWaiting, JobFinishEvents, CInv, MessagesTyped
<1>3. jobRecords' \in Seq({"job"} \cup Others)
  BY <1>1, <1>2 DEF CInv, MessagesTyped
<1>4. /\ handled' \in 0 .. available + Cardinality(otherDone)
      /\ UNCHANGED <<decisions, reqQueue, lastWorker, reservation>>
  BY <1>1 DEF CInv, MessagesTyped, schedulerVars
<1> QED BY <1>1, <1>3, <1>4, FrameInvariant

(* The manager sends requests, for subgraphs it had not requested.         *)
LEMMA RequestsInvariant ==
  ASSUME IInv, IInv', CInv, job' = job, workerId' = workerId,
         requested \subseteq requested', requested' \subseteq SubGraphsOf(job),
         reqEvents' = reqEvents \cup NewRequests,
         UNCHANGED <<decisions, reqQueue, otherWorker>>
  PROVE  OnePlace'
<1> USE DEF CInv
<1> DEFINE N == NewRequests
<1>1. /\ N \subseteq SubGraph /\ requested' = requested \cup N /\ N \cap requested = {}
      /\ N \cap Others = {}
  BY JobFields DEF NewRequests
<1>2. \A s \in SubGraph : s \in Waiting <=> s \in requested /\ workerId[s] = NoWorker
  BY DEF OnePlace, IInv, RequestsCounted
<1>3. N \cap Waiting = {}
  BY <1>1, <1>2
<1>4. reqEvents' = reqEvents \cup N
  OBVIOUS
<1>5. Waiting' = Waiting \cup N
  <2>1. Waiting' = reqEvents' \cup Range(reqQueue') \cup DecidedIn(decisions')
    BY DEF Waiting, Range, DecidedIn
  <2> QED BY <1>4, <2>1 DEF Waiting
<1>6. \A s \in N : workerId[s] = NoWorker
  BY <1>1 DEF IInv, RequestsCounted
<1> HIDE DEF N
<1>7. ASSUME NEW s \in SubGraph
      PROVE  reqs'[s] = IF s \in Waiting' THEN 1 ELSE 0
  <2>1. reqs'[s] = IF s \in requested' /\ workerId'[s] = NoWorker THEN 1 ELSE 0
    BY DEF IInv, RequestsCounted
  <2>2. s \in Waiting' <=> s \in requested' /\ workerId'[s] = NoWorker
    BY <1>1, <1>2, <1>5, <1>6
  <2> QED BY <2>1, <2>2
<1>8. \A o \in Others : o \in Waiting' => otherWorker'[o] = NoWorker
  BY <1>1, <1>5 DEF OnePlace
<1>9. /\ reqEvents' \cap Range(reqQueue) = {}
      /\ reqEvents' \cap DecidedIn(decisions) = {}
  BY <1>3, <1>4 DEF OnePlace, Waiting
<1>10. /\ Range(reqQueue) \cap DecidedIn(decisions) = {}
       /\ Distinct(reqQueue)
       /\ \A d, e \in decisions : d[1] = e[1] => d = e
       /\ decisions' = decisions /\ reqQueue' = reqQueue
  BY DEF OnePlace
<1> QED BY <1>7, <1>8, <1>9, <1>10 DEF OnePlace, Distinct, DecidedIn, Range

LEMMA AdmissionClusterInvariant ==
  ASSUME IInv, IInv', CInv, Admission
  PROVE  CInv'
<1> USE DEF CInv
<1>1. /\ job' = job /\ workerId' = workerId /\ finished' = finished
      /\ available' = available
      /\ requested' = requested \cup {s \in SubGraph : Rooted(job, s)}
  BY DEF Admission, JobAdmission, SendRequests
<1>2. /\ reqEvents' = reqEvents \cup NewRequests
      /\ UNCHANGED <<schedulerVars, userShare, otherWorker, otherDone, jobRecords>>
  BY DEF Admission
<1>3. UNCHANGED <<decisions, reqQueue, handled, lastWorker, reservation>>
  BY <1>2 DEF schedulerVars
<1>4. requested' \subseteq SubGraphsOf(job)
  BY <1>1 DEF MessagesTyped, Rooted, SubGraphsOf, TasksOf
<1>5. JobTyped'
  BY <1>1 DEF JobTyped
<1>6. MessagesTyped'
  BY <1>1, <1>2, <1>3, <1>4 DEF MessagesTyped, Requests, NewRequests
<1>7. OnePlace'
  <2>1. requested \subseteq requested'
    BY <1>1
  <2> HIDE DEF CInv
  <2> QED BY <1>1, <1>2, <1>3, <1>4, <2>1, RequestsInvariant
<1>8. OthersInOrder'
  BY <1>2 DEF OthersInOrder
<1>9. (reservation \in [Worker -> Pack])'
  BY <1>3 DEF Pack
<1>10. ReservationExact' /\ UserShareExact'
  BY <1>1, <1>2, <1>3, ExactNow, ExactNext
<1>11. NeverOverReserved'
  BY <1>3 DEF NeverOverReserved
<1> QED BY <1>5, <1>6, <1>7, <1>8, <1>9, <1>10, <1>11

LEMMA OtherAdmissionInvariant ==
  ASSUME IInv, CInv, NEW o \in Others, OtherAdmission(o)
  PROVE  CInv'
<1> USE DEF CInv
<1>1. /\ reqEvents' = reqEvents \cup {o} /\ otherWorker[o] = NoWorker /\ ~Open(o)
      /\ UNCHANGED <<vars, schedulerVars, userShare, otherWorker, otherDone, jobRecords>>
  BY DEF OtherAdmission
<1>2. /\ UNCHANGED <<decisions, reqQueue, handled, lastWorker, reservation>>
      /\ job' = job /\ workerId' = workerId /\ finished' = finished /\ reqs' = reqs
      /\ requested' = requested /\ available' = available
  BY <1>1 DEF schedulerVars, vars
<1>3. o \notin Waiting
  <2>1. \A d \in decisions : d = <<d[1], d[2]>> /\ d[2] \in Worker
    BY DEF MessagesTyped
  <2> QED BY <1>1, <2>1 DEF Open, Waiting, DecidedIn
<1>4. Waiting' = Waiting \cup {o}
  <2>1. Waiting' = reqEvents' \cup Range(reqQueue') \cup DecidedIn(decisions')
    BY DEF Waiting, Range, DecidedIn
  <2> QED BY <1>1, <1>2, <2>1 DEF Waiting
<1>5. MessagesTyped'
  BY <1>1, <1>2 DEF MessagesTyped, Requests
<1>6. OnePlace'
  <2>1. /\ reqEvents' \cap Range(reqQueue) = {}
        /\ reqEvents' \cap DecidedIn(decisions) = {}
    BY <1>1, <1>3 DEF OnePlace, Waiting
  <2>2. o \notin SubGraph
    BY ClusterAssumption
  <2>3. /\ \A s \in SubGraph : reqs'[s] = IF s \in Waiting' THEN 1 ELSE 0
        /\ \A x \in Others : x \in Waiting' => otherWorker'[x] = NoWorker
    BY <1>1, <1>2, <1>4, <2>2 DEF OnePlace
  <2>4. /\ Range(reqQueue) \cap DecidedIn(decisions) = {}
        /\ Distinct(reqQueue)
        /\ \A d, e \in decisions : d[1] = e[1] => d = e
    BY DEF OnePlace
  <2> QED BY <1>2, <2>1, <2>3, <2>4 DEF OnePlace, Distinct, DecidedIn, Range
<1>7. JobTyped'
  BY <1>2 DEF JobTyped
<1>8. OthersInOrder'
  BY <1>1 DEF OthersInOrder
<1>9. (reservation \in [Worker -> Pack])'
  BY <1>2 DEF Pack
<1>10. ReservationExact' /\ UserShareExact'
  BY <1>1, <1>2, ExactNow, ExactNext
<1>11. NeverOverReserved'
  BY <1>2 DEF NeverOverReserved
<1> QED BY <1>5, <1>6, <1>7, <1>8, <1>9, <1>10, <1>11

-----------------------------------------------------------------------------
(* Steps that hand out decisions.                                          *)

(* A pack may be moved past another one.                                   *)
LEMMA AddMiddle ==
  ASSUME NEW a \in Pack, NEW p \in Pack, NEW b \in Pack
  PROVE  /\ Add(Add(a, b), p) = Add(Add(a, p), b)
         /\ Add(Add(a, b), p) = Add(a, Add(b, p))
BY DEF Pack, Add

(* The answer to request r is taken from the priority queue.               *)
LEMMA TakeDecision ==
  ASSUME CInv, NEW r, NEW w, <<r, w>> \in decisions,
         decisions' = decisions \ {<<r, w>>},
         UNCHANGED <<reqEvents, reqQueue>>
  PROVE  /\ r \in Requests /\ w \in Worker /\ w # NoWorker
         /\ r \in Waiting
         /\ DecidedIn(decisions') = DecidedIn(decisions) \ {r}
         /\ Waiting' = Waiting \ {r}
         /\ \A v : <<r, v>> \in decisions => v = w
<1> USE DEF CInv
<1>1. r \in Requests /\ w \in Worker /\ w # NoWorker
  BY WorkerAssumption DEF MessagesTyped
<1>2. r \in DecidedIn(decisions)
  <2> DEFINE d == <<r, w>>
  <2>1. d \in decisions /\ d[1] = r
    OBVIOUS
  <2> HIDE DEF d
  <2> QED BY <2>1 DEF DecidedIn
<1>3. \A d \in decisions : d[1] = r => d = <<r, w>>
  <2>1. <<r, w>>[1] = r
    OBVIOUS
  <2> QED BY <2>1 DEF OnePlace
<1>4. DecidedIn(decisions') = DecidedIn(decisions) \ {r}
  <2>1. \A d \in decisions' : d \in decisions /\ d[1] # r
    BY <1>3
  <2>2. \A d \in decisions : d[1] # r => d \in decisions'
    OBVIOUS
  <2> QED BY <2>1, <2>2 DEF DecidedIn
<1>5. Waiting' = reqEvents \cup Range(reqQueue) \cup DecidedIn(decisions')
  BY DEF Waiting, DecidedIn, Range
<1>6. Waiting' = Waiting \ {r}
  BY <1>2, <1>4, <1>5 DEF Waiting, OnePlace
<1>7. ASSUME NEW v, <<r, v>> \in decisions PROVE v = w
  <2>1. <<r, v>>[1] = r
    OBVIOUS
  <2> QED BY <1>3, <1>7, <2>1
<1> QED BY <1>1, <1>2, <1>4, <1>6, <1>7 DEF Waiting

(* What is left stays in one place.                                        *)
LEMMA OnePlaceAfterDecision ==
  ASSUME CInv, NEW r, DecidedIn(decisions') = DecidedIn(decisions) \ {r},
         decisions' \subseteq decisions, UNCHANGED <<reqEvents, reqQueue>>,
         \A s \in SubGraph : reqs'[s] = IF s \in Waiting' THEN 1 ELSE 0,
         \A o \in Others : o \in Waiting' => otherWorker'[o] = NoWorker
  PROVE  OnePlace'
<1>1. /\ reqEvents \cap Range(reqQueue) = {}
      /\ reqEvents \cap DecidedIn(decisions') = {}
      /\ Range(reqQueue) \cap DecidedIn(decisions') = {}
      /\ Distinct(reqQueue)
      /\ \A d, e \in decisions' : d[1] = e[1] => d = e
  BY DEF CInv, OnePlace
<1> QED BY <1>1 DEF OnePlace, Distinct, DecidedIn, Range

LEMMA HandleDecisionInvariant ==
  ASSUME IInv, CInv, NEW s \in SubGraph, NEW w \in Worker, HandleDecision(s, w)
  PROVE  CInv'
<1> USE DEF CInv
<1>1. /\ <<s, w>> \in decisions /\ decisions' = decisions \ {<<s, w>>}
      /\ userShare' = [userShare EXCEPT ![JobUser] = Add(@, PackOf(s))]
      /\ UNCHANGED <<reqEvents, handled, reqQueue, lastWorker, reservation,
                     otherWorker, otherDone, jobRecords>>
  BY DEF HandleDecision
<1>2. /\ workerId' = [workerId EXCEPT ![s] = w] /\ reqs' = [reqs EXCEPT ![s] = @ - 1]
      /\ job' = job /\ requested' = requested /\ finished' = finished
      /\ available' = available
  BY DEF HandleDecision, PlacementDecision
<1>3. /\ s \in Requests /\ w # NoWorker /\ s \in Waiting
      /\ DecidedIn(decisions') = DecidedIn(decisions) \ {s}
      /\ Waiting' = Waiting \ {s}
      /\ \A v : <<s, v>> \in decisions => v = w
  BY <1>1, TakeDecision
<1>4. s \in SubGraphsOf(job) /\ s \notin Others
  BY <1>3, ClusterAssumption DEF Requests
<1>5. workerId[s] = NoWorker /\ \A t \in TasksOf(job, s) : finished[t] = 0
  BY <1>3, <1>4, FreshWaiting DEF Fresh
<1>6. workerId \in [SubGraph -> Worker \cup {NoWorker}] /\ reqs \in [SubGraph -> Nat]
  BY DEF IInv, TypeOK
<1>7. \A x \in SubGraph : reqs'[x] = IF x \in Waiting' THEN 1 ELSE 0
  BY <1>2, <1>3, <1>6 DEF OnePlace
<1>8. OnePlace'
  <2>1. \A o \in Others : o \in Waiting' => otherWorker'[o] = NoWorker
    BY <1>1, <1>3 DEF OnePlace
  <2>2. decisions' \subseteq decisions
    BY <1>1
  <2> HIDE DEF CInv
  <2> QED BY <1>1, <1>3, <1>7, <2>1, <2>2, OnePlaceAfterDecision
<1>9. \A v \in Worker : AssignedBy(workerId', decisions', v) = AssignedBy(workerId, decisions, v)
  <2> SUFFICES ASSUME NEW v \in Worker, NEW x \in SubGraphsOf(job)
               PROVE  (workerId'[x] = v \/ <<x, v>> \in decisions')
                        <=> (workerId[x] = v \/ <<x, v>> \in decisions)
    BY DEF AssignedBy
  <2>1. x \in SubGraph /\ v # NoWorker
    BY JobFields, WorkerAssumption
  <2>2. CASE x = s
    BY <1>1, <1>2, <1>3, <1>5, <1>6, <2>1, <2>2
  <2>3. CASE x # s
    BY <1>1, <1>2, <1>6, <2>1, <2>3
  <2> QED BY <2>2, <2>3
<1>10. \A v \in Worker : TakenBy(otherWorker', decisions', v) = TakenBy(otherWorker, decisions, v)
  BY <1>1, <1>4 DEF TakenBy
<1>11. ReservationExact'
  <2>1. Reserves(reservation, finished, otherDone, workerId, otherWorker, decisions)
    BY ExactNow
  <2>2. Reserves(reservation, finished, otherDone, workerId', otherWorker', decisions')
    BY <1>9, <1>10, <2>1 DEF Reserves
  <2> QED BY <1>1, <1>2, <2>2, ExactNext
<1>12. /\ PlacedBy(workerId') = PlacedBy(workerId) \cup {s}
       /\ s \notin PlacedBy(workerId) /\ PlacedBy(workerId) \in SUBSET SubGraphsOf(job)
  BY <1>2, <1>3, <1>4, <1>5, <1>6, JobFields DEF PlacedBy
<1>13. /\ HeldBy(finished, PlacedBy(workerId'))
            = Add(HeldBy(finished, PlacedBy(workerId)), PackOf(s))
       /\ PackOf(s) \in Pack
  <2>1. /\ Held(PlacedBy(workerId) \cup {s}) = Add(Held(PlacedBy(workerId)), PackOf(s))
        /\ PackOf(s) \in Pack
    BY <1>4, <1>5, <1>12, HeldAdd DEF PackOf
  <2>2. \A S : Held(S) = HeldBy(finished, S)
    BY DEF Held, HeldBy, OpenTasks, OpenBy
  <2> QED BY <1>12, <2>1, <2>2
<1>14. Shares(userShare', finished, otherDone, workerId', otherWorker)
  <2>1. Shares(userShare, finished, otherDone, workerId, otherWorker)
    BY ExactNow
  <2> SUFFICES ASSUME NEW u \in User
               PROVE  userShare'[u] = Add(IF u = JobUser THEN HeldBy(finished, PlacedBy(workerId'))
                                                         ELSE NoPack,
                                          OthersBy(otherDone, RunBy(otherWorker, u)))
    BY DEF Shares
  <2>2. userShare \in [User -> Pack]
    BY DEF MessagesTyped
  <2>3. CASE u = JobUser
    <3> DEFINE H == HeldBy(finished, PlacedBy(workerId))
               O == OthersBy(otherDone, RunBy(otherWorker, u))
    <3>1. H \in Pack /\ O \in Pack
      BY <1>12, HeldByType, OthersByType DEF RunBy
    <3>2. userShare[u] = Add(H, O) /\ userShare'[u] = Add(userShare[u], PackOf(s))
      BY <1>1, <2>1, <2>2, <2>3, ClusterAssumption DEF Shares
    <3> HIDE DEF H, O
    <3>3. userShare'[u] = Add(Add(H, PackOf(s)), O)
      BY <1>13, <3>1, <3>2, AddMiddle
    <3> QED BY <1>13, <2>3, <3>3 DEF H, O
  <2>4. CASE u # JobUser
    <3>1. userShare'[u] = userShare[u]
      BY <1>1, <2>2, <2>4
    <3> QED BY <2>1, <2>4, <3>1 DEF Shares
  <2> QED BY <2>3, <2>4
<1>15. UserShareExact'
  BY <1>1, <1>2, <1>14, ExactNext
<1>16. MessagesTyped'
  <2>1. userShare' \in [User -> Pack]
    <3>1. Add(userShare[JobUser], PackOf(s)) \in Pack
      BY <1>13, ClusterAssumption, PackTypes DEF MessagesTyped
    <3> QED BY <1>1, <3>1 DEF MessagesTyped
  <2>2. userShare' \in [User -> Pack']
    BY <2>1 DEF Pack
  <2> QED BY <1>1, <1>2, <2>2 DEF MessagesTyped, Requests
<1>17. JobTyped' /\ OthersInOrder' /\ (reservation \in [Worker -> Pack])'
       /\ NeverOverReserved'
  BY <1>1, <1>2 DEF JobTyped, OthersInOrder, Pack, NeverOverReserved
<1> QED BY <1>8, <1>11, <1>15, <1>16, <1>17

LEMMA OtherDecisionInvariant ==
  ASSUME IInv, CInv, NEW o \in Others, NEW w \in Worker, OtherDecision(o, w)
  PROVE  CInv'
<1> USE DEF CInv
<1>1. /\ <<o, w>> \in decisions /\ decisions' = decisions \ {<<o, w>>}
      /\ otherWorker' = [otherWorker EXCEPT ![o] = w]
      /\ userShare' = [userShare EXCEPT ![UserOf[o]] = Add(@, OtherPack[o])]
      /\ UNCHANGED <<vars, reqEvents, handled, reqQueue, lastWorker, reservation,
                     otherDone, jobRecords>>
  BY DEF OtherDecision
<1>2. /\ job' = job /\ workerId' = workerId /\ finished' = finished /\ reqs' = reqs
      /\ requested' = requested /\ available' = available
  BY <1>1 DEF vars
<1>3. /\ w # NoWorker /\ o \in Waiting
      /\ DecidedIn(decisions') = DecidedIn(decisions) \ {o}
      /\ Waiting' = Waiting \ {o}
      /\ \A v : <<o, v>> \in decisions => v = w
  BY <1>1, TakeDecision
<1>4. /\ o \notin SubGraph /\ UserOf[o] \in User /\ OtherPack[o] \in Pack
      /\ otherWorker \in [Others -> Worker \cup {NoWorker}]
      /\ userShare \in [User -> Pack]
  BY ClusterAssumption DEF MessagesTyped
<1>5. otherWorker[o] = NoWorker /\ o \notin otherDone
  BY <1>3 DEF OnePlace, OthersInOrder
<1>6. OnePlace'
  <2>1. \A s \in SubGraph : reqs'[s] = IF s \in Waiting' THEN 1 ELSE 0
    BY <1>2, <1>3, <1>4 DEF OnePlace
  <2>2. \A x \in Others : x \in Waiting' => otherWorker'[x] = NoWorker
    BY <1>1, <1>3, <1>4 DEF OnePlace
  <2>3. decisions' \subseteq decisions
    BY <1>1
  <2> HIDE DEF CInv
  <2> QED BY <1>1, <1>3, <2>1, <2>2, <2>3, OnePlaceAfterDecision
<1>7. \A v \in Worker : AssignedBy(workerId', decisions', v) = AssignedBy(workerId, decisions, v)
  <2>1. o \notin SubGraphsOf(job)
    BY <1>4, JobFields
  <2> QED BY <1>1, <1>2, <2>1 DEF AssignedBy
<1>8. \A v \in Worker : TakenBy(otherWorker', decisions', v) = TakenBy(otherWorker, decisions, v)
  <2> SUFFICES ASSUME NEW v \in Worker, NEW x \in Others
               PROVE  (otherWorker'[x] = v \/ <<x, v>> \in decisions')
                        <=> (otherWorker[x] = v \/ <<x, v>> \in decisions)
    BY DEF TakenBy
  <2>1. v # NoWorker
    BY WorkerAssumption
  <2>2. CASE x = o
    BY <1>1, <1>3, <1>4, <1>5, <2>1, <2>2
  <2>3. CASE x # o
    BY <1>1, <1>4, <2>3
  <2> QED BY <2>2, <2>3
<1>9. ReservationExact'
  <2>1. Reserves(reservation, finished, otherDone, workerId, otherWorker, decisions)
    BY ExactNow
  <2>2. Reserves(reservation, finished, otherDone, workerId', otherWorker', decisions')
    BY <1>7, <1>8, <2>1 DEF Reserves
  <2> QED BY <1>1, <1>2, <2>2, ExactNext
<1>10. Shares(userShare', finished, otherDone, workerId, otherWorker')
  <2>1. Shares(userShare, finished, otherDone, workerId, otherWorker)
    BY ExactNow
  <2> SUFFICES ASSUME NEW u \in User
               PROVE  userShare'[u] = Add(IF u = JobUser THEN HeldBy(finished, PlacedBy(workerId))
                                                         ELSE NoPack,
                                          OthersBy(otherDone, RunBy(otherWorker', u)))
    BY DEF Shares
  <2> DEFINE H == IF u = JobUser THEN HeldBy(finished, PlacedBy(workerId)) ELSE NoPack
             O == OthersBy(otherDone, RunBy(otherWorker, u))
             N == OthersBy(otherDone, RunBy(otherWorker', u))
  <2>2. H \in Pack /\ O \in Pack
    BY HeldByType, OthersByType, PackTypes DEF RunBy, PlacedBy
  <2>3. userShare[u] = Add(H, O)
    BY <2>1 DEF Shares
  <2>4. CASE u = UserOf[o]
    <3>1. /\ RunBy(otherWorker', u) = RunBy(otherWorker, u) \cup {o}
          /\ o \notin RunBy(otherWorker, u) /\ RunBy(otherWorker, u) \in SUBSET Others
      BY <1>1, <1>3, <1>4, <1>5, <2>4 DEF RunBy
    <3>2. N = Add(O, OtherPack[o])
      <4>1. OthersHold(RunBy(otherWorker, u) \cup {o})
              = Add(OthersHold(RunBy(otherWorker, u)), OtherPack[o])
        BY <1>5, <3>1, OthersHoldAdd
      <4>2. \A S : OthersHold(S) = OthersBy(otherDone, S)
        BY DEF OthersHold, OthersBy
      <4> QED BY <3>1, <4>1, <4>2
    <3>3. userShare'[u] = Add(userShare[u], OtherPack[o])
      BY <1>1, <1>4, <2>4
    <3> HIDE DEF H, O, N
    <3>4. userShare'[u] = Add(H, N)
      BY <1>4, <2>2, <2>3, <3>2, <3>3, AddMiddle
    <3> QED BY <3>4 DEF H, N
  <2>5. CASE u # UserOf[o]
    <3>1. RunBy(otherWorker', u) = RunBy(otherWorker, u)
      BY <1>1, <1>4, <2>5 DEF RunBy
    <3>2. userShare'[u] = userShare[u]
      BY <1>1, <1>4, <2>5
    <3> QED BY <2>3, <3>1, <3>2
  <2> QED BY <2>4, <2>5
<1>11. UserShareExact'
  BY <1>1, <1>2, <1>10, ExactNext
<1>12. MessagesTyped'
  <2>1. userShare' \in [User -> Pack]
    <3>1. Add(userShare[UserOf[o]], OtherPack[o]) \in Pack
      BY <1>4, PackTypes
    <3> QED BY <1>1, <1>4, <3>1
  <2>2. userShare' \in [User -> Pack']
    BY <2>1 DEF Pack
  <2>3. otherWorker' \in [Others -> Worker \cup {NoWorker}]
    BY <1>1, <1>4
  <2> QED BY <1>1, <1>2, <2>2, <2>3 DEF MessagesTyped, Requests
<1>13. OthersInOrder'
  BY <1>1, <1>3, <1>4 DEF OthersInOrder
<1>14. JobTyped' /\ (reservation \in [Worker -> Pack])' /\ NeverOverReserved'
  BY <1>1, <1>2 DEF JobTyped, Pack, NeverOverReserved
<1> QED BY <1>6, <1>9, <1>11, <1>12, <1>13, <1>14

-----------------------------------------------------------------------------
(* Steps that give back.                                                   *)

LEMMA ReleasedOnFinish ==
  ASSUME NEW a \in Pack, NEW p \in Pack
  PROVE  /\ Subtract(Add(a, p), p) = a
         /\ \A limit \in Pack : (Add(a, p) # NoPack => FitIn(Add(a, p), limit))
                                  => (a # NoPack => FitIn(a, limit))
<1> DEFINE b == Add(a, p)
<1>1. Subtract(b, p) = a
  BY PackTypes, PackArithmetic
<1>2. ASSUME b = NoPack PROVE a = NoPack
  <2>1. \A r \in Resource : a[r] \in Nat /\ p[r] \in Nat /\ a[r] + p[r] = 0
    BY <1>2 DEF Pack, Add, NoPack
  <2>2. \A r \in Resource : a[r] = 0
    BY <2>1
  <2> QED BY <2>2 DEF Pack, NoPack
<1>3. ASSUME NEW limit \in Pack, FitIn(b, limit) PROVE FitIn(a, limit)
  <2>1. b \in IntPack
    BY PackTypes
  <2> QED BY <1>1, <1>3, <2>1, FitsLess
<1> QED BY <1>1, <1>2, <1>3

LEMMA FinishClusterInvariant ==
  ASSUME IInv, IInv', CInv, NEW t \in Task, Finish(t)
  PROVE  CInv'
<1> USE DEF CInv
<1> DEFINE s == job.sg[t]
           w0 == workerId[s]
           p == ReleasedBy(t)
<1>1. /\ TaskFinish(t)
      /\ reservation' = [reservation EXCEPT ![w0] = Subtract(@, p)]
      /\ userShare' = [userShare EXCEPT ![JobUser] = Subtract(@, p)]
      /\ reqEvents' = reqEvents \cup NewRequests
      /\ UNCHANGED <<decisions, handled, reqQueue, lastWorker, otherWorker,
                     otherDone, jobRecords>>
  BY DEF Finish
<1>2. /\ job' = job /\ workerId' = workerId /\ available' = available + 1
      /\ requested' = requested \cup SubGraphsToRequest(t)
      /\ finished[t] < Len(placed[t])
  BY <1>1 DEF TaskFinish, SendRequests
<1>3. /\ t \notin Done /\ Done' = Done \cup {t}
      /\ finished' = [finished EXCEPT ![t] = 1]
      /\ finished[t] = 0 /\ w0 # NoWorker
  BY <1>1, <1>2, FinishEffect, TestsAreExact
<1>4. /\ s \in SubGraphsOf(job) /\ s \in SubGraph /\ t \in TasksOf(job, s)
      /\ w0 \in Worker
      /\ job.children \in [Task -> Seq(Task)]
  <2>1. s \in SubGraphsOf(job) /\ s \in SubGraph /\ t \in TasksOf(job, s)
    BY JobFields DEF SubGraphsOf, TasksOf
  <2> QED BY <1>3, <2>1 DEF IInv, TypeOK, JobTyped, IsJob
<1>5. requested' \subseteq SubGraphsOf(job)
  <2>1. \A i \in 1 .. Len(job.children[t]) : Child(t, i) \in Task
    BY <1>4 DEF Child
  <2>2. SubGraphsToRequest(t) \subseteq SubGraphsOf(job)
    BY <2>1 DEF SubGraphsToRequest, SubGraphsOf
  <2> QED BY <1>2, <2>2 DEF MessagesTyped
<1>6. finished \in [Task -> Nat] /\ finished' \in [Task -> Nat]
  BY DEF IInv, TypeOK
<1>7. CompletesSubGraph(t) <=> AllFinished(finished', s)
  <2>1. IsFiniteSet(TasksOf(job, s))
    BY <1>4, FiniteParts
  <2>2. Cardinality(TasksOf(job, s) \cap Done) + 1 = Cardinality(TasksOf(job, s))
          <=> TasksOf(job, s) \subseteq Done \cup {t}
    <3> DEFINE T == TasksOf(job, s)
    <3>1. t \in T /\ t \notin Done /\ IsFiniteSet(T)
      BY <1>3, <1>4, <2>1
    <3> HIDE DEF CInv, T
    <3>2. Cardinality(T \cap Done) + 1 = Cardinality(T) <=> T \subseteq Done \cup {t}
      BY <3>1, CountNext
    <3> QED BY <3>2 DEF T
  <2>3. CompletesSubGraph(t) <=> TasksOf(job, s) \subseteq Done'
    BY <1>3, <1>4, <2>2 DEF CompletesSubGraph, IInv, TasksCounted
  <2>4. Done' = {u \in Task : finished'[u] > 0}
    BY DEF Done
  <2> QED BY <2>3, <2>4 DEF AllFinished, TasksOf
<1>8. p = GivesBack(finished', t)
  BY <1>7 DEF ReleasedBy, GivesBack
<1>9. /\ p \in Pack
      /\ \A S \in SUBSET SubGraphsOf(job) :
           /\ s \notin S => HeldBy(finished', S) = HeldBy(finished, S)
           /\ s \in S => HeldBy(finished, S) = Add(HeldBy(finished', S), p)
  <2>1. JobTyped
    OBVIOUS
  <2> HIDE DEF p, CInv
  <2>2. ASSUME NEW S \in SUBSET SubGraphsOf(job)
        PROVE  /\ p \in Pack
               /\ s \notin S => HeldBy(finished', S) = HeldBy(finished, S)
               /\ s \in S => HeldBy(finished, S) = Add(HeldBy(finished', S), p)
    <3> DEFINE F == finished
               G == finished'
    <3>1. /\ F \in [Task -> Nat] /\ G \in [Task -> Nat] /\ F[t] = 0
          /\ G[t] = 1 /\ \A u \in Task : u # t => G[u] = F[u]
      BY <1>3, <1>6
    <3> HIDE DEF F, G
    <3>2. /\ GivesBack(G, t) \in Pack
          /\ job.sg[t] \notin S => HeldBy(G, S) = HeldBy(F, S)
          /\ job.sg[t] \in S => HeldBy(F, S) = Add(HeldBy(G, S), GivesBack(G, t))
      BY <2>1, <3>1, HeldFinish
    <3> QED BY <1>8, <3>2 DEF F, G
  <2> QED BY <2>2
<1> HIDE DEF p
<1>10. \A w \in Worker : /\ AssignedBy(workerId, decisions, w) \in SUBSET SubGraphsOf(job)
                         /\ s \in AssignedBy(workerId, decisions, w) <=> w = w0
  <2>1. s \notin DecidedIn(decisions)
    <3>1. reqs[s] = 0
      BY <1>3, <1>4 DEF IInv, RequestsCounted
    <3> QED BY <1>4, <3>1 DEF OnePlace, Waiting
  <2>2. \A w : <<s, w>> \notin decisions
    <3>1. \A w : <<s, w>>[1] = s
      OBVIOUS
    <3> HIDE DEF s
    <3> QED BY <2>1, <3>1 DEF DecidedIn
  <2> QED BY <1>4, <2>2 DEF AssignedBy
<1> DEFINE load == [w \in Worker |-> Add(HeldBy(finished', AssignedBy(workerId, decisions, w)),
                                        OthersBy(otherDone, TakenBy(otherWorker, decisions, w)))]
<1>11. ASSUME NEW w \in Worker
       PROVE  /\ load[w] \in Pack
              /\ w = w0 => reservation[w] = Add(load[w], p)
              /\ w # w0 => reservation[w] = load[w]
  <2> DEFINE A == AssignedBy(workerId, decisions, w)
             H == HeldBy(finished, A)
             G == HeldBy(finished', A)
             O == OthersBy(otherDone, TakenBy(otherWorker, decisions, w))
  <2>1. H \in Pack /\ G \in Pack /\ O \in Pack
    BY <1>10, HeldByType, OthersByType DEF TakenBy
  <2>2. reservation[w] = Add(H, O)
    BY ExactNow DEF Reserves
  <2>3. (w = w0 => H = Add(G, p)) /\ (w # w0 => H = G)
    BY <1>9, <1>10
  <2>4. load[w] = Add(G, O)
    OBVIOUS
  <2> HIDE DEF load, A, H, G, O, w0, CInv
  <2>5. Add(Add(G, p), O) = Add(Add(G, O), p) /\ Add(G, O) \in Pack
    BY <1>9, <2>1, PackTypes, AddMiddle
  <2> QED BY <2>2, <2>3, <2>4, <2>5
<1>12. reservation' = load
  <2>1. load \in [Worker -> Pack] /\ reservation \in [Worker -> Pack]
    <3>1. load = [w \in Worker |-> load[w]]
      OBVIOUS
    <3> HIDE DEF load
    <3> QED BY <1>11, <3>1
  <2>2. ASSUME NEW w \in Worker PROVE reservation'[w] = load[w]
    <3> HIDE DEF load, w0, CInv
    <3>1. Subtract(Add(load[w], p), p) = load[w]
      BY <1>9, <1>11, ReleasedOnFinish
    <3> QED BY <1>1, <1>11, <2>1, <3>1
  <2> HIDE DEF load, w0
  <2> QED BY <1>1, <2>1, <2>2
<1>13. ReservationExact'
  <2>1. Reserves(reservation', finished', otherDone, workerId, otherWorker, decisions)
    BY <1>12 DEF Reserves
  <2> QED BY <1>1, <1>2, <2>1, ExactNext
<1>14. /\ (reservation \in [Worker -> Pack])'
       /\ NeverOverReserved'
  <2> HIDE DEF load, w0
  <2>1. load = [w \in Worker |-> load[w]]
    BY DEF load
  <2>2. reservation' \in [Worker -> Pack]
    BY <1>11, <1>12, <2>1
  <2>3. ASSUME NEW w \in Worker, reservation'[w] # NoPack
        PROVE  FitIn(reservation'[w], Limit[w])
    <3>1. reservation[w] # NoPack => FitIn(reservation[w], Limit[w])
      BY DEF NeverOverReserved
    <3>2. Limit[w] \in Pack
      BY ClusterAssumption
    <3> QED BY <1>9, <1>11, <1>12, <2>3, <3>1, <3>2, ReleasedOnFinish
  <2> QED BY <2>2, <2>3 DEF NeverOverReserved, Pack, FitIn
<1> DEFINE share == [u \in User |->
                       Add(IF u = JobUser THEN HeldBy(finished', PlacedBy(workerId)) ELSE NoPack,
                           OthersBy(otherDone, RunBy(otherWorker, u)))]
<1>15. ASSUME NEW u \in User
       PROVE  /\ share[u] \in Pack
              /\ u = JobUser => userShare[u] = Add(share[u], p)
              /\ u # JobUser => userShare[u] = share[u]
  <2> DEFINE A == PlacedBy(workerId)
             H == HeldBy(finished, A)
             G == HeldBy(finished', A)
             O == OthersBy(otherDone, RunBy(otherWorker, u))
  <2>1. H \in Pack /\ G \in Pack /\ O \in Pack /\ NoPack \in Pack
    BY HeldByType, OthersByType, PackTypes DEF RunBy, PlacedBy
  <2>2. userShare[u] = Add(IF u = JobUser THEN H ELSE NoPack, O)
    BY ExactNow DEF Shares
  <2>3. H = Add(G, p)
    BY <1>3, <1>4, <1>9 DEF PlacedBy
  <2>4. share[u] = Add(IF u = JobUser THEN G ELSE NoPack, O)
    OBVIOUS
  <2> HIDE DEF share, A, H, G, O, CInv
  <2>5. /\ Add(Add(G, p), O) = Add(Add(G, O), p)
        /\ Add(G, O) \in Pack /\ Add(NoPack, O) \in Pack
    BY <1>9, <2>1, PackTypes, AddMiddle
  <2> QED BY <2>2, <2>3, <2>4, <2>5
<1>16. userShare' = share /\ share \in [User -> Pack]
  <2>1. share \in [User -> Pack] /\ userShare \in [User -> Pack]
    <3>1. share = [u \in User |-> share[u]]
      OBVIOUS
    <3> HIDE DEF share
    <3> QED BY <1>15, <3>1 DEF MessagesTyped
  <2>2. ASSUME NEW u \in User PROVE userShare'[u] = share[u]
    <3> HIDE DEF share, CInv
    <3>1. Subtract(Add(share[u], p), p) = share[u]
      BY <1>9, <1>15, ReleasedOnFinish
    <3> QED BY <1>1, <1>15, <2>1, <3>1
  <2> HIDE DEF share
  <2> QED BY <1>1, <2>1, <2>2
<1>17. UserShareExact'
  <2>1. Shares(userShare', finished', otherDone, workerId, otherWorker)
    BY <1>16 DEF Shares
  <2> QED BY <1>1, <1>2, <2>1, ExactNext
<1>18. MessagesTyped'
  <2>1. userShare' \in [User -> Pack']
    BY <1>16 DEF Pack
  <2>2. handled' \in 0 .. available' + Cardinality(otherDone)
    <3>1. handled \in 0 .. available + Cardinality(otherDone) /\ available \in Nat
          /\ Cardinality(otherDone) \in Nat
      <4>1. IsFiniteSet(otherDone)
        BY ClusterAssumption, FS_Subset DEF MessagesTyped
      <4> QED BY <4>1, FS_CardinalityType DEF MessagesTyped, IInv, TypeOK
    <3>2. handled' = handled /\ available' = available + 1
      BY <1>1, <1>2
    <3> QED BY <3>1, <3>2
  <2>3. /\ requested' \subseteq Requests' /\ requested' \subseteq SubGraphsOf(job')
        /\ reqEvents' \subseteq Requests'
    BY <1>1, <1>2, <1>5 DEF MessagesTyped, Requests, NewRequests
  <2>4. Requests' = Requests
    BY <1>2 DEF Requests
  <2> QED BY <1>1, <2>1, <2>2, <2>3, <2>4 DEF MessagesTyped
<1>19. OnePlace'
  <2>1. requested \subseteq requested'
    BY <1>2
  <2> HIDE DEF CInv
  <2> QED BY <1>1, <1>2, <1>5, <2>1, RequestsInvariant
<1>20. JobTyped' /\ OthersInOrder'
  BY <1>1, <1>2 DEF JobTyped, OthersInOrder
<1> QED BY <1>13, <1>14, <1>17, <1>18, <1>19, <1>20

LEMMA OtherFinishInvariant ==
  ASSUME IInv, CInv, NEW o \in Others, OtherFinish(o)
  PROVE  CInv'
<1> USE DEF CInv
<1> DEFINE w0 == otherWorker[o]
           u0 == UserOf[o]
           p == OtherPack[o]
<1>1. /\ w0 # NoWorker /\ o \notin otherDone /\ otherDone' = otherDone \cup {o}
      /\ reservation' = [reservation EXCEPT ![w0] = Subtract(@, p)]
      /\ userShare' = [userShare EXCEPT ![u0] = Subtract(@, p)]
      /\ UNCHANGED <<vars, reqEvents, decisions, handled, reqQueue, lastWorker,
                     otherWorker, jobRecords>>
  BY DEF OtherFinish
<1>2. /\ job' = job /\ workerId' = workerId /\ finished' = finished /\ reqs' = reqs
      /\ requested' = requested /\ available' = available
  BY <1>1 DEF vars
<1>3. /\ p \in Pack /\ u0 \in User /\ w0 \in Worker
  BY <1>1, ClusterAssumption DEF MessagesTyped
<1>4. \A O \in SUBSET Others :
        /\ o \notin O => OthersBy(otherDone', O) = OthersBy(otherDone, O)
        /\ o \in O => OthersBy(otherDone, O) = Add(OthersBy(otherDone', O), p)
  <2>1. o \in Others \ otherDone
    BY <1>1
  <2> QED BY <1>1, <2>1, OthersFinish
<1>5. \A w \in Worker : o \in TakenBy(otherWorker, decisions, w) <=> w = w0
  <2>1. o \notin DecidedIn(decisions)
    BY <1>1 DEF OnePlace, Waiting
  <2>2. \A w : <<o, w>> \notin decisions
    <3>1. \A w : <<o, w>>[1] = o
      OBVIOUS
    <3> QED BY <2>1, <3>1 DEF DecidedIn
  <2> QED BY <2>2 DEF TakenBy
<1> HIDE DEF p
<1> DEFINE load == [w \in Worker |-> Add(HeldBy(finished, AssignedBy(workerId, decisions, w)),
                                        OthersBy(otherDone', TakenBy(otherWorker, decisions, w)))]
<1>6. ASSUME NEW w \in Worker
      PROVE  /\ load[w] \in Pack
             /\ w = w0 => reservation[w] = Add(load[w], p)
             /\ w # w0 => reservation[w] = load[w]
  <2> DEFINE T == TakenBy(otherWorker, decisions, w)
             H == HeldBy(finished, AssignedBy(workerId, decisions, w))
             O == OthersBy(otherDone, T)
             N == OthersBy(otherDone', T)
  <2>1. H \in Pack /\ O \in Pack /\ N \in Pack
    BY HeldByType, OthersByType DEF TakenBy, AssignedBy
  <2>2. reservation[w] = Add(H, O)
    BY ExactNow DEF Reserves
  <2>3. (w = w0 => O = Add(N, p)) /\ (w # w0 => O = N)
    <3>1. T \in SUBSET Others
      BY DEF TakenBy
    <3> QED BY <1>4, <1>5, <3>1
  <2>4. load[w] = Add(H, N)
    OBVIOUS
  <2> HIDE DEF load, T, H, O, N, w0, CInv
  <2>5. Add(H, Add(N, p)) = Add(Add(H, N), p) /\ Add(H, N) \in Pack
    BY <1>3, <2>1, PackTypes, AddMiddle
  <2> QED BY <2>2, <2>3, <2>4, <2>5
<1>7. reservation' = load
  <2>1. load \in [Worker -> Pack] /\ reservation \in [Worker -> Pack]
    <3>1. load = [w \in Worker |-> load[w]]
      OBVIOUS
    <3> HIDE DEF load
    <3> QED BY <1>6, <3>1
  <2>2. ASSUME NEW w \in Worker PROVE reservation'[w] = load[w]
    <3> HIDE DEF load, w0, CInv
    <3>1. Subtract(Add(load[w], p), p) = load[w]
      BY <1>3, <1>6, ReleasedOnFinish
    <3> QED BY <1>1, <1>6, <2>1, <3>1
  <2> HIDE DEF load, w0
  <2> QED BY <1>1, <2>1, <2>2
<1>8. ReservationExact'
  <2>1. Reserves(reservation', finished, otherDone', workerId, otherWorker, decisions)
    BY <1>7 DEF Reserves
  <2> QED BY <1>1, <1>2, <2>1, ExactNext
<1>9. /\ (reservation \in [Worker -> Pack])'
      /\ NeverOverReserved'
  <2> HIDE DEF load, w0
  <2>1. load = [w \in Worker |-> load[w]]
    BY DEF load
  <2>2. reservation' \in [Worker -> Pack]
    BY <1>6, <1>7, <2>1
  <2>3. ASSUME NEW w \in Worker, reservation'[w] # NoPack
        PROVE  FitIn(reservation'[w], Limit[w])
    <3>1. reservation[w] # NoPack => FitIn(reservation[w], Limit[w])
      BY DEF NeverOverReserved
    <3>2. Limit[w] \in Pack
      BY ClusterAssumption
    <3> QED BY <1>3, <1>6, <1>7, <2>3, <3>1, <3>2, ReleasedOnFinish
  <2> QED BY <2>2, <2>3 DEF NeverOverReserved, Pack, FitIn
<1> DEFINE share == [u \in User |->
                       Add(IF u = JobUser THEN HeldBy(finished, PlacedBy(workerId)) ELSE NoPack,
                           OthersBy(otherDone', RunBy(otherWorker, u)))]
<1>10. ASSUME NEW u \in User
       PROVE  /\ share[u] \in Pack
              /\ u = u0 => userShare[u] = Add(share[u], p)
              /\ u # u0 => userShare[u] = share[u]
  <2> DEFINE T == RunBy(otherWorker, u)
             H == IF u = JobUser THEN HeldBy(finished, PlacedBy(workerId)) ELSE NoPack
             O == OthersBy(otherDone, T)
             N == OthersBy(otherDone', T)
  <2>1. H \in Pack /\ O \in Pack /\ N \in Pack
    BY HeldByType, OthersByType, PackTypes DEF RunBy, PlacedBy
  <2>2. userShare[u] = Add(H, O)
    BY ExactNow DEF Shares
  <2>3. (u = u0 => O = Add(N, p)) /\ (u # u0 => O = N)
    <3>1. T \in SUBSET Others /\ (o \in T <=> u = u0)
      BY <1>1 DEF RunBy
    <3> QED BY <1>4, <3>1
  <2>4. share[u] = Add(H, N)
    OBVIOUS
  <2> HIDE DEF share, T, H, O, N, u0, CInv
  <2>5. Add(H, Add(N, p)) = Add(Add(H, N), p) /\ Add(H, N) \in Pack
    BY <1>3, <2>1, PackTypes, AddMiddle
  <2> QED BY <2>2, <2>3, <2>4, <2>5
<1>11. userShare' = share /\ share \in [User -> Pack]
  <2>1. share \in [User -> Pack] /\ userShare \in [User -> Pack]
    <3>1. share = [u \in User |-> share[u]]
      OBVIOUS
    <3> HIDE DEF share
    <3> QED BY <1>10, <3>1 DEF MessagesTyped
  <2>2. ASSUME NEW u \in User PROVE userShare'[u] = share[u]
    <3> HIDE DEF share, u0, CInv
    <3>1. Subtract(Add(share[u], p), p) = share[u]
      BY <1>3, <1>10, ReleasedOnFinish
    <3> QED BY <1>1, <1>10, <2>1, <3>1
  <2> HIDE DEF share, u0
  <2> QED BY <1>1, <2>1, <2>2
<1>12. UserShareExact'
  <2>1. Shares(userShare', finished, otherDone', workerId, otherWorker)
    BY <1>11 DEF Shares
  <2> QED BY <1>1, <1>2, <2>1, ExactNext
<1>13. MessagesTyped'
  <2>1. userShare' \in [User -> Pack']
    BY <1>11 DEF Pack
  <2>2. handled' \in 0 .. available' + Cardinality(otherDone')
    <3>1. /\ handled \in 0 .. available + Cardinality(otherDone) /\ available \in Nat
          /\ Cardinality(otherDone) \in Nat
          /\ Cardinality(otherDone') = Cardinality(otherDone) + 1
      <4>1. IsFiniteSet(otherDone)
        BY ClusterAssumption, FS_Subset DEF MessagesTyped
      <4> QED BY <1>1, <4>1, FS_CardinalityType, FS_AddElement DEF MessagesTyped, IInv, TypeOK
    <3>2. handled' = handled /\ available' = available
      BY <1>1, <1>2
    <3> QED BY <3>1, <3>2
  <2>3. otherDone' \subseteq Others
    BY <1>1 DEF MessagesTyped
  <2> QED BY <1>1, <1>2, <2>1, <2>2, <2>3 DEF MessagesTyped, Requests
<1>14. OnePlace'
  BY <1>1, <1>2 DEF OnePlace, Waiting, DecidedIn, Distinct
<1>15. JobTyped' /\ OthersInOrder'
  BY <1>1, <1>2 DEF JobTyped, OthersInOrder
<1> QED BY <1>8, <1>9, <1>12, <1>13, <1>14, <1>15

-----------------------------------------------------------------------------
(* The beginning, and every step.                                          *)

LEMMA HoldsNothing ==
  /\ JobTyped => HeldBy(finished, {}) = NoPack
  /\ \A E : OthersBy(E, {}) = NoPack
<1>1. \A E : OthersBy(E, {}) = NoPack
  <2>1. \A E : {} \ E = {}
    OBVIOUS
  <2> QED BY <2>1, SumEmpty DEF OthersBy, NoPack
<1>2. HeldBy(finished, {}) = NoPack
  <2>1. OpenBy(finished, {}) = {}
    BY DEF OpenBy
  <2>2. /\ \A r : {t \in OpenBy(finished, {}) : job.kind[t] = r} = {}
        /\ {s \in {} : OpenBy(finished, {s}) # {}} = {}
    BY <2>1
  <2> QED BY <2>2, SumEmpty DEF HeldBy, NoPack
<1> QED BY <1>1, <1>2

LEMMA InitClusterInvariant == ClusterInit => CInv
<1> SUFFICES ASSUME ClusterInit PROVE CInv
  OBVIOUS
<1>1. /\ job \in Jobs /\ workerId = [s \in SubGraph |-> NoWorker] /\ requested = {}
      /\ reqs = [s \in SubGraph |-> 0] /\ available = 0
      /\ finished = [t \in Task |-> 0]
      /\ reqEvents = {} /\ decisions = {} /\ handled = 0 /\ reqQueue = << >>
      /\ lastWorker = NWorker - 1
      /\ reservation = [w \in Worker |-> NoPack]
      /\ userShare = [u \in User |-> NoPack]
      /\ otherWorker = [o \in Others |-> NoWorker]
      /\ otherDone = {} /\ jobRecords = << >>
  BY DEF ClusterInit, Init
<1>2. JobTyped
  BY <1>1, JobsAssumption DEF JobTyped
<1>3. Range(reqQueue) = {} /\ Waiting = {} /\ DecidedIn(decisions) = {}
  <2>1. Range(reqQueue) = {} /\ DecidedIn(decisions) = {}
    BY <1>1 DEF Range, DecidedIn
  <2> QED BY <1>1, <2>1 DEF Waiting
<1>4. MessagesTyped
  <2>1. lastWorker \in Worker
    BY <1>1, ClusterAssumption
  <2>2. handled \in 0 .. available + Cardinality(otherDone)
    BY <1>1, FS_EmptySet
  <2>3. reqQueue \in Seq(Requests) /\ jobRecords \in Seq({"job"} \cup Others)
    BY <1>1
  <2>4. userShare \in [User -> Pack] /\ otherWorker \in [Others -> Worker \cup {NoWorker}]
    BY <1>1, PackTypes
  <2> QED BY <1>1, <2>1, <2>2, <2>3, <2>4 DEF MessagesTyped
<1>5. OnePlace
  <2>1. Distinct(reqQueue)
    BY <1>1 DEF Distinct
  <2>2. \A s \in SubGraph : reqs[s] = IF s \in Waiting THEN 1 ELSE 0
    BY <1>1, <1>3
  <2>3. \A o \in Others : o \in Waiting => otherWorker[o] = NoWorker
    BY <1>3
  <2> QED BY <1>1, <1>3, <2>1, <2>2, <2>3 DEF OnePlace
<1>6. OthersInOrder
  BY <1>1 DEF OthersInOrder
<1>7. reservation \in [Worker -> Pack]
  BY <1>1, PackTypes
<1>8. /\ Add(NoPack, NoPack) = NoPack
      /\ HeldBy(finished, {}) = NoPack /\ \A E : OthersBy(E, {}) = NoPack
  BY <1>2, HoldsNothing DEF Add, NoPack
<1>9. ReservationExact
  <2>1. \A w \in Worker : /\ AssignedBy(workerId, decisions, w) = {}
                          /\ TakenBy(otherWorker, decisions, w) = {}
    BY <1>1, <1>2, JobFields, WorkerAssumption DEF AssignedBy, TakenBy
  <2> QED BY <1>1, <1>8, <2>1, ExactNow DEF Reserves
<1>10. UserShareExact
  <2>1. PlacedBy(workerId) = {} /\ \A u : RunBy(otherWorker, u) = {}
    BY <1>1, <1>2, JobFields DEF PlacedBy, RunBy
  <2> QED BY <1>1, <1>8, <2>1, ExactNow DEF Shares
<1>11. NeverOverReserved
  BY <1>1 DEF NeverOverReserved
<1> QED BY <1>2, <1>4, <1>5, <1>6, <1>7, <1>9, <1>10, <1>11 DEF CInv

LEMMA StepClusterInvariant == IInv /\ IInv' /\ CInv /\ [ClusterNext]_clusterVars => CInv'
<1> SUFFICES ASSUME IInv, IInv', CInv, [ClusterNext]_clusterVars PROVE CInv'
  OBVIOUS
<1>1. CASE Admission
  BY <1>1, AdmissionClusterInvariant
<1>2. ASSUME NEW r \in SubGraph \cup Others, HandleNewReq(r) PROVE CInv'
  BY <1>2, HandleNewReqInvariant
<1>3. CASE HandleResourceAvailable
  BY <1>3, HandleResourceAvailableInvariant
<1>4. ASSUME NEW s \in SubGraph, NEW w \in Worker, HandleDecision(s, w) PROVE CInv'
  BY <1>4, HandleDecisionInvariant
<1>5. ASSUME NEW t \in Task, Finish(t) PROVE CInv'
  BY <1>5, FinishClusterInvariant
<1>6. ASSUME NEW j \in JobFinishWaiting, HandleJobFinish(j) PROVE CInv'
  BY <1>6, HandleJobFinishInvariant
<1>7. ASSUME NEW o \in Others, OtherAdmission(o) PROVE CInv'
  BY <1>7, OtherAdmissionInvariant
<1>8. ASSUME NEW o \in Others, OtherFinish(o) PROVE CInv'
  BY <1>8, OtherFinishInvariant
<1>9. ASSUME NEW o \in Others, NEW w \in Worker, OtherDecision(o, w) PROVE CInv'
  BY <1>9, OtherDecisionInvariant
<1>10. CASE UNCHANGED clusterVars
  <2>1. UNCHANGED <<vars, reqEvents, decisions, handled, reqQueue, lastWorker, reservation,
                    userShare, otherWorker, otherDone, jobRecords>>
    BY <1>10 DEF clusterVars, schedulerVars
  <2>2. /\ handled' \in 0 .. available + Cardinality(otherDone)
        /\ jobRecords' \in Seq({"job"} \cup Others)
    BY <2>1 DEF CInv, MessagesTyped
  <2> QED BY <2>1, <2>2, FrameInvariant
<1> QED
  BY <1>1, <1>2, <1>3, <1>4, <1>5, <1>6, <1>7, <1>8, <1>9, <1>10 DEF ClusterNext

THEOREM ClusterInvariant == ClusterSpec => [](IInv /\ CInv)
<1>1. ClusterSpec => []IInv
  BY ClusterRefinesManager, Invariant, PTL
<1>2. IInv /\ IInv' /\ CInv /\ [ClusterNext]_clusterVars => CInv'
  BY StepClusterInvariant
<1>3. ClusterInit => CInv
  BY InitClusterInvariant
<1> QED BY <1>1, <1>2, <1>3, PTL DEF ClusterSpec

-----------------------------------------------------------------------------
(* The promises of Cluster.                                                *)

LEMMA InvariantsType == IInv /\ CInv => ClusterTypeOK
<1> SUFFICES ASSUME IInv, CInv PROVE ClusterTypeOK
  OBVIOUS
<1>1. Requests \subseteq SubGraph \cup Others
  BY JobFields DEF CInv, Requests
<1>2. reqQueue \in Seq(SubGraph \cup Others)
  BY <1>1 DEF CInv, MessagesTyped
<1> QED BY <1>1, <1>2 DEF CInv, MessagesTyped, IInv, ClusterTypeOK

(* Every event, queue, worker and share of the cluster keeps its type; in  *)
(* particular no counter of a ResourcePack becomes negative.               *)
THEOREM ClusterTypeCorrect == ClusterSpec => []ClusterTypeOK
<1> QED BY InvariantsType, ClusterInvariant, PTL

(* What is reserved on a worker is what its unfinished work needs.         *)
THEOREM ReservationsAreExact == ClusterSpec => []ReservationExact
<1>1. CInv => ReservationExact
  BY DEF CInv
<1> QED BY <1>1, ClusterInvariant, PTL

(* A user is charged for what runs for the user, and nothing else.         *)
THEOREM UserSharesAreExact == ClusterSpec => []UserShareExact
<1>1. CInv => UserShareExact
  BY DEF CInv
<1> QED BY <1>1, ClusterInvariant, PTL

(* No round of FIFO reserves more on a worker than it has.                 *)
THEOREM WorkersNeverOverReserved == ClusterSpec => []NeverOverReserved
<1>1. CInv => NeverOverReserved
  BY DEF CInv
<1> QED BY <1>1, ClusterInvariant, PTL

(* The set of the places of x in a sequence without repetitions.           *)
LEMMA PlacesOf ==
  ASSUME NEW R, NEW q \in Seq(R), Distinct(q), NEW x
  PROVE  Cardinality({i \in 1 .. Len(q) : q[i] = x}) = IF x \in Range(q) THEN 1 ELSE 0
<1> DEFINE P == {i \in 1 .. Len(q) : q[i] = x}
<1>1. DOMAIN q = 1 .. Len(q)
  OBVIOUS
<1>2. CASE x \in Range(q)
  <2>1. PICK i \in 1 .. Len(q) : q[i] = x
    BY <1>1, <1>2 DEF Range
  <2>2. P = {i}
    BY <2>1 DEF Distinct
  <2> QED BY <1>2, <2>2, FS_Singleton
<1>3. CASE x \notin Range(q)
  <2>1. P = {}
    BY <1>1, <1>3 DEF Range
  <2> QED BY <1>3, <2>1, FS_EmptySet
<1> QED BY <1>2, <1>3

(* Between sending and answering, a request is in one place, once.         *)
THEOREM RequestInOnePlace == ClusterSpec => []OneAnswerPerRequest
<1>1. CInv => OneAnswerPerRequest
  <2> SUFFICES ASSUME CInv, NEW s \in SubGraph
               PROVE  reqs[s] = Cardinality({i \in 1 .. Len(reqQueue) : reqQueue[i] = s})
                                + Cardinality({d \in decisions : d[1] = s})
                                + (IF s \in reqEvents THEN 1 ELSE 0)
    BY DEF OneAnswerPerRequest
  <2>1. Cardinality({i \in 1 .. Len(reqQueue) : reqQueue[i] = s})
          = IF s \in Range(reqQueue) THEN 1 ELSE 0
    BY PlacesOf DEF CInv, MessagesTyped, OnePlace
  <2>2. Cardinality({d \in decisions : d[1] = s})
          = IF s \in DecidedIn(decisions) THEN 1 ELSE 0
    <3> DEFINE P == {d \in decisions : d[1] = s}
    <3>1. CASE s \in DecidedIn(decisions)
      <4>1. PICK d \in decisions : d[1] = s
        BY <3>1 DEF DecidedIn
      <4>2. P = {d}
        BY <4>1 DEF CInv, OnePlace
      <4> QED BY <3>1, <4>2, FS_Singleton
    <3>2. CASE s \notin DecidedIn(decisions)
      <4>1. P = {}
        BY <3>2 DEF DecidedIn
      <4> QED BY <3>2, <4>1, FS_EmptySet
    <3> QED BY <3>1, <3>2
  <2>3. /\ reqs[s] = IF s \in Waiting THEN 1 ELSE 0
        /\ s \in Range(reqQueue) => s \notin DecidedIn(decisions) /\ s \notin reqEvents
        /\ s \in DecidedIn(decisions) => s \notin reqEvents
        /\ s \in Waiting <=> \/ s \in Range(reqQueue)
                             \/ s \in DecidedIn(decisions)
                             \/ s \in reqEvents
    BY DEF CInv, OnePlace, Waiting
  <2> HIDE DEF CInv
  <2> QED BY <2>1, <2>2, <2>3
<1> QED BY <1>1, ClusterInvariant, PTL

=============================================================================
