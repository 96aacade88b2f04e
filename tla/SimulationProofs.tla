-------------------------- MODULE SimulationProofs --------------------------
(***************************************************************************)
(* The safety of Simulation for every job and every set of workers, with   *)
(* either placement algorithm: each task in flight is on one device, and   *)
(* the memory the tasks use is covered by what is reserved for them.       *)
(***************************************************************************)
EXTENDS Simulation, ClusterProofs

-----------------------------------------------------------------------------
(* The manager and the scheduler inside the simulation.                    *)

LEMMA SimStepOfManager == [SimNext]_simVars => [Next]_vars
<1> SUFFICES ASSUME [SimNext]_simVars PROVE [Next]_vars
  OBVIOUS
<1>1. CASE SimSchedule
  <2>1. CASE Admission
    BY <2>1 DEF Admission, Next
  <2>2. ASSUME NEW s, SimNewReq(s) PROVE UNCHANGED vars
    BY <2>2 DEF SimNewReq, TakeRequest
  <2>3. CASE SimResourceAvailable
    BY <2>3 DEF SimResourceAvailable, TakeAvailable
  <2>4. ASSUME NEW j, HandleJobFinish(j) PROVE UNCHANGED vars
    BY <2>4 DEF HandleJobFinish
  <2> QED BY <1>1, <2>1, <2>2, <2>3, <2>4 DEF SimSchedule
<1>2. ASSUME NEW s \in SubGraph, NEW w \in Worker, SimDecision(s, w)
      PROVE  Next
  BY <1>2 DEF SimDecision, HandleDecision, Next
<1>3. ASSUME NEW t \in Task, SimFinish(t)
      PROVE  Next
  BY <1>3 DEF SimFinish, Finish, Next
<1>4. CASE UNCHANGED simVars
  BY <1>4 DEF simVars, clusterVars
<1> QED BY <1>1, <1>2, <1>3, <1>4 DEF SimNext

(* With devices and either algorithm of placement, the manager is still    *)
(* the one of JobManager.                                                  *)
THEOREM SimulationRefinesManager == SimSpec => Spec
<1>1. SimInit => Init
  BY DEF SimInit, ClusterInit
<1> QED BY <1>1, SimStepOfManager, PTL DEF SimSpec, Spec

(* A round of TETRIS decides about one request at most, and only if it can *)
(* be reserved.                                                            *)
LEMMA TETRISRound ==
  ASSUME JobTyped, lastWorker \in Worker, reservation \in [Worker -> Pack],
         ReservationExact, NeverOverReserved,
         NEW q, QueueReady(q), q # << >>, TETRIS(q)
  PROVE  \E D : Round(q, D)
<1> DEFINE r == Head(q)
           p == PackOf(r)
<1>1. /\ q \in Seq(Requests) /\ Distinct(q) /\ Len(q) \in Nat /\ Len(q) >= 1
      /\ DOMAIN q = 1 .. Len(q)
      /\ r = q[1] /\ r \in Range(q)
  BY DEF QueueReady, Range
<1>2. \A w \in Worker : reservation[w] = LoadWith(decisions, w)
  BY DEF ReservationExact, LoadWith, AssignedTo, AssignedWith, TakenWith
<1>3. \A w \in Worker : reservation[w] # NoPack => FitIn(reservation[w], Limit[w])
  BY DEF NeverOverReserved
<1>4. Fresh(r) /\ r \notin DecidedIn(decisions)
  BY <1>1 DEF QueueReady
<1>5. ASSUME NEW w \in Worker, IsBest(w, p),
             reservation' = [reservation EXCEPT ![w] = Add(@, p)],
             reqQueue' = Tail(q), decisions' = decisions \cup {<<r, w>>},
             UNCHANGED lastWorker
      PROVE  \E D : Round(q, D)
  <2> DEFINE D == {<<r, w>>}
  <2>1. FitIn(Add(reservation[w], p), Limit[w])
    <3>1. Product(w, p) > 0
      BY <1>5 DEF IsBest
    <3>2. ~(0 > 0)
      OBVIOUS
    <3>3. TryToReserve(w, p)
      BY <3>1, <3>2 DEF Product
    <3> QED BY <3>3 DEF TryToReserve
  <2>2. /\ LoadWith(decisions \cup D, w) = Add(LoadWith(decisions, w), p)
        /\ \A v \in Worker : v # w => LoadWith(decisions \cup D, v) = LoadWith(decisions, v)
    <3> DEFINE E == decisions
               G == decisions \cup D
    <3>1. G = E \cup {<<r, w>>}
      OBVIOUS
    <3> HIDE DEF p, r, E, G
    <3>2. /\ LoadWith(G, w) = Add(LoadWith(E, w), PackOf(r))
          /\ \A v \in Worker : v # w => LoadWith(G, v) = LoadWith(E, v)
      BY <1>4, <3>1, LoadStep DEF E
    <3> QED BY <3>2 DEF p, E, G
  <2> HIDE DEF D, p
  <2>3. \A v \in Worker : reservation'[v] = LoadWith(decisions \cup D, v)
    BY <1>2, <1>5, <2>2
  <2>4. reservation' \in [Worker -> Pack]
    BY <1>5, <2>3, LoadType
  <2>5. \A v \in Worker : reservation'[v] # NoPack => FitIn(reservation'[v], Limit[v])
    BY <1>3, <1>5, <2>1
  <2>6. DecidedIn(D) = {r} /\ D \subseteq Range(q) \X Worker
        /\ \A d, e \in D : d[1] = e[1] => d = e
    BY <1>1 DEF DecidedIn, D
  <2>7. /\ Tail(q) \in Seq(Range(q)) /\ Len(Tail(q)) = Len(q) - 1
        /\ \A k \in 1 .. Len(q) - 1 : Tail(q)[k] = q[k + 1]
    <3>1. q \in Seq(Range(q))
      BY <1>1 DEF Range
    <3> QED BY <1>1, <3>1
  <2> DEFINE rest == Tail(q)
             n == Len(q)
  <2>8. /\ DOMAIN rest = 1 .. n - 1 /\ Len(rest) = n - 1 /\ n \in Nat /\ n >= 1
        /\ \A k \in 1 .. n - 1 : rest[k] = q[k + 1]
        /\ \A i, k \in 1 .. n : q[i] = q[k] => i = k
        /\ DOMAIN q = 1 .. n /\ r = q[1]
    BY <1>1, <2>7 DEF Distinct
  <2> HIDE DEF rest, n, r
  <2>9. Distinct(rest)
    <3>1. ASSUME NEW i \in 1 .. n - 1, NEW k \in 1 .. n - 1, rest[i] = rest[k] PROVE i = k
      <4>1. i + 1 \in 1 .. n /\ k + 1 \in 1 .. n
        BY <2>8
      <4>2. i + 1 = k + 1
        BY <2>8, <3>1, <4>1
      <4> QED BY <2>8, <4>2
    <3> QED BY <2>8, <3>1 DEF Distinct
  <2>10. Range(rest) = Range(q) \ {r}
    <3>1. ASSUME NEW k \in 1 .. n - 1 PROVE k + 1 \in 1 .. n /\ k + 1 # 1
      BY <2>8
    <3>2. ASSUME NEW k \in 1 .. n, k # 1 PROVE k - 1 \in 1 .. n - 1 /\ (k - 1) + 1 = k
      BY <2>8, <3>2
    <3>3. 1 \in 1 .. n
      BY <2>8
    <3>4. Range(rest) = {rest[k] : k \in 1 .. n - 1} /\ Range(q) = {q[k] : k \in 1 .. n}
      BY <2>8 DEF Range
    <3>5. Range(rest) \subseteq Range(q) \ {r}
      BY <2>8, <3>1, <3>3, <3>4
    <3>6. Range(q) \ {r} \subseteq Range(rest)
      <4>1. ASSUME NEW k \in 1 .. n, q[k] # r PROVE q[k] \in Range(rest)
        <5>1. k # 1
          BY <2>8, <4>1
        <5>2. k - 1 \in 1 .. n - 1 /\ rest[k - 1] = q[k]
          BY <2>8, <3>2, <5>1
        <5> QED BY <3>4, <5>2
      <4> QED BY <3>4, <4>1
    <3> QED BY <3>5, <3>6
  <2>11. Round(q, D)
    BY <1>5, <2>3, <2>4, <2>5, <2>6, <2>7, <2>9, <2>10 DEF Round, rest, D
  <2> QED BY <2>11
<1>6. ASSUME reqQueue' = q, UNCHANGED <<reservation, decisions, lastWorker>>
      PROVE  \E D : Round(q, D)
  <2>1. DecidedIn({}) = {} /\ decisions \cup {} = decisions
    BY DEF DecidedIn
  <2>2. q \in Seq(Range(q))
    BY <1>1 DEF Range
  <2>3. Round(q, {})
    BY <1>1, <1>2, <1>3, <1>6, <2>1, <2>2 DEF Round
  <2> QED BY <2>3
<1> QED BY <1>5, <1>6 DEF TETRIS

(* A round of whichever algorithm the configuration file names.            *)
LEMMA AssignRound ==
  ASSUME IInv, CInv, NEW q \in Seq(Requests), q # << >>, Distinct(q),
         NEW R \in SUBSET reqEvents,
         Range(q) = Range(reqQueue) \cup R, reqEvents' = reqEvents \ R,
         handled' \in 0 .. available + Cardinality(otherDone),
         AssignReqToWorker(q),
         UNCHANGED <<vars, userShare, otherWorker, otherDone, jobRecords>>
  PROVE  CInv'
<1>1. CASE FIFO(q)
  BY <1>1, RoundInvariant
<1>2. CASE TETRIS(q)
  <2>1. QueueReady(q)
    BY ReadyForRound
  <2>2. PICK D : Round(q, D)
    BY <1>2, <2>1, TETRISRound DEF CInv, MessagesTyped
  <2> QED BY <2>2, RoundKeeps
<1> QED BY <1>1, <1>2 DEF AssignReqToWorker

LEMMA SimNewReqInvariant ==
  ASSUME IInv, CInv, NEW r, SimNewReq(r)
  PROVE  CInv'
<1>1. /\ r \in reqEvents /\ reqEvents' = reqEvents \ {r} /\ handled' = handled
      /\ UNCHANGED <<vars, userShare, otherWorker, otherDone, jobRecords>>
      /\ \E q \in QueuesWith(r) : AssignReqToWorker(q)
  BY DEF SimNewReq, TakeRequest
<1>2. PICK q \in QueuesWith(r) : AssignReqToWorker(q)
  BY <1>1
<1>3. /\ q \in Seq(Requests) /\ Distinct(q)
      /\ Range(q) = Range(reqQueue) \cup {r}
      /\ {r} \in SUBSET reqEvents
  BY <1>1, QueueWithRequest
<1>4. handled' \in 0 .. available + Cardinality(otherDone)
  BY <1>1 DEF CInv, MessagesTyped
<1>5. q # << >>
  <2>1. Range(<< >>) = {}
    BY DEF Range
  <2> QED BY <1>3, <2>1
<1> QED BY <1>1, <1>2, <1>3, <1>4, <1>5, AssignRound

LEMMA SimResourceAvailableInvariant ==
  ASSUME IInv, CInv, SimResourceAvailable
  PROVE  CInv'
<1>1. UNCHANGED <<vars, reqEvents, userShare, otherWorker, otherDone, jobRecords>>
  BY DEF SimResourceAvailable, TakeAvailable
<1>2. handled' \in 0 .. available + Cardinality(otherDone)
  BY HandledStays DEF SimResourceAvailable
<1>3. CASE reqQueue # << >> /\ AssignReqToWorker(reqQueue)
  <2>1. reqQueue \in Seq(Requests) /\ Distinct(reqQueue)
    BY DEF CInv, MessagesTyped, OnePlace
  <2>2. Range(reqQueue) = Range(reqQueue) \cup {} /\ reqEvents' = reqEvents \ {}
        /\ {} \in SUBSET reqEvents
    BY <1>1
  <2> QED BY <1>1, <1>2, <1>3, <2>1, <2>2, AssignRound
<1>4. CASE UNCHANGED <<decisions, reqQueue, lastWorker, reservation>>
  <2>1. jobRecords' \in Seq({"job"} \cup Others)
    BY <1>1 DEF CInv, MessagesTyped
  <2> QED BY <1>1, <1>2, <1>4, <2>1, FrameInvariant
<1> QED BY <1>3, <1>4 DEF SimResourceAvailable

LEMMA SimStepOfCluster == IInv /\ IInv' /\ CInv /\ [SimNext]_simVars => CInv'
<1> SUFFICES ASSUME IInv, IInv', CInv, [SimNext]_simVars PROVE CInv'
  OBVIOUS
<1>1. CASE SimSchedule
  <2>1. CASE Admission
    BY <2>1, AdmissionClusterInvariant
  <2>2. ASSUME NEW s, SimNewReq(s) PROVE CInv'
    BY <2>2, SimNewReqInvariant
  <2>3. CASE SimResourceAvailable
    BY <2>3, SimResourceAvailableInvariant
  <2>4. ASSUME NEW j, HandleJobFinish(j) PROVE CInv'
    BY <2>4, HandleJobFinishInvariant
  <2> QED BY <1>1, <2>1, <2>2, <2>3, <2>4 DEF SimSchedule
<1>2. ASSUME NEW s \in SubGraph, NEW w \in Worker, SimDecision(s, w) PROVE CInv'
  BY <1>2, HandleDecisionInvariant DEF SimDecision
<1>3. ASSUME NEW t \in Task, SimFinish(t) PROVE CInv'
  BY <1>3, FinishClusterInvariant DEF SimFinish
<1>4. CASE UNCHANGED simVars
  <2>1. [ClusterNext]_clusterVars
    BY <1>4 DEF simVars
  <2> QED BY <2>1, StepClusterInvariant
<1> QED BY <1>1, <1>2, <1>3, <1>4 DEF SimNext

(* The promises of Cluster hold with either algorithm of placement.        *)
THEOREM SimulationKeepsCluster == SimSpec => [](IInv /\ CInv)
<1>1. SimSpec => []IInv
  BY SimulationRefinesManager, Invariant, PTL
<1>2. SimInit => CInv
  BY InitClusterInvariant DEF SimInit
<1> QED BY <1>1, <1>2, SimStepOfCluster, PTL DEF SimSpec
-----------------------------------------------------------------------------
(* The tasks that PlaceInTurn places, one after the other.                 *)

PlaceOne(ds, t, T, wid) ==
  IF t \in T
  THEN [ds EXCEPT ![wid[job.sg[t]]][job.kind[t]] = Enqueue(@, t, Slots[job.kind[t]])]
  ELSE ds

IsPlacing(g, devs, ts, T, wid, D) ==
  g = [s \in SUBSET D |->
         IF s = {} THEN devs ELSE PlaceOne(g[s \ {Max(s)}], ts[Max(s)], T, wid)]

LEMMA PlacingUnfold ==
  ASSUME NEW devs, NEW ts, NEW T, NEW wid
  PROVE  PlaceInTurn(devs, ts, T, wid)
           = (CHOOSE g : IsPlacing(g, devs, ts, T, wid, DOMAIN ts))[DOMAIN ts]
BY Zenon DEF PlaceInTurn, FoldLeft, MapThenFoldSet, IsPlacing, PlaceOne

(* The largest number of a finite set is one of its elements.              *)
LEMMA MaxIn ==
  ASSUME NEW D \in SUBSET Nat, IsFiniteSet(D), D # {}
  PROVE  Max(D) \in D /\ \A y \in D : Max(D) >= y
<1> DEFINE P == {s \in SUBSET D : s # {} => \E m \in s : \A y \in s : m >= y}
<1>1. ASSUME NEW s \in SUBSET D, \A u \in SUBSET s : u # s => u \in P
      PROVE  s \in P
  <2> SUFFICES ASSUME NEW x \in s PROVE \E m \in s : \A y \in s : m >= y
    OBVIOUS
  <2>1. CASE s \ {x} = {}
    BY <2>1
  <2>2. CASE s \ {x} # {}
    <3>1. s \ {x} \in P
      BY <1>1
    <3>2. PICK m \in s \ {x} : \A y \in s \ {x} : m >= y
      BY <2>2, <3>1
    <3>3. m \in Nat /\ x \in Nat /\ \A y \in s : y \in Nat
      OBVIOUS
    <3>4. CASE x >= m
      BY <3>2, <3>3, <3>4
    <3>5. CASE m >= x
      BY <3>2, <3>3, <3>5
    <3> QED BY <3>3, <3>4, <3>5
  <2> QED BY <2>1, <2>2
<1>2. SUBSET D \subseteq P
  <2> HIDE DEF P
  <2> QED BY <1>1, SubsetInduction
<1>3. \E m \in D : \A y \in D : m >= y
  BY <1>2
<1> QED BY <1>3 DEF Max

LEMMA PlacingUnique ==
  ASSUME NEW devs, NEW ts, NEW T, NEW wid, NEW A \in SUBSET Nat, NEW B,
         NEW g, NEW h, IsPlacing(g, devs, ts, T, wid, A), IsPlacing(h, devs, ts, T, wid, B),
         NEW S \in SUBSET (A \cap B), IsFiniteSet(S)
  PROVE  g[S] = h[S]
<1> DEFINE P == {s \in SUBSET S : g[s] = h[s]}
<1>1. ASSUME NEW s \in SUBSET S, \A u \in SUBSET s : u # s => u \in P
      PROVE  s \in P
  <2>1. CASE s = {}
    BY <2>1 DEF IsPlacing
  <2>2. CASE s # {}
    <3>1. IsFiniteSet(s) /\ s \in SUBSET Nat
      BY FS_Subset
    <3>2. Max(s) \in s
      BY <2>2, <3>1, MaxIn
    <3>3. s \ {Max(s)} \in P
      BY <3>2, <1>1
    <3>4. g[s] = PlaceOne(g[s \ {Max(s)}], ts[Max(s)], T, wid)
      BY <2>2 DEF IsPlacing
    <3>5. h[s] = PlaceOne(h[s \ {Max(s)}], ts[Max(s)], T, wid)
      BY <2>2 DEF IsPlacing
    <3> QED BY <3>3, <3>4, <3>5
  <2> QED BY <2>1, <2>2
<1>2. SUBSET S \subseteq P
  <2> HIDE DEF P
  <2> QED BY <1>1, SubsetInduction
<1> QED BY <1>2

LEMMA PlacingExists ==
  ASSUME NEW devs, NEW ts, NEW T, NEW wid, NEW D \in SUBSET Nat, IsFiniteSet(D)
  PROVE  \E g : IsPlacing(g, devs, ts, T, wid, D)
<1> DEFINE P == {s \in SUBSET D : \E g : IsPlacing(g, devs, ts, T, wid, s)}
           Value(t) == (CHOOSE g : IsPlacing(g, devs, ts, T, wid, t))[t]
<1>1. ASSUME NEW s \in SUBSET D, \A u \in SUBSET s : u # s => u \in P
      PROVE  s \in P
  <2> DEFINE G == [t \in SUBSET s |->
                     IF t = {} THEN devs
                     ELSE PlaceOne(Value(t \ {Max(t)}), ts[Max(t)], T, wid)]
  <2>0. ASSUME NEW t \in SUBSET s, t # {}
        PROVE  Max(t) \in t /\ IsFiniteSet(t)
    <3>1. IsFiniteSet(t) /\ t \in SUBSET Nat
      BY FS_Subset
    <3> QED BY <2>0, <3>1, MaxIn
  <2>1. ASSUME NEW t \in SUBSET s, t # s PROVE G[t] = Value(t)
    <3> DEFINE g == CHOOSE g : IsPlacing(g, devs, ts, T, wid, t)
    <3>1. IsPlacing(g, devs, ts, T, wid, t)
      BY <2>1, <1>1
    <3> HIDE DEF g
    <3>2. g[t] = IF t = {} THEN devs ELSE PlaceOne(g[t \ {Max(t)}], ts[Max(t)], T, wid)
      <4>1. t \in SUBSET t
        OBVIOUS
      <4> QED BY <3>1, <4>1 DEF IsPlacing
    <3>3. ASSUME t # {} PROVE g[t \ {Max(t)}] = Value(t \ {Max(t)})
      <4> DEFINE u == t \ {Max(t)}
                 h == CHOOSE g1 : IsPlacing(g1, devs, ts, T, wid, u)
      <4>1. u \in SUBSET s /\ u # s
        BY <3>3, <2>0
      <4>2. IsPlacing(h, devs, ts, T, wid, u)
        BY <4>1, <1>1
      <4>3. IsFiniteSet(u) /\ u \in SUBSET (t \cap u) /\ t \in SUBSET Nat
        BY <4>1, FS_Subset
      <4> HIDE DEF h, u
      <4>4. g[u] = h[u]
        BY <3>1, <4>2, <4>3, PlacingUnique
      <4> QED BY <4>4 DEF h, u
    <3>4. g[t] = Value(t)
      BY DEF g
    <3> QED BY <3>2, <3>3, <3>4
  <2>2. ASSUME NEW t \in SUBSET s, t # {}
        PROVE  G[t \ {Max(t)}] = Value(t \ {Max(t)})
    <3>1. t \ {Max(t)} \in SUBSET s /\ t \ {Max(t)} # s
      BY <2>2, <2>0
    <3> HIDE DEF G, Value
    <3> QED BY <3>1, <2>1
  <2>3. IsPlacing(G, devs, ts, T, wid, s)
    <3> HIDE DEF Value
    <3> QED BY <2>2 DEF IsPlacing
  <2> QED BY <2>3
<1>2. SUBSET D \subseteq P
  <2> HIDE DEF P
  <2> QED BY <1>1, SubsetInduction
<1> QED BY <1>2

IsTrace(f, devs, ts, n, T, wid) ==
  f[0] = devs /\ \A i \in 1 .. n : f[i] = PlaceOne(f[i - 1], ts[i], T, wid)

LEMMA PlacingTrace ==
  ASSUME NEW devs, NEW ts, NEW n \in Nat, DOMAIN ts = 1 .. n, NEW T, NEW wid
  PROVE  \E f : /\ IsTrace(f, devs, ts, n, T, wid)
                /\ PlaceInTurn(devs, ts, T, wid) = f[n]
<1> DEFINE D == 1 .. n
           g == CHOOSE g1 : IsPlacing(g1, devs, ts, T, wid, D)
           f == [i \in 0 .. n |-> g[1 .. i]]
<1>1. D \in SUBSET Nat /\ IsFiniteSet(D)
  BY FS_Interval
<1>2. IsPlacing(g, devs, ts, T, wid, D)
  <2> HIDE DEF D
  <2> QED BY <1>1, PlacingExists
<1>3. PlaceInTurn(devs, ts, T, wid) = g[D]
  BY PlacingUnfold
<1> HIDE DEF g
<1>4. f[0] = devs
  <2>1. 1 .. 0 = {}
    OBVIOUS
  <2>2. g[{}] = devs
    BY <1>2 DEF IsPlacing
  <2> QED BY <2>1, <2>2
<1>5. ASSUME NEW i \in 1 .. n PROVE f[i] = PlaceOne(f[i - 1], ts[i], T, wid)
  <2>0. IsFiniteSet(1 .. i)
    BY FS_Interval
  <2>1. 1 .. i \in SUBSET Nat /\ IsFiniteSet(1 .. i) /\ 1 .. i # {} /\ 1 .. i \in SUBSET D
    <3>1. i \in 1 .. i /\ \A k \in 1 .. i : k \in Nat /\ k \in 1 .. n
      OBVIOUS
    <3> QED BY <2>0, <3>1
  <2>2. Max(1 .. i) \in 1 .. i /\ \A y \in 1 .. i : Max(1 .. i) >= y
    BY <2>1, MaxIn
  <2>3. Max(1 .. i) = i
    BY <2>2
  <2>4. (1 .. i) \ {i} = 1 .. i - 1
    OBVIOUS
  <2>5. g[1 .. i] = PlaceOne(g[(1 .. i) \ {i}], ts[i], T, wid)
    BY <1>2, <2>1, <2>3 DEF IsPlacing
  <2>6. i - 1 \in 0 .. n /\ i \in 0 .. n
    OBVIOUS
  <2>7. f[i] = g[1 .. i] /\ f[i - 1] = g[1 .. i - 1]
    BY <2>6
  <2> HIDE DEF f
  <2> QED BY <2>4, <2>5, <2>7
<1>6. f[n] = g[D]
  OBVIOUS
<1>7. IsTrace(f, devs, ts, n, T, wid)
  <2> HIDE DEF f
  <2> QED BY <1>4, <1>5 DEF IsTrace
<1> QED BY <1>3, <1>6, <1>7

-----------------------------------------------------------------------------
(* A device with n slots on which the tasks of F are, each once.           *)

DeviceOK(d, F, n) ==
  /\ d \in Device
  /\ d.running \cup Range(d.queue) = F
  /\ d.running \cap Range(d.queue) = {}
  /\ Distinct(d.queue)
  /\ Cardinality(d.running) <= n
  /\ d.queue # << >> => Cardinality(d.running) = n

LEMMA EmptyRange == Range(<< >>) = {}
BY DEF Range

LEMMA DistinctAppend ==
  ASSUME NEW S, NEW q \in Seq(S), Distinct(q), NEW x \in S, x \notin Range(q)
  PROVE  Distinct(Append(q, x))
<1> DEFINE b == Append(q, x)
           n == Len(q)
<1>1. /\ n \in Nat /\ Len(b) = n + 1
      /\ \A i \in 1 .. n : b[i] = q[i]
      /\ b[n + 1] = x
  BY AppendElement
<1>2. \A i \in 1 .. n : q[i] # x
  BY DEF Range
<1>3. \A i, k \in 1 .. n : q[i] = q[k] => i = k
  BY DEF Distinct
<1> HIDE DEF b, n
<1>4. \A i \in 1 .. n + 1 : i \in 1 .. n \/ i = n + 1
  BY <1>1
<1> QED BY <1>1, <1>2, <1>3, <1>4 DEF Distinct, b

LEMMA TailOfDistinct ==
  ASSUME NEW S, NEW q \in Seq(S), q # << >>, Distinct(q)
  PROVE  /\ Head(q) \in S /\ Head(q) \in Range(q)
         /\ Tail(q) \in Seq(S) /\ Distinct(Tail(q))
         /\ Range(Tail(q)) = Range(q) \ {Head(q)}
<1> DEFINE x == Head(q)
           r == Tail(q)
           n == Len(q)
<1>1. /\ n \in Nat /\ n >= 1 /\ x = q[1] /\ x \in S /\ DOMAIN q = 1 .. n
      /\ r \in Seq(S) /\ Len(r) = n - 1 /\ DOMAIN r = 1 .. n - 1
      /\ \A k \in 1 .. n - 1 : r[k] = q[k + 1]
  OBVIOUS
<1>2. \A i, k \in 1 .. n : q[i] = q[k] => i = k
  BY DEF Distinct
<1> HIDE DEF x, r, n
<1>3. \A k \in 1 .. n - 1 : k + 1 \in 1 .. n /\ k + 1 # 1
  BY <1>1
<1>4. \A k \in 1 .. n : k # 1 => k - 1 \in 1 .. n - 1 /\ (k - 1) + 1 = k
  BY <1>1
<1>5. \A i, k \in 1 .. n - 1 : i + 1 = k + 1 => i = k
  BY <1>1
<1>6. 1 \in 1 .. n
  BY <1>1
<1>7. Distinct(r)
  BY <1>1, <1>2, <1>3, <1>5 DEF Distinct
<1>8. Range(r) = {r[k] : k \in 1 .. n - 1} /\ Range(q) = {q[k] : k \in 1 .. n}
  BY <1>1 DEF Range
<1>9. Range(r) \subseteq Range(q) \ {x}
  BY <1>1, <1>2, <1>3, <1>6, <1>8
<1>10. ASSUME NEW k \in 1 .. n, q[k] # x PROVE q[k] \in Range(r)
  <2>1. k - 1 \in 1 .. n - 1 /\ r[k - 1] = q[k]
    BY <1>1, <1>4, <1>10
  <2> QED BY <1>8, <2>1
<1>11. Range(r) = Range(q) \ {x}
  BY <1>8, <1>9, <1>10
<1>12. x \in Range(q)
  BY <1>1, <1>6, <1>8
<1> QED BY <1>1, <1>7, <1>11, <1>12 DEF x, r

LEMMA RunningFinite ==
  ASSUME NEW d \in Device
  PROVE  /\ IsFiniteSet(d.running) /\ Cardinality(d.running) \in Nat
         /\ \A t \in Task : IsFiniteSet(d.running \cup {t})
BY TaskAssumption, FS_Subset, FS_CardinalityType, FS_AddElement DEF Device

LEMMA EnqueueOK ==
  ASSUME NEW d, NEW F, NEW n \in Nat \ {0}, DeviceOK(d, F, n),
         NEW t \in Task, t \notin F
  PROVE  /\ DeviceOK(Enqueue(d, t, n), F \cup {t}, n)
         /\ d.running \subseteq Enqueue(d, t, n).running
         /\ Enqueue(d, t, n).running \subseteq d.running \cup {t}
<1> DEFINE e == Enqueue(d, t, n)
           c == Cardinality(d.running)
<1>1. /\ d.running \in SUBSET Task /\ d.queue \in Seq(Task) /\ c \in Nat
      /\ t \notin d.running /\ t \notin Range(d.queue)
      /\ d = [running |-> d.running, queue |-> d.queue]
  BY RunningFinite DEF DeviceOK, Device
<1>2. CASE d.queue = << >> /\ c + 1 <= n
  <2>1. e = [running |-> d.running \cup {t}, queue |-> << >>]
    BY <1>1, <1>2 DEF Enqueue
  <2>2. Cardinality(d.running \cup {t}) = c + 1
    BY <1>1, RunningFinite, FS_AddElement DEF DeviceOK
  <2>3. e \in Device /\ e.running = d.running \cup {t} /\ e.queue = << >>
    BY <1>1, <2>1 DEF Device
  <2>4. Distinct(<< >>)
    BY DEF Distinct
  <2> HIDE DEF e, c
  <2>5. e.running \cup Range(e.queue) = F \cup {t} /\ e.running \cap Range(e.queue) = {}
    BY <1>2, <2>3, EmptyRange DEF DeviceOK
  <2>6. Cardinality(e.running) <= n
    BY <1>2, <2>2, <2>3
  <2>7. DeviceOK(e, F \cup {t}, n)
    BY <2>3, <2>4, <2>5, <2>6 DEF DeviceOK
  <2> QED BY <2>3, <2>7 DEF e
<1>3. CASE ~(d.queue = << >> /\ c + 1 <= n)
  <2> DEFINE q == Append(d.queue, t)
  <2>1. e = [running |-> d.running, queue |-> q]
    BY <1>1, <1>3 DEF Enqueue
  <2>2. q \in Seq(Task) /\ Range(q) = Range(d.queue) \cup {t} /\ q # << >>
    <3>1. q \in Seq(Task) /\ Range(q) = Range(d.queue) \cup {t}
      BY <1>1, AppendElement
    <3> QED BY <3>1, EmptyRange
  <2>3. Distinct(q)
    BY <1>1, DistinctAppend DEF DeviceOK
  <2> HIDE DEF q
  <2>4. e \in Device /\ e.running = d.running /\ e.queue = q
    BY <1>1, <2>1, <2>2 DEF Device
  <2>5. c <= n /\ c = n
    <3>1. c <= n /\ (d.queue # << >> => c = n)
      BY DEF DeviceOK
    <3> QED BY <1>1, <1>3, <3>1
  <2> HIDE DEF e
  <2>6. e.running \cup Range(e.queue) = F \cup {t} /\ e.running \cap Range(e.queue) = {}
    BY <1>1, <2>2, <2>4 DEF DeviceOK
  <2>7. DeviceOK(e, F \cup {t}, n)
    BY <2>3, <2>4, <2>5, <2>6 DEF DeviceOK
  <2> QED BY <2>4, <2>7 DEF e
<1> QED BY <1>2, <1>3

LEMMA DequeueOK ==
  ASSUME NEW d, NEW F, NEW n \in Nat \ {0}, DeviceOK(d, F, n), NEW t \in d.running
  PROVE  /\ DeviceOK(Dequeue(d, t, n), F \ {t}, n)
         /\ d.running \ {t} \subseteq Dequeue(d, t, n).running
         /\ t \notin Dequeue(d, t, n).running
<1> DEFINE e == Dequeue(d, t, n)
           c == Cardinality(d.running)
           R == d.running \ {t}
<1>1. /\ d.running \in SUBSET Task /\ d.queue \in Seq(Task) /\ c \in Nat
      /\ t \notin Range(d.queue) /\ IsFiniteSet(d.running)
      /\ d = [running |-> d.running, queue |-> d.queue]
      /\ d.running \cap Range(d.queue) = {}
      /\ d.running \cup Range(d.queue) = F
      /\ c <= n /\ (d.queue # << >> => c = n)
  BY RunningFinite DEF DeviceOK, Device
<1>2. Cardinality(R) = c - 1 /\ IsFiniteSet(R)
  BY <1>1, FS_RemoveElement
<1>3. CASE d.queue = << >>
  <2>1. e = [running |-> R, queue |-> << >>]
    <3>1. e = [d EXCEPT !.running = R]
      BY <1>3 DEF Dequeue
    <3> QED BY <1>1, <1>3, <3>1
  <2>2. e \in Device /\ e.running = R /\ e.queue = << >>
    BY <1>1, <2>1 DEF Device
  <2>3. Distinct(<< >>)
    BY DEF Distinct
  <2> HIDE DEF e, c
  <2>4. e.running \cup Range(e.queue) = F \ {t} /\ e.running \cap Range(e.queue) = {}
    BY <1>1, <1>3, <2>2, EmptyRange
  <2>5. Cardinality(e.running) <= n
    BY <1>1, <1>2, <2>2
  <2>6. DeviceOK(e, F \ {t}, n)
    BY <2>2, <2>3, <2>4, <2>5 DEF DeviceOK
  <2> QED BY <2>2, <2>6 DEF e
<1>4. CASE d.queue # << >>
  <2> DEFINE x == Head(d.queue)
             r == Tail(d.queue)
  <2>1. e = [running |-> R \cup {x}, queue |-> r]
    <3>1. Cardinality(R) + 1 <= n
      BY <1>1, <1>2
    <3> QED BY <1>4, <3>1 DEF Dequeue
  <2>2. /\ x \in Task /\ x \in Range(d.queue)
        /\ r \in Seq(Task) /\ Distinct(r)
        /\ Range(r) = Range(d.queue) \ {x}
    BY <1>1, <1>4, TailOfDistinct DEF DeviceOK
  <2> HIDE DEF x, r
  <2>3. x \notin R /\ x # t
    BY <1>1, <2>2
  <2>4. Cardinality(R \cup {x}) = n
    <3>1. Cardinality(R \cup {x}) = Cardinality(R) + 1
      BY <1>2, <2>3, FS_AddElement
    <3> QED BY <1>1, <1>2, <1>4, <3>1
  <2>5. e \in Device /\ e.running = R \cup {x} /\ e.queue = r
    BY <1>1, <2>1, <2>2 DEF Device
  <2> HIDE DEF e, c
  <2>6. e.running \cup Range(e.queue) = F \ {t} /\ e.running \cap Range(e.queue) = {}
    BY <1>1, <2>2, <2>3, <2>5
  <2>7. Cardinality(e.running) <= n /\ Cardinality(e.running) = n
    BY <2>4, <2>5
  <2>8. DeviceOK(e, F \ {t}, n)
    BY <2>2, <2>5, <2>6, <2>7 DEF DeviceOK
  <2> QED BY <2>3, <2>5, <2>8 DEF e
<1> QED BY <1>3, <1>4

-----------------------------------------------------------------------------
(* All devices, with the tasks that are on each as a function F.           *)

AllOK(devs, F) ==
  /\ devs \in [Worker -> [Kind -> Device]]
  /\ \A w \in Worker, k \in Kind : DeviceOK(devs[w][k], F[w][k], Slots[k])

(* The tasks of A that belong on the device of kind k of worker w.         *)
Belonging(A, w, k, wid) == {t \in A : wid[job.sg[t]] = w /\ job.kind[t] = k}

WithAdded(F, A, wid) ==
  [w \in Worker |-> [k \in Kind |-> F[w][k] \cup Belonging(A, w, k, wid)]]

KeepRunning(old, new) ==
  \A w \in Worker, k \in Kind : old[w][k].running \subseteq new[w][k].running

(* What can be placed: it has a worker, and is on no device yet.           *)
Placeable(A, F, wid) ==
  \A t \in A : /\ wid[job.sg[t]] \in Worker
               /\ t \notin F[wid[job.sg[t]]][job.kind[t]]

LEMMA SlotsType == \A k \in Kind : Slots[k] \in Nat \ {0}
BY SimulationAssumption

LEMMA PlaceOneKeeps ==
  ASSUME JobTyped, NEW devs, NEW F, AllOK(devs, F), NEW t \in Task, NEW T, NEW wid,
         Placeable({t} \cap T, F, wid)
  PROVE  /\ AllOK(PlaceOne(devs, t, T, wid), WithAdded(F, {t} \cap T, wid))
         /\ KeepRunning(devs, PlaceOne(devs, t, T, wid))
<1> DEFINE A == {t} \cap T
           e == PlaceOne(devs, t, T, wid)
           G == WithAdded(F, A, wid)
<1>1. \A w \in Worker, k \in Kind : G[w][k] = F[w][k] \cup Belonging(A, w, k, wid)
  BY DEF WithAdded
<1>2. devs \in [Worker -> [Kind -> Device]]
      /\ \A w \in Worker, k \in Kind : DeviceOK(devs[w][k], F[w][k], Slots[k])
  BY DEF AllOK
<1>3. CASE t \notin T
  <2>1. \A w, k : Belonging(A, w, k, wid) = {}
    BY <1>3 DEF Belonging
  <2>2. e = devs
    BY <1>3 DEF PlaceOne
  <2> HIDE DEF e, G, A
  <2>3. \A w \in Worker, k \in Kind : G[w][k] = F[w][k]
    BY <1>1, <2>1
  <2>4. AllOK(e, G) /\ KeepRunning(devs, e)
    BY <1>2, <2>2, <2>3 DEF AllOK, KeepRunning
  <2> QED BY <2>4 DEF e, G, A
<1>4. CASE t \in T
  <2> DEFINE v == wid[job.sg[t]]
             m == job.kind[t]
             d == Enqueue(devs[v][m], t, Slots[m])
  <2>1. v \in Worker /\ m \in Kind /\ t \notin F[v][m] /\ A = {t}
    BY <1>4, JobFields DEF Placeable
  <2>2. e = [devs EXCEPT ![v][m] = d]
    BY <1>4, <2>1, <1>2 DEF PlaceOne
  <2>3. /\ DeviceOK(d, F[v][m] \cup {t}, Slots[m])
        /\ devs[v][m].running \subseteq d.running
    <3> DEFINE d0 == devs[v][m]
               F0 == F[v][m]
               n == Slots[m]
    <3>1. DeviceOK(d0, F0, n) /\ n \in Nat \ {0} /\ t \notin F0
      BY <1>2, <2>1, SlotsType
    <3> HIDE DEF d0, F0, n
    <3>2. /\ DeviceOK(Enqueue(d0, t, n), F0 \cup {t}, n)
          /\ d0.running \subseteq Enqueue(d0, t, n).running
      BY <3>1, EnqueueOK
    <3> QED BY <3>2 DEF d0, F0, n
  <2>4. Belonging(A, v, m, wid) = {t}
        /\ \A w, k : w # v \/ k # m => Belonging(A, w, k, wid) = {}
    BY <2>1 DEF Belonging
  <2>5. d \in Device
    BY <2>3 DEF DeviceOK
  <2> HIDE DEF e, G, A, d, v, m
  <2>6. /\ e \in [Worker -> [Kind -> Device]]
        /\ e[v][m] = d
        /\ \A w \in Worker, k \in Kind : w # v \/ k # m => e[w][k] = devs[w][k]
    BY <1>2, <2>1, <2>2, <2>5
  <2>7. \A w \in Worker, k \in Kind : w # v \/ k # m => G[w][k] = F[w][k]
    <3> SUFFICES ASSUME NEW w \in Worker, NEW k \in Kind, w # v \/ k # m
                 PROVE  G[w][k] = F[w][k]
      OBVIOUS
    <3>1. G[w][k] = F[w][k] \cup Belonging(A, w, k, wid) /\ Belonging(A, w, k, wid) = {}
      BY <1>1, <2>4
    <3> QED BY <3>1
  <2>8. G[v][m] = F[v][m] \cup {t}
    BY <1>1, <2>1, <2>4
  <2>9. \A w \in Worker, k \in Kind : DeviceOK(e[w][k], G[w][k], Slots[k])
    <3> SUFFICES ASSUME NEW w \in Worker, NEW k \in Kind
                 PROVE  DeviceOK(e[w][k], G[w][k], Slots[k])
      OBVIOUS
    <3>1. CASE w = v /\ k = m
      BY <3>1, <2>3, <2>6, <2>8
    <3>2. CASE w # v \/ k # m
      BY <3>2, <1>2, <2>6, <2>7
    <3> QED BY <3>1, <3>2
  <2>10. KeepRunning(devs, e)
    BY <2>3, <2>6 DEF KeepRunning
  <2>11. AllOK(e, G)
    BY <2>6, <2>9 DEF AllOK
  <2> QED BY <2>10, <2>11 DEF e, G, A
<1> QED BY <1>3, <1>4

LEMMA PlaceInTurnKeeps ==
  ASSUME JobTyped, NEW devs, NEW F, AllOK(devs, F), NEW ts \in Seq(Task), Distinct(ts),
         NEW T, NEW wid, Placeable(Range(ts) \cap T, F, wid)
  PROVE  /\ AllOK(PlaceInTurn(devs, ts, T, wid), WithAdded(F, Range(ts) \cap T, wid))
         /\ KeepRunning(devs, PlaceInTurn(devs, ts, T, wid))
<1> DEFINE n == Len(ts)
           Before(i) == {ts[j] : j \in 1 .. i}
           G(i) == WithAdded(F, Before(i) \cap T, wid)
<1>1. n \in Nat /\ DOMAIN ts = 1 .. n /\ \A i \in 1 .. n : ts[i] \in Task
  OBVIOUS
<1>2. \A i, j \in 1 .. n : ts[i] = ts[j] => i = j
  BY DEF Distinct
<1>3. Range(ts) = Before(n)
  BY <1>1 DEF Range
<1> HIDE DEF n
<1>4. PICK f : /\ IsTrace(f, devs, ts, n, T, wid)
               /\ PlaceInTurn(devs, ts, T, wid) = f[n]
  BY <1>1, PlacingTrace
<1> DEFINE S == {i \in Nat : i <= n => AllOK(f[i], G(i)) /\ KeepRunning(devs, f[i])}
<1>5. 0 \in S
  <2>1. Before(0) \cap T = {}
    OBVIOUS
  <2>2. f[0] = devs
    BY <1>4 DEF IsTrace
  <2> HIDE DEF Before
  <2>3. \A w \in Worker, k \in Kind : G(0)[w][k] = F[w][k]
    BY <2>1 DEF WithAdded, Belonging
  <2> HIDE DEF G
  <2>4. AllOK(f[0], G(0)) /\ KeepRunning(devs, f[0])
    BY <2>2, <2>3 DEF AllOK, KeepRunning
  <2> QED BY <2>4
<1>6. ASSUME NEW i \in Nat, i \in S PROVE i + 1 \in S
  <2> SUFFICES ASSUME i + 1 <= n
               PROVE  AllOK(f[i + 1], G(i + 1)) /\ KeepRunning(devs, f[i + 1])
    OBVIOUS
  <2> DEFINE t == ts[i + 1]
  <2>1. i <= n /\ i + 1 \in 1 .. n /\ (i + 1) - 1 = i /\ i \in 0 .. n
        /\ \A j \in 1 .. i : j \in 1 .. n /\ j # i + 1
    BY <1>1
  <2>2. AllOK(f[i], G(i)) /\ KeepRunning(devs, f[i])
    BY <1>6, <2>1
  <2>3. f[i + 1] = PlaceOne(f[i], t, T, wid)
    BY <1>4, <2>1 DEF IsTrace
  <2>4. t \in Task /\ t \notin Before(i)
    BY <1>1, <1>2, <2>1
  <2>5. Before(i + 1) = Before(i) \cup {t}
    <3>1. \A j : j \in 1 .. i + 1 <=> j \in 1 .. i \/ j = i + 1
      OBVIOUS
    <3> QED BY <3>1
  <2>6. t \in Before(n)
    BY <2>1
  <2> DEFINE A == Before(i) \cap T
             B == {t} \cap T
             C == Before(i + 1) \cap T
             H == G(i)
  <2>7. C = A \cup B /\ \A x \in B : x = t /\ x \in Range(ts) \cap T /\ x \notin A
    BY <1>3, <2>4, <2>5, <2>6
  <2>8. H = WithAdded(F, A, wid) /\ G(i + 1) = WithAdded(F, C, wid)
    OBVIOUS
  <2> HIDE DEF A, B, C, H, G, Before, S
  <2>9. Placeable(B, H, wid)
    <3>1. ASSUME NEW x \in B
          PROVE  wid[job.sg[x]] \in Worker /\ x \notin H[wid[job.sg[x]]][job.kind[x]]
      <4>1. x \in Task /\ x \notin A /\ x \in Range(ts) \cap T
        BY <2>4, <2>7
      <4>2. wid[job.sg[x]] \in Worker /\ x \notin F[wid[job.sg[x]]][job.kind[x]]
        BY <4>1 DEF Placeable
      <4>3. job.kind[x] \in Kind
        BY <4>1, JobFields
      <4> QED BY <4>1, <4>2, <4>3, <2>8 DEF WithAdded, Belonging
    <3> QED BY <3>1 DEF Placeable
  <2>10. AllOK(f[i], H) /\ B = {t} \cap T
    BY <2>2 DEF H, B
  <2> HIDE DEF t
  <2>11. /\ AllOK(PlaceOne(f[i], t, T, wid), WithAdded(H, B, wid))
         /\ KeepRunning(f[i], PlaceOne(f[i], t, T, wid))
    BY <2>4, <2>9, <2>10, PlaceOneKeeps
  <2>12. \A w \in Worker, k \in Kind : WithAdded(H, B, wid)[w][k] = G(i + 1)[w][k]
    BY <2>7, <2>8 DEF WithAdded, Belonging
  <2>13. AllOK(f[i + 1], G(i + 1))
    BY <2>3, <2>11, <2>12 DEF AllOK
  <2>14. KeepRunning(devs, f[i + 1])
    BY <2>2, <2>3, <2>11 DEF KeepRunning
  <2> QED BY <2>13, <2>14
<1>7. n \in S
  <2> HIDE DEF S
  <2> QED BY <1>1, <1>5, <1>6, SetInduction
<1>8. AllOK(f[n], G(n)) /\ KeepRunning(devs, f[n])
  BY <1>1, <1>7
<1> QED BY <1>3, <1>4, <1>8

(* Putting the elements of a set in any order forgets none.                *)
LEMMA InAnyOrder ==
  ASSUME NEW S \in SUBSET Task, NEW ts \in SetToSeqs(S)
  PROVE  ts \in Seq(Task) /\ Distinct(ts) /\ Range(ts) = S
<1> DEFINE c == Cardinality(S)
           D == 1 .. c
<1>1. IsFiniteSet(S) /\ c \in Nat
  BY TaskAssumption, FS_Subset, FS_CardinalityType
<1>2. ts \in [D -> S] /\ \A i, j \in D : i # j => ts[i] # ts[j]
  BY DEF SetToSeqs
<1>3. Cardinality(D) = c
  BY <1>1, FS_Interval
<1>4. ts \in Injection(D, S)
  <2> HIDE DEF D
  <2> QED BY <1>2 DEF Injection, IsInjective
<1>5. ts \in Surjection(D, S)
  <2> HIDE DEF D
  <2> QED BY <1>1, <1>3, <1>4, FS_Injection
<1>6. Range(ts) = S
  <2> HIDE DEF D
  <2> QED BY <1>2, <1>5 DEF Surjection, Range
<1> HIDE DEF c
<1>7. ts \in Seq(Task) /\ Len(ts) = c
  <2>1. ts \in [1 .. c -> Task]
    BY <1>2
  <2> QED BY <1>1, <2>1
<1>8. Distinct(ts)
  BY <1>2, <1>7 DEF Distinct
<1> QED BY <1>6, <1>7, <1>8

-----------------------------------------------------------------------------
(* The devices hold what is in flight.                                     *)

InFlight == [w \in Worker |-> [k \in Kind |-> InFlightOn(w, k)]]

DevInv == AllOK(devices, InFlight)

LEMMA AllOKSame ==
  ASSUME NEW devs, NEW F, NEW G, AllOK(devs, F),
         \A w \in Worker, k \in Kind : G[w][k] = F[w][k]
  PROVE  AllOK(devs, G)
BY DEF AllOK

LEMMA InitDevices == SimInit => DevInv
<1> SUFFICES ASSUME SimInit PROVE DevInv
  OBVIOUS
<1> DEFINE d == [running |-> {}, queue |-> << >>]
<1>1. d \in Device /\ d.running = {} /\ d.queue = << >>
  <2>1. << >> \in Seq(Task)
    OBVIOUS
  <2> QED BY <2>1 DEF Device
<1>2. devices = [w \in Worker |-> [k \in Kind |-> d]]
  BY DEF SimInit
<1>3. \A w \in Worker, k \in Kind : InFlight[w][k] = {}
  BY WorkerAssumption DEF SimInit, ClusterInit, Init, InFlight, InFlightOn
<1> HIDE DEF d
<1>4. \A n \in Nat \ {0} : DeviceOK(d, {}, n)
  <2>1. Distinct(<< >>) /\ Cardinality({}) = 0
    BY FS_EmptySet DEF Distinct
  <2> QED BY <1>1, <2>1, EmptyRange DEF DeviceOK
<1>5. devices \in [Worker -> [Kind -> Device]]
  BY <1>1, <1>2
<1>6. \A w \in Worker, k \in Kind : DeviceOK(devices[w][k], InFlight[w][k], Slots[k])
  BY <1>2, <1>3, <1>4, SlotsType
<1> QED BY <1>5, <1>6 DEF DevInv, AllOK

(* What a decision hands out: the ready tasks of its subgraph, none of     *)
(* which was in flight or done before.                                     *)
LEMMA DecisionHandsOut ==
  ASSUME IInv, NEW s \in SubGraph, NEW w \in Worker, PlacementDecision(s, w)
  PROVE  /\ job' = job /\ finished' = finished
         /\ workerId[s] = NoWorker /\ workerId'[s] = w
         /\ \A r \in SubGraph : r # s => workerId'[r] = workerId[r]
         /\ \A t \in TasksOf(job, s) : finished[t] = 0 /\ placed[t] = << >>
         /\ \A t \in TasksOf(job, s) :
              placed'[t] = IF Satisfied(t) THEN <<w>> ELSE << >>
         /\ \A t \in Task \ TasksOf(job, s) : placed'[t] = placed[t]
<1>1. s \in requested /\ workerId[s] = NoWorker /\ reqs[s] = 1
  BY DEF PlacementDecision, IInv, RequestsCounted
<1>2. /\ workerId'[s] = w
      /\ \A r \in SubGraph : r # s => workerId'[r] = workerId[r]
      /\ job' = job /\ finished' = finished
  BY DEF PlacementDecision, IInv, TypeOK
<1>3. ASSUME NEW t \in TasksOf(job, s) PROVE finished[t] = 0 /\ placed[t] = << >>
  <2>1. t \in Task /\ job.sg[t] = s
    BY DEF TasksOf
  <2>2. placed[t] = << >>
    BY <1>1, <2>1 DEF IInv, HandedOut
  <2>3. finished[t] \in Nat /\ finished[t] <= Len(placed[t]) /\ Len(<< >>) = 0
    BY <2>1 DEF IInv, FinishedWasPlaced, TypeOK
  <2> QED BY <2>2, <2>3
<1>4. \A t \in Task : placed'[t] =
        IF t \in TasksOf(job, s) /\ Satisfied(t)
        THEN Append(placed[t], workerId'[job.sg[t]]) ELSE placed[t]
  BY DEF PlacementDecision, PlaceTasks
<1>5. ASSUME NEW t \in TasksOf(job, s)
      PROVE  placed'[t] = IF Satisfied(t) THEN <<w>> ELSE << >>
  <2>1. t \in Task /\ job.sg[t] = s
    BY DEF TasksOf
  <2>2. Append(<< >>, w) = <<w>>
    OBVIOUS
  <2> QED BY <1>2, <1>3, <1>4, <2>1, <2>2
<1>6. \A t \in Task \ TasksOf(job, s) : placed'[t] = placed[t]
  BY <1>4
<1> QED BY <1>1, <1>2, <1>3, <1>5, <1>6

LEMMA DecisionDevices ==
  ASSUME IInv, CInv, DevInv, NEW s \in SubGraph, NEW w \in Worker, SimDecision(s, w)
  PROVE  DevInv' /\ KeepRunning(devices, devices')
<1> DEFINE Sat == {t \in Task : Satisfied(t)}
           A == TasksOf(job, s) \cap Sat
<1>1. PlacementDecision(s, w) /\ JobTyped
  BY DEF SimDecision, HandleDecision, CInv
<1>2. PICK ts \in SetToSeqs(TasksOf(job, s)) :
             devices' = PlaceInTurn(devices, ts, Sat, workerId')
  BY DEF SimDecision
<1>3. TasksOf(job, s) \in SUBSET Task
  BY DEF TasksOf
<1>4. ts \in Seq(Task) /\ Distinct(ts) /\ Range(ts) = TasksOf(job, s)
  BY <1>3, InAnyOrder
<1>5. /\ job' = job /\ finished' = finished
      /\ workerId[s] = NoWorker /\ workerId'[s] = w
      /\ \A r \in SubGraph : r # s => workerId'[r] = workerId[r]
      /\ \A t \in TasksOf(job, s) : finished[t] = 0 /\ placed[t] = << >>
      /\ \A t \in TasksOf(job, s) :
           placed'[t] = IF t \in Sat THEN <<w>> ELSE << >>
      /\ \A t \in Task \ TasksOf(job, s) : placed'[t] = placed[t]
  <2>1. \A t \in TasksOf(job, s) : t \in Sat <=> Satisfied(t)
    BY <1>3
  <2> HIDE DEF Sat
  <2> QED BY <1>1, <2>1, DecisionHandsOut
<1> HIDE DEF Sat
<1>6. \A t \in Task : job.sg[t] \in SubGraph /\ job.kind[t] \in Kind
  BY <1>1, JobFields
<1>7. \A t \in Task : t \in TasksOf(job, s) <=> job.sg[t] = s
  BY DEF TasksOf
<1>8. Placeable(A, InFlight, workerId')
  <2>1. ASSUME NEW t \in A
        PROVE  /\ workerId'[job.sg[t]] \in Worker
               /\ t \notin InFlight[workerId'[job.sg[t]]][job.kind[t]]
    <3>1. t \in Task /\ workerId'[job.sg[t]] = w /\ finished[t] = 0 /\ placed[t] = << >>
      BY <1>3, <1>5, <1>7
    <3>2. t \notin InFlightOn(w, job.kind[t])
      <4>1. Len(<< >>) = 0
        OBVIOUS
      <4> QED BY <3>1, <4>1 DEF InFlightOn
    <3> QED BY <1>6, <3>1, <3>2 DEF InFlight
  <2> QED BY <2>1 DEF Placeable
<1>9. \A v \in Worker, k \in Kind :
         InFlight'[v][k] = WithAdded(InFlight, A, workerId')[v][k]
  <2> SUFFICES ASSUME NEW v \in Worker, NEW k \in Kind
               PROVE  InFlightOn(v, k)' = InFlightOn(v, k) \cup Belonging(A, v, k, workerId')
    BY DEF InFlight, WithAdded
  <2>1. ASSUME NEW t \in Task, job.sg[t] = s
        PROVE  /\ t \notin InFlightOn(v, k)
               /\ t \in InFlightOn(v, k)' <=> t \in Belonging(A, v, k, workerId')
    <3>1. v # NoWorker
      BY WorkerAssumption
    <3>2. t \notin InFlightOn(v, k)
      BY <1>5, <2>1, <3>1 DEF InFlightOn
    <3>3. finished'[t] = 0 /\ workerId'[job'.sg[t]] = w /\ job'.kind[t] = job.kind[t]
          /\ placed'[t] = IF t \in Sat THEN <<w>> ELSE << >>
      BY <1>5, <1>7, <2>1
    <3>4. Len(<< >>) = 0 /\ Len(<<w>>) = 1
      OBVIOUS
    <3>5. finished'[t] < Len(placed'[t]) <=> t \in Sat
      BY <3>3, <3>4
    <3>6. t \in InFlightOn(v, k)' <=> t \in Sat /\ w = v /\ job.kind[t] = k
      BY <3>3, <3>5 DEF InFlightOn
    <3>7. t \in Belonging(A, v, k, workerId') <=> t \in Sat /\ w = v /\ job.kind[t] = k
      BY <1>5, <1>7, <2>1 DEF Belonging
    <3> QED BY <3>2, <3>6, <3>7
  <2>2. ASSUME NEW t \in Task, job.sg[t] # s
        PROVE  /\ t \notin Belonging(A, v, k, workerId')
               /\ t \in InFlightOn(v, k)' <=> t \in InFlightOn(v, k)
    <3>1. t \notin A
      BY <1>7, <2>2
    <3>2. finished'[t] = finished[t] /\ placed'[t] = placed[t] /\ job' = job
          /\ workerId'[job.sg[t]] = workerId[job.sg[t]]
      BY <1>5, <1>6, <1>7, <2>2
    <3> QED BY <3>1, <3>2 DEF Belonging, InFlightOn
  <2>3. \A t : t \in InFlightOn(v, k)' \/ t \in InFlightOn(v, k)
                 \/ t \in Belonging(A, v, k, workerId') => t \in Task
    BY <1>3 DEF InFlightOn, Belonging
  <2> QED BY <2>1, <2>2, <2>3
<1>10. /\ AllOK(devices', WithAdded(InFlight, A, workerId'))
       /\ KeepRunning(devices, devices')
  <2> DEFINE wid == workerId'
             F == InFlight
             B == Range(ts) \cap Sat
  <2>1. AllOK(devices, F) /\ Placeable(B, F, wid) /\ B = A
    BY <1>4, <1>8 DEF DevInv
  <2> HIDE DEF wid, F, A
  <2>2. /\ AllOK(PlaceInTurn(devices, ts, Sat, wid), WithAdded(F, B, wid))
        /\ KeepRunning(devices, PlaceInTurn(devices, ts, Sat, wid))
    BY <1>1, <1>4, <2>1, PlaceInTurnKeeps
  <2>3. devices' = PlaceInTurn(devices, ts, Sat, wid)
    BY <1>2 DEF wid
  <2> QED BY <2>1, <2>2, <2>3 DEF wid, F
<1> HIDE DEF A
<1>11. AllOK(devices', InFlight')
  BY <1>9, <1>10, AllOKSame
<1> QED BY <1>10, <1>11 DEF DevInv

LEMMA FinishDevices ==
  ASSUME IInv, CInv, DevInv, NEW t \in Task, SimFinish(t)
  PROVE  /\ DevInv'
         /\ \A w \in Worker, k \in Kind :
              devices[w][k].running \ {t} \subseteq devices'[w][k].running
<1> DEFINE u == workerId[job.sg[t]]
           m == job.kind[t]
           mid == [devices EXCEPT ![u][m] = Dequeue(@, t, Slots[m])]
           A == ChildrenToPlace(t)
           F == [w \in Worker |-> [k \in Kind |-> InFlightOn(w, k) \ {t}]]
           ts == job.children[t]
<1>1. /\ TaskFinish(t) /\ JobTyped /\ IsJob(job)
      /\ u # NoWorker /\ t \in devices[u][m].running
      /\ devices' = PlaceInTurn(mid, ts, A, workerId)
      /\ workerId' = workerId /\ job' = job
  <2>1. TaskFinish(t) /\ JobTyped /\ IsJob(job)
    BY DEF SimFinish, Finish, CInv, IInv, TypeOK
  <2>2. workerId' = workerId /\ job' = job
    BY <2>1 DEF TaskFinish
  <2> QED BY <2>1, <2>2 DEF SimFinish
<1>2. \A x \in Task : job.sg[x] \in SubGraph /\ job.kind[x] \in Kind
  BY <1>1, JobFields
<1>3. u \in Worker /\ m \in Kind
  BY <1>1, <1>2 DEF IInv, TypeOK
<1>4. ts \in Seq(Task) /\ Distinct(ts) /\ Range(ts) \cap A = A
  BY <1>1 DEF IsJob, Distinct, ChildrenToPlace, ChildSet
<1>5. /\ finished[t] = 0 /\ placed[t] = <<u>>
      /\ finished' = [finished EXCEPT ![t] = 1]
      /\ \A x \in Task : x # t => finished'[x] = finished[x]
      /\ finished'[t] = 1
  <2>1. finished[t] = 0 /\ placed[t] = <<u>>
    BY <1>1, TestsAreExact DEF TaskFinish
  <2>2. finished' = [finished EXCEPT ![t] = 1] /\ finished \in [Task -> Nat]
    BY <1>1, FinishEffect DEF IInv, TypeOK
  <2> QED BY <2>1, <2>2
<1>6. ASSUME NEW c \in A
      PROVE  /\ c \in Task /\ c # t
             /\ workerId[job.sg[c]] \in Worker
             /\ placed[c] = << >> /\ finished[c] = 0
             /\ placed'[c] = <<workerId[job.sg[c]]>>
  <2>1. /\ c \in Task /\ placed[c] = << >>
        /\ workerId[job.sg[c]] \in Worker
        /\ placed'[c] = <<workerId[job.sg[c]]>>
    BY <1>1, FinishHandsOut
  <2>2. finished[c] \in Nat /\ finished[c] <= Len(placed[c]) /\ Len(<< >>) = 0
    BY <2>1 DEF IInv, FinishedWasPlaced, TypeOK
  <2>3. finished[c] = 0
    BY <2>1, <2>2
  <2>4. Len(<<u>>) = 1
    OBVIOUS
  <2>5. c # t
    <3>1. Len(placed[t]) = 1
      BY <1>5, <2>4
    <3>2. Len(placed[c]) = 0
      BY <2>1, <2>2
    <3> QED BY <3>1, <3>2
  <2> QED BY <2>1, <2>3, <2>5
<1>7. \A c \in Task \ A : placed'[c] = placed[c]
  BY <1>1, FinishHandsOut
<1>8. /\ devices \in [Worker -> [Kind -> Device]]
      /\ \A w \in Worker, k \in Kind : DeviceOK(devices[w][k], InFlightOn(w, k), Slots[k])
  BY DEF DevInv, AllOK, InFlight
<1>9. \A w \in Worker, k \in Kind : F[w][k] = InFlightOn(w, k) \ {t}
  OBVIOUS
<1>10. \A w \in Worker, k \in Kind : w # u \/ k # m => t \notin InFlightOn(w, k)
  BY DEF InFlightOn
<1>11. /\ AllOK(mid, F)
       /\ \A w \in Worker, k \in Kind : devices[w][k].running \ {t} \subseteq mid[w][k].running
  <2> DEFINE d == devices[u][m]
             F0 == InFlightOn(u, m)
             n == Slots[m]
             e == Dequeue(d, t, n)
  <2>1. DeviceOK(d, F0, n) /\ n \in Nat \ {0} /\ t \in d.running
    BY <1>1, <1>3, <1>8, SlotsType
  <2>2. mid = [devices EXCEPT ![u][m] = e]
    BY <1>3, <1>8
  <2> HIDE DEF F, F0, mid, d, n, u, m
  <2>3. DeviceOK(Dequeue(d, t, n), F0 \ {t}, n) /\ d.running \ {t} \subseteq Dequeue(d, t, n).running
    BY <2>1, DequeueOK
  <2> HIDE DEF e
  <2>4. DeviceOK(e, F0 \ {t}, n) /\ d.running \ {t} \subseteq e.running /\ e \in Device
    BY <2>3 DEF DeviceOK, e
  <2>5. /\ mid \in [Worker -> [Kind -> Device]]
        /\ mid[u][m] = e
        /\ \A w \in Worker, k \in Kind : w # u \/ k # m => mid[w][k] = devices[w][k]
    BY <1>3, <1>8, <2>2, <2>4
  <2>6. ASSUME NEW w \in Worker, NEW k \in Kind
        PROVE  /\ DeviceOK(mid[w][k], F[w][k], Slots[k])
               /\ devices[w][k].running \ {t} \subseteq mid[w][k].running
    <3>1. CASE w = u /\ k = m
      <4>1. F[w][k] = F0 \ {t} /\ mid[w][k] = e /\ Slots[k] = n /\ devices[w][k] = d
        BY <3>1, <1>9, <2>5 DEF F0, n, d
      <4> QED BY <4>1, <2>4
    <3>2. CASE w # u \/ k # m
      <4>1. t \notin InFlightOn(w, k)
        BY <3>2, <1>10
      <4>2. F[w][k] = InFlightOn(w, k)
        BY <4>1, <1>9
      <4>3. mid[w][k] = devices[w][k]
        BY <3>2, <2>5
      <4> QED BY <4>2, <4>3, <1>8
    <3> QED BY <3>1, <3>2
  <2> QED BY <2>5, <2>6 DEF AllOK
<1> HIDE DEF F, mid, ts, A
<1>12. Placeable(A, F, workerId)
  <2>1. ASSUME NEW c \in A
        PROVE  /\ workerId[job.sg[c]] \in Worker
               /\ c \notin F[workerId[job.sg[c]]][job.kind[c]]
    <3>1. c \in Task /\ finished[c] = 0 /\ placed[c] = << >> /\ workerId[job.sg[c]] \in Worker
      BY <1>6
    <3>2. Len(<< >>) = 0
      OBVIOUS
    <3>3. \A w, k : c \notin InFlightOn(w, k)
      BY <3>1, <3>2 DEF InFlightOn
    <3> QED BY <1>2, <1>9, <3>1, <3>3
  <2> QED BY <2>1 DEF Placeable
<1>13. /\ AllOK(devices', WithAdded(F, A, workerId))
       /\ KeepRunning(mid, devices')
  <2> DEFINE B == Range(ts) \cap A
  <2>1. B = A /\ Placeable(B, F, workerId)
    BY <1>4, <1>12
  <2>2. /\ AllOK(PlaceInTurn(mid, ts, A, workerId), WithAdded(F, B, workerId))
        /\ KeepRunning(mid, PlaceInTurn(mid, ts, A, workerId))
    BY <1>1, <1>4, <1>11, <2>1, PlaceInTurnKeeps
  <2> HIDE DEF B
  <2> QED BY <1>1, <2>1, <2>2
<1>14. \A w \in Worker, k \in Kind :
          InFlight'[w][k] = WithAdded(F, A, workerId)[w][k]
  <2> SUFFICES ASSUME NEW w \in Worker, NEW k \in Kind
               PROVE  InFlightOn(w, k)' = (InFlightOn(w, k) \ {t}) \cup Belonging(A, w, k, workerId)
    BY <1>9 DEF InFlight, WithAdded
  <2> DEFINE In == InFlightOn(w, k)
             B == Belonging(A, w, k, workerId)
  <2>1. t \notin InFlightOn(w, k)' /\ t \notin B
    <3>1. t \notin A
      BY <1>6
    <3>2. placed'[t] = <<u>>
      BY <1>5, <1>7, <3>1
    <3>3. Len(<<u>>) = 1
      OBVIOUS
    <3>4. ~(finished'[t] < Len(placed'[t]))
      BY <1>5, <3>2, <3>3
    <3> QED BY <3>1, <3>4 DEF InFlightOn, Belonging
  <2>2. ASSUME NEW c \in A
        PROVE  c \in InFlightOn(w, k)' <=> c \in B
    <3>1. finished'[c] = 0 /\ Len(placed'[c]) = 1
      <4>1. Len(<<workerId[job.sg[c]]>>) = 1
        OBVIOUS
      <4> QED BY <1>5, <1>6, <4>1
    <3>2. c \in InFlightOn(w, k)' <=> workerId[job.sg[c]] = w /\ job.kind[c] = k
      BY <1>1, <1>6, <3>1 DEF InFlightOn
    <3> QED BY <3>2 DEF Belonging
  <2>3. ASSUME NEW c \in Task, c \notin A, c # t
        PROVE  c \notin B /\ (c \in InFlightOn(w, k)' <=> c \in In)
    <3>1. finished'[c] = finished[c] /\ placed'[c] = placed[c] /\ job' = job /\ workerId' = workerId
      BY <1>1, <1>5, <1>7, <2>3
    <3> QED BY <2>3, <3>1 DEF InFlightOn, Belonging
  <2>4. \A c \in A : c \in Task /\ c # t /\ c \notin In
    <3> SUFFICES ASSUME NEW c \in A PROVE c \in Task /\ c # t /\ c \notin In
      OBVIOUS
    <3>1. Len(<< >>) = 0
      OBVIOUS
    <3> QED BY <1>6, <3>1 DEF InFlightOn
  <2>5. \A c : c \in InFlightOn(w, k)' \/ c \in In \/ c \in B => c \in Task
    BY <2>4 DEF InFlightOn, Belonging
  <2> HIDE DEF In, B
  <2>6. InFlightOn(w, k)' = (In \ {t}) \cup B
    <3>1. ASSUME NEW c PROVE c \in InFlightOn(w, k)' <=> c \in (In \ {t}) \cup B
      BY <2>1, <2>2, <2>3, <2>4, <2>5
    <3> QED BY <3>1
  <2> QED BY <2>6 DEF In, B
<1>15. AllOK(devices', InFlight')
  BY <1>13, <1>14, AllOKSame
<1>16. ASSUME NEW w \in Worker, NEW k \in Kind
       PROVE  devices[w][k].running \ {t} \subseteq devices'[w][k].running
  BY <1>11, <1>13 DEF KeepRunning
<1> QED BY <1>15, <1>16 DEF DevInv

(* What is in flight and on the devices does not change with the other     *)
(* actions.                                                                *)
LEMMA FrameDevices ==
  ASSUME DevInv, UNCHANGED <<devices, job, workerId, placed, finished>>
  PROVE  DevInv'
<1>1. \A w \in Worker, k \in Kind : InFlight'[w][k] = InFlight[w][k]
  BY DEF InFlight, InFlightOn
<1> QED BY <1>1, AllOKSame DEF DevInv

LEMMA ScheduleFrame ==
  ASSUME SimSchedule
  PROVE  UNCHANGED <<devices, usage, job, workerId, placed, finished>>
<1>1. CASE Admission
  BY <1>1 DEF SimSchedule, Admission, JobAdmission
<1>2. ASSUME NEW s, SimNewReq(s) PROVE UNCHANGED <<devices, usage, job, workerId, placed, finished>>
  BY <1>2 DEF SimSchedule, SimNewReq, TakeRequest, vars
<1>3. CASE SimResourceAvailable
  BY <1>3 DEF SimSchedule, SimResourceAvailable, TakeAvailable, vars
<1>4. ASSUME NEW j, HandleJobFinish(j)
      PROVE  UNCHANGED <<devices, usage, job, workerId, placed, finished>>
  BY <1>4 DEF SimSchedule, HandleJobFinish, vars
<1> QED BY <1>1, <1>2, <1>3, <1>4 DEF SimSchedule

LEMMA StepDevices == IInv /\ CInv /\ DevInv /\ [SimNext]_simVars => DevInv'
<1> SUFFICES ASSUME IInv, CInv, DevInv, [SimNext]_simVars PROVE DevInv'
  OBVIOUS
<1>1. CASE SimSchedule
  BY <1>1, ScheduleFrame, FrameDevices
<1>2. ASSUME NEW s \in SubGraph, NEW w \in Worker, SimDecision(s, w) PROVE DevInv'
  BY <1>2, DecisionDevices
<1>3. ASSUME NEW t \in Task, SimFinish(t) PROVE DevInv'
  BY <1>3, FinishDevices
<1>4. CASE UNCHANGED simVars
  <2>1. UNCHANGED <<devices, job, workerId, placed, finished>>
    BY <1>4 DEF simVars, clusterVars, vars
  <2> QED BY <2>1, FrameDevices
<1> QED BY <1>1, <1>2, <1>3, <1>4 DEF SimNext

(* Every device holds the tasks in flight that belong on it, each once,    *)
(* and leaves no slot free while a task waits.                             *)
THEOREM DevicesHoldInFlight == SimSpec => []DevInv
<1> QED BY SimulationKeepsCluster, InitDevices, StepDevices, PTL DEF SimSpec

(* As many elements as places, where none comes twice.                     *)
LEMMA DistinctLength ==
  ASSUME NEW S, NEW q \in Seq(S), Distinct(q)
  PROVE  IsFiniteSet(Range(q)) /\ Cardinality(Range(q)) = Len(q)
<1> DEFINE n == Len(q)
           D == 1 .. n
<1>1. n \in Nat /\ DOMAIN q = D /\ q = [i \in D |-> q[i]]
  OBVIOUS
<1>3. \A i, k \in D : q[i] = q[k] => i = k
  BY DEF Distinct
<1> HIDE DEF n
<1>2. IsFiniteSet(D) /\ Cardinality(D) = n
  <2>1. 1 \in Int /\ n \in Int /\ n \in Nat
    BY <1>1
  <2>2. IsFiniteSet(D) /\ Cardinality(D) = IF 1 > n THEN 0 ELSE n - 1 + 1
    BY <2>1, FS_Interval
  <2> HIDE DEF D
  <2> QED BY <2>1, <2>2
<1> HIDE DEF D
<1>4. q \in Surjection(D, Range(q)) /\ q \in Injection(D, Range(q))
  BY <1>1, <1>3 DEF Surjection, Injection, IsInjective, Range
<1>5. /\ IsFiniteSet(Range(q))
      /\ Cardinality(Range(q)) = Cardinality(D) <=> q \in Injection(D, Range(q))
  BY <1>2, <1>4, FS_Surjection
<1> QED BY <1>2, <1>4, <1>5 DEF n

(* Each task in flight is on the device it belongs on, once, and nothing   *)
(* else is on it.                                                          *)
THEOREM TasksOnOneDevice == SimSpec => []OnOneDevice
<1>1. DevInv => OnOneDevice
  <2> SUFFICES ASSUME DevInv, NEW w \in Worker, NEW k \in Kind
               PROVE  /\ devices[w][k].running \cup Range(devices[w][k].queue) = InFlightOn(w, k)
                      /\ Cardinality(devices[w][k].running) + Len(devices[w][k].queue)
                           = Cardinality(InFlightOn(w, k))
    BY DEF OnOneDevice
  <2> DEFINE d == devices[w][k]
             F == InFlightOn(w, k)
             A == d.running
             B == Range(d.queue)
  <2>1. DeviceOK(d, F, Slots[k])
    BY DEF DevInv, AllOK, InFlight
  <2> HIDE DEF d, F
  <2>2. A \cup B = F /\ A \cap B = {} /\ d.queue \in Seq(Task) /\ Distinct(d.queue) /\ d \in Device
    BY <2>1 DEF DeviceOK, Device
  <2>3. IsFiniteSet(B) /\ Cardinality(B) = Len(d.queue)
    BY <2>2, DistinctLength
  <2>4. IsFiniteSet(A) /\ Cardinality(A) \in Nat /\ Cardinality(B) \in Nat
    BY <2>2, <2>3, RunningFinite, FS_CardinalityType
  <2>5. Cardinality(A \cup B) = Cardinality(A) + Cardinality(B) - Cardinality(A \cap B)
    BY <2>3, <2>4, FS_Union
  <2>6. Cardinality(A \cap B) = 0
    BY <2>2, FS_EmptySet
  <2>7. Cardinality(F) = Cardinality(A) + Cardinality(B)
    <3>1. Cardinality(F) = Cardinality(A \cup B)
      BY <2>2, Zenon
    <3> QED BY <2>4, <2>5, <2>6, <3>1
  <2> QED BY <2>2, <2>3, <2>7 DEF d, F
<1> QED BY <1>1, DevicesHoldInFlight, PTL

(* No device runs more tasks than it has slots, and none lets a task wait  *)
(* while it has a slot left.                                               *)
THEOREM DevicesAreBusy == SimSpec => []DevicesBusy
<1>1. DevInv => DevicesBusy
  BY DEF DevInv, AllOK, DeviceOK, DevicesBusy
<1> QED BY <1>1, DevicesHoldInFlight, PTL

-----------------------------------------------------------------------------
(* The search that GetMemoryCap starts at the wrong end.                   *)

IsSearch(r, E, from) ==
  r = [n \in Nat |->
         IF n = 0 THEN {from}
         ELSE r[n - 1] \cup {e.to : e \in {f \in E : f.from \in r[n - 1] /\ f.cap > 0}}]

LEMMA BfsUnfold ==
  ASSUME NEW E, NEW from, NEW to
  PROVE  Bfs(E, from, to) <=> to \in (CHOOSE r : IsSearch(r, E, from))[Cardinality(Task) + 1]
BY Zenon DEF Bfs, IsSearch

(* Where no edge begins, a search does not leave.                          *)
LEMMA SearchStays ==
  ASSUME NEW E, NEW from, \A e \in E : e.from # from, NEW to, Bfs(E, from, to)
  PROVE  to = from
<1> DEFINE stay == [n \in Nat |-> {from}]
           r == CHOOSE r : IsSearch(r, E, from)
<1>1. IsSearch(stay, E, from)
  <2>1. {e.to : e \in {f \in E : f.from \in {from} /\ f.cap > 0}} = {}
    OBVIOUS
  <2>2. \A n \in Nat : n # 0 => n - 1 \in Nat
    OBVIOUS
  <2>3. \A n \in Nat : n # 0 => stay[n - 1] = {from}
    BY <2>2
  <2>4. \A n \in Nat : n # 0 =>
          {from} = stay[n - 1] \cup {e.to : e \in {f \in E : f.from \in stay[n - 1] /\ f.cap > 0}}
    BY <2>1, <2>3
  <2> DEFINE next(n) == IF n = 0 THEN {from}
                        ELSE stay[n - 1] \cup {e.to : e \in {f \in E : f.from \in stay[n - 1] /\ f.cap > 0}}
  <2>5. \A n \in Nat : next(n) = {from}
    BY <2>4
  <2>6. stay = [n \in Nat |-> next(n)]
    <3> HIDE DEF next
    <3> QED BY <2>5
  <2> QED BY <2>6 DEF IsSearch
<1>2. IsSearch(r, E, from)
  <2> HIDE DEF stay
  <2> QED BY <1>1
<1> HIDE DEF r
<1> DEFINE S == {n \in Nat : r[n] = {from}}
<1>3. 0 \in S
  BY <1>2 DEF IsSearch
<1>4. ASSUME NEW n \in Nat, n \in S PROVE n + 1 \in S
  <2>1. (n + 1) - 1 = n /\ n + 1 \in Nat /\ n + 1 # 0
    OBVIOUS
  <2>2. r[n + 1] = r[n] \cup {e.to : e \in {f \in E : f.from \in r[n] /\ f.cap > 0}}
    BY <1>2, <2>1 DEF IsSearch
  <2>3. r[n] = {from}
    BY <1>4
  <2>4. {e.to : e \in {f \in E : f.from \in r[n] /\ f.cap > 0}} = {}
    BY <2>3
  <2> QED BY <2>2, <2>3, <2>4
<1>5. Cardinality(Task) + 1 \in S
  <2>1. Cardinality(Task) + 1 \in Nat
    BY TaskAssumption, FS_CardinalityType
  <2> HIDE DEF S
  <2> QED BY <1>3, <1>4, <2>1, SetInduction
<1>6. to \in r[Cardinality(Task) + 1]
  BY BfsUnfold DEF r
<1> QED BY <1>5, <1>6

(* No edge of the flow network begins at the sink.                         *)
LEMMA SinkHasNoEdges ==
  ASSUME NEW j, NEW s, NEW e \in Network(j, s)
  PROVE  e.from # Sink
<1>1. e.from = Source \/ \E t : e.from = <<t>>
  <2>1. \A S : TasksOf(j, S) \subseteq Task
    BY DEF TasksOf
  <2>2. CASE e \in {[from |-> Source, to |-> <<t>>, cap |-> j.use[t]] :
                      t \in TakingTasks(j, s)}
    BY <2>2
  <2>3. CASE e \in {[from |-> <<t>>, to |-> Sink, cap |-> -j.use[t]] :
                      t \in TasksOf(j, s) \ TakingTasks(j, s)}
    BY <2>1, <2>3
  <2>4. CASE e \in UNION {{[from |-> Vertex(j, s, c), to |-> <<t>>, cap |-> Infinite(j)] :
                             c \in ChildSet(j, t)} : t \in TasksOf(j, s)}
    <3>1. PICK t \in TasksOf(j, s) : \E c \in ChildSet(j, t) : e.from = Vertex(j, s, c)
      BY <2>4
    <3>2. PICK c \in ChildSet(j, t) : e.from = Vertex(j, s, c)
      BY <3>1
    <3> QED BY <3>2 DEF Vertex
  <2> QED BY <2>2, <2>3, <2>4 DEF Network
<1>2. Len(<< >>) = 0 /\ Len(<<"sink", "sink">>) = 2 /\ \A t : Len(<<t>>) = 1
  OBVIOUS
<1> QED BY <1>1, <1>2 DEF Source, Sink

(* The search begins at the sink, so that it finds no path to augment, and *)
(* no flow is subtracted from the memory cap.                              *)
LEMMA NoFlow == \A j, s : GetMaxFlow(j, s) = 0
<1>1. ASSUME NEW j, NEW s, Bfs(Network(j, s), Sink, Source) PROVE FALSE
  <2> DEFINE E == Network(j, s)
  <2>1. \A e \in E : e.from # Sink
    BY SinkHasNoEdges
  <2>2. Bfs(E, Sink, Source)
    BY <1>1
  <2> HIDE DEF E
  <2>3. Source = Sink
    BY <2>1, <2>2, SearchStays
  <2> QED BY <2>3 DEF Source, Sink
<1> QED BY <1>1 DEF GetMaxFlow, MaxFlow

-----------------------------------------------------------------------------
(* The memory in use.                                                      *)

LEMMA UseTyped ==
  ASSUME JobTyped
  PROVE  /\ job.use \in [Task -> Int]
         /\ \A s \in SubGraphsOf(job) : job.memory[s] = MemoryCap(job, s)
BY SimulationAssumption DEF JobTyped

LEMMA WholeUnits ==
  ASSUME NEW x \in Int, NEW u \in Nat \ {0}, x % u = 0
  PROVE  x = u * (x \div u) /\ x \div u \in Int
OBVIOUS

LEMMA Cancelled ==
  ASSUME NEW x \in Int, NEW u \in Nat \ {0}
  PROVE  (u * x) \div u = x
OBVIOUS

LEMMA UseSums ==
  ASSUME NEW j, NEW S
  PROVE  MapThenSumSet(LAMBDA t : j.use[t], S) = SumFunctionOnSet(j.use, S)
BY Zenon DEF MapThenSumSet, SumFunctionOnSet, FoldFunctionOnSet, MapThenFoldSet

IsUnitSum(g, j, S) ==
  g = [s \in SUBSET S |->
         IF s = {} THEN 0
         ELSE j.use[AnElement(s)] \div Unit + g[s \ {AnElement(s)}]]

LEMMA UnitSums ==
  ASSUME NEW j, NEW S \in SUBSET Task
  PROVE  MapThenSumSet(LAMBDA t : j.use[t] \div Unit, S)
           = SumFunctionOnSet([t \in Task |-> j.use[t] \div Unit], S)
<1> DEFINE h == [t \in Task |-> j.use[t] \div Unit]
<1>1. MapThenSumSet(LAMBDA t : j.use[t] \div Unit, S) = (CHOOSE g : IsUnitSum(g, j, S))[S]
  BY Zenon DEF MapThenSumSet, MapThenFoldSet, IsUnitSum, AnElement
<1>2. SumFunctionOnSet(h, S) = (CHOOSE g : IsSum(g, h, S))[S]
  BY SumUnfold
<1>3. \A s \in SUBSET S : s # {} => h[AnElement(s)] = j.use[AnElement(s)] \div Unit
  BY AnElementIn
<1> HIDE DEF h
<1>4. ASSUME NEW g PROVE IsUnitSum(g, j, S) <=> IsSum(g, h, S)
  <2> DEFINE a == [s \in SUBSET S |->
                     IF s = {} THEN 0
                     ELSE j.use[AnElement(s)] \div Unit + g[s \ {AnElement(s)}]]
             b == [s \in SUBSET S |->
                     IF s = {} THEN 0 ELSE h[AnElement(s)] + g[s \ {AnElement(s)}]]
  <2>1. a = b
    BY <1>3
  <2> HIDE DEF a, b
  <2>2. (g = a) <=> (g = b)
    BY <2>1
  <2> QED BY <2>2 DEF a, b, IsUnitSum, IsSum
<1>5. (CHOOSE g : IsUnitSum(g, j, S)) = (CHOOSE g : IsSum(g, h, S))
  BY <1>4, Zenon
<1> QED BY <1>1, <1>2, <1>5 DEF h

UsesSummed ==
  \A S : /\ Taken(S) = SumFunctionOnSet(job.use, {t \in S : job.use[t] > 0})
         /\ GivenBack(S) = SumFunctionOnSet(job.use, {t \in S : job.use[t] < 0})

LEMMA UsesAreSums == UsesSummed
BY UseSums, Zenon DEF UsesSummed, Taken, GivenBack

(* What two sets of tasks use, none of which is in both.                   *)
LEMMA UseOfBoth ==
  ASSUME JobTyped, NEW A \in SUBSET Task, NEW B \in SUBSET Task, A \cap B = {}
  PROVE  /\ Taken(A \cup B) = Taken(A) + Taken(B)
         /\ GivenBack(A \cup B) = GivenBack(A) + GivenBack(B)
<1> DEFINE P(S) == {t \in S : job.use[t] > 0}
           N(S) == {t \in S : job.use[t] < 0}
<1>1. \A S : Taken(S) = SumFunctionOnSet(job.use, P(S))
             /\ GivenBack(S) = SumFunctionOnSet(job.use, N(S))
  BY UsesAreSums DEF UsesSummed
<1>2. IsFiniteSet(P(A)) /\ IsFiniteSet(P(B)) /\ IsFiniteSet(N(A)) /\ IsFiniteSet(N(B))
  BY JobFields
<1>3. P(A) \cap P(B) = {} /\ N(A) \cap N(B) = {}
  OBVIOUS
<1>4. (\A x \in P(A) \cup P(B) : job.use[x] \in Int) /\ \A x \in N(A) \cup N(B) : job.use[x] \in Int
  BY UseTyped
<1>5. P(A \cup B) = P(A) \cup P(B) /\ N(A \cup B) = N(A) \cup N(B)
  OBVIOUS
<1> HIDE DEF P, N
<1>6. SumFunctionOnSet(job.use, P(A) \cup P(B))
        = SumFunctionOnSet(job.use, P(A)) + SumFunctionOnSet(job.use, P(B))
  BY <1>2, <1>3, <1>4, SumUnion
<1>7. SumFunctionOnSet(job.use, N(A) \cup N(B))
        = SumFunctionOnSet(job.use, N(A)) + SumFunctionOnSet(job.use, N(B))
  BY <1>2, <1>3, <1>4, SumUnion
<1> QED BY <1>1, <1>5, <1>6, <1>7, Zenon

LEMMA UseSigns ==
  ASSUME JobTyped, NEW A \in SUBSET Task
  PROVE  /\ Taken(A) \in Nat
         /\ GivenBack(A) \in Int /\ GivenBack(A) <= 0
         /\ SumUse(job, A) = Taken(A) + GivenBack(A)
<1> DEFINE P == {t \in A : job.use[t] > 0}
           N == {t \in A : job.use[t] < 0}
           Z == {t \in A : job.use[t] = 0}
           f == job.use
<1>1. /\ Taken(A) = SumFunctionOnSet(f, P) /\ GivenBack(A) = SumFunctionOnSet(f, N)
      /\ SumUse(job, A) = SumFunctionOnSet(f, A)
  BY UseSums, Zenon DEF Taken, GivenBack, SumUse
<1>2. IsFiniteSet(P) /\ IsFiniteSet(N) /\ IsFiniteSet(Z) /\ IsFiniteSet(N \cup Z)
  <2>1. P \in SUBSET Task /\ N \in SUBSET Task /\ Z \in SUBSET Task /\ N \cup Z \in SUBSET Task
    OBVIOUS
  <2> HIDE DEF P, N, Z
  <2> QED BY <2>1, JobFields
<1>3. f \in [Task -> Int]
  BY UseTyped
<1>4. /\ \A t \in P : f[t] \in Nat
      /\ \A t \in N : f[t] \in Int /\ f[t] <= 0
      /\ \A t \in Z : f[t] \in Int /\ f[t] = 0
      /\ A = P \cup (N \cup Z) /\ P \cap (N \cup Z) = {} /\ N \cap Z = {}
      /\ \A t \in A : f[t] \in Int
  <2> HIDE DEF f
  <2> QED BY <1>3 DEF f
<1> HIDE DEF f, P, N, Z
<1>5. SumFunctionOnSet(f, P) \in Nat
  BY <1>2, <1>4, SumNat
<1>6. SumFunctionOnSet(f, N) \in Int /\ SumFunctionOnSet(f, N) <= 0
  BY <1>2, <1>4, SumNotPositive
<1>7. SumFunctionOnSet(f, Z) = 0
  <2>1. SumFunctionOnSet(f, Z) \in Nat
    BY <1>2, <1>4, SumNat
  <2>2. SumFunctionOnSet(f, Z) <= 0
    BY <1>2, <1>4, SumNotPositive
  <2> QED BY <2>1, <2>2
<1>8. SumFunctionOnSet(f, A) = SumFunctionOnSet(f, P) + SumFunctionOnSet(f, N \cup Z)
  <2>1. SumFunctionOnSet(f, P \cup (N \cup Z))
          = SumFunctionOnSet(f, P) + SumFunctionOnSet(f, N \cup Z)
    BY <1>2, <1>4, SumUnion
  <2> QED BY <1>4, <2>1, Zenon
<1>9. SumFunctionOnSet(f, N \cup Z) = SumFunctionOnSet(f, N) + SumFunctionOnSet(f, Z)
  BY <1>2, <1>4, SumUnion
<1> QED BY <1>1, <1>5, <1>6, <1>7, <1>8, <1>9

(* What is in use on a worker, by the tasks that have started and have     *)
(* finished there.                                                         *)
DoneOn(w) == {t \in Done : workerId[job.sg[t]] = w}
StartedOn(w) == DoneOn(w) \cup RunningOn(devices, w)

UsageInv == \A w \in Worker : usage[w] = Taken(StartedOn(w)) + GivenBack(DoneOn(w))

LEMMA RunningIsOpen ==
  ASSUME IInv, DevInv, NEW w \in Worker, NEW t \in RunningOn(devices, w)
  PROVE  /\ t \in Task /\ t \notin Done
         /\ workerId[job.sg[t]] = w
         /\ placed[t] # << >>
<1>1. PICK k \in Kind : t \in devices[w][k].running
  BY DEF RunningOn
<1>2. t \in InFlightOn(w, k)
  BY <1>1 DEF DevInv, AllOK, DeviceOK, InFlight
<1>3. t \in Task /\ finished[t] < Len(placed[t]) /\ workerId[job.sg[t]] = w
  BY <1>2 DEF InFlightOn
<1>4. t \notin Done
  BY <1>3, TestsAreExact
<1>5. placed[t] # << >>
  <2>1. finished[t] \in Nat /\ Len(<< >>) = 0
    BY <1>3 DEF IInv, TypeOK
  <2> QED BY <1>3, <2>1
<1> QED BY <1>3, <1>4, <1>5

WorkersTyped ==
  \A w \in Worker : /\ DoneOn(w) \in SUBSET Task
                    /\ RunningOn(devices, w) \in SUBSET Task
                    /\ DoneOn(w) \cap RunningOn(devices, w) = {}

LEMMA OnWorkersTyped == IInv /\ DevInv => WorkersTyped
BY RunningIsOpen DEF DoneOn, Done, WorkersTyped

LEMMA UsageStep ==
  ASSUME IInv, IInv', JobTyped, DevInv, DevInv', UsageInv, job' = job,
         NEW done, usage' = UsageAfter(devices', done),
         \A w \in Worker : /\ DoneOn(w)' = DoneOn(w) \cup (done \cap RunningOn(devices, w))
                           /\ RunningOn(devices, w) \ done \subseteq RunningOn(devices', w)
  PROVE  UsageInv'
<1> SUFFICES ASSUME NEW w \in Worker
             PROVE  usage'[w] = Taken(StartedOn(w))' + GivenBack(DoneOn(w))'
  BY DEF UsageInv
<1> DEFINE Old == DoneOn(w)
           St == StartedOn(w)
           R == RunningOn(devices, w)
           New == RunningOn(devices', w)
           N == New \ R
           B == done \cap R
<1>1. /\ Old \in SUBSET Task /\ R \in SUBSET Task /\ Old \cap R = {} /\ St = Old \cup R
  BY OnWorkersTyped DEF WorkersTyped, StartedOn
<1>2. /\ New \in SUBSET Task /\ DoneOn(w)' \cap New = {}
      /\ StartedOn(w)' = DoneOn(w)' \cup New
  <2>1. WorkersTyped'
    BY OnWorkersTyped, PTL
  <2> QED BY <2>1 DEF WorkersTyped, StartedOn, RunningOn
<1>3. DoneOn(w)' = Old \cup B /\ R \subseteq New \cup B
  OBVIOUS
<1>4. usage[w] = Taken(St) + GivenBack(Old)
  BY DEF UsageInv
<1>5. usage'[w] = usage[w] + Taken(N) + GivenBack(B)
  BY DEF UsageAfter
<1>6. \A S : Taken(S)' = Taken(S) /\ GivenBack(S)' = GivenBack(S)
  <2>1. UsesSummed /\ UsesSummed'
    BY UsesAreSums, PTL
  <2> QED BY <2>1 DEF UsesSummed
<1> DEFINE NewStarted == StartedOn(w)'
           NewDone == DoneOn(w)'
<1>7. NewStarted = St \cup N /\ St \cap N = {} /\ NewDone = Old \cup B /\ Old \cap B = {}
      /\ St \in SUBSET Task /\ N \in SUBSET Task /\ B \in SUBSET Task
  <2> HIDE DEF Old, St, R, New
  <2>1. NewDone = Old \cup B /\ NewStarted = NewDone \cup New /\ NewDone \cap New = {}
    BY <1>2, <1>3
  <2>2. Old \cap B = {} /\ St \in SUBSET Task /\ N \in SUBSET Task /\ B \in SUBSET Task
    BY <1>1, <1>2
  <2> HIDE DEF NewDone, NewStarted
  <2>3. St \cap N = {}
    <3>1. Old \cap New = {}
      BY <2>1
    <3> QED BY <1>1, <3>1
  <2>4. NewStarted = St \cup N
    BY <1>1, <1>3, <2>1
  <2> QED BY <2>1, <2>2, <2>3, <2>4
<1> HIDE DEF NewStarted, NewDone, Old, St, R, New, N, B
<1>8. /\ Taken(St \cup N) = Taken(St) + Taken(N)
      /\ GivenBack(Old \cup B) = GivenBack(Old) + GivenBack(B)
  BY <1>1, <1>7, UseOfBoth
<1>9. Taken(NewStarted) = Taken(St) + Taken(N) /\ GivenBack(NewDone) = GivenBack(Old) + GivenBack(B)
  BY <1>7, <1>8, Zenon
<1>10. /\ Taken(St) \in Int /\ Taken(N) \in Int /\ GivenBack(Old) \in Int /\ GivenBack(B) \in Int
  BY <1>1, <1>7, UseSigns
<1>11. usage'[w] = Taken(NewStarted) + GivenBack(NewDone)
  BY <1>4, <1>5, <1>9, <1>10
<1> QED BY <1>6, <1>11 DEF NewStarted, NewDone

LEMMA NothingUsed == Taken({}) = 0 /\ GivenBack({}) = 0
<1>1. Taken({}) = SumFunctionOnSet(job.use, {t \in {} : job.use[t] > 0})
      /\ GivenBack({}) = SumFunctionOnSet(job.use, {t \in {} : job.use[t] < 0})
  BY UsesAreSums DEF UsesSummed
<1>2. {t \in {} : job.use[t] > 0} = {} /\ {t \in {} : job.use[t] < 0} = {}
  OBVIOUS
<1> QED BY <1>1, <1>2, SumEmpty

LEMMA InitUsage == SimInit => UsageInv
<1> SUFFICES ASSUME SimInit, NEW w \in Worker
             PROVE  usage[w] = Taken(StartedOn(w)) + GivenBack(DoneOn(w))
  BY DEF UsageInv
<1>1. Done = {}
  BY DEF SimInit, ClusterInit, Init, Done
<1>2. DoneOn(w) = {}
  BY <1>1 DEF DoneOn
<1>3. RunningOn(devices, w) = {}
  BY DEF SimInit, RunningOn
<1>4. StartedOn(w) = {}
  BY <1>2, <1>3 DEF StartedOn
<1>5. Taken({}) = 0 /\ GivenBack({}) = 0
  BY NothingUsed
<1>6. usage[w] = 0
  BY DEF SimInit
<1> QED BY <1>2, <1>4, <1>5, <1>6

LEMMA DecisionUsage ==
  ASSUME IInv, IInv', CInv, DevInv, DevInv', UsageInv,
         NEW s \in SubGraph, NEW w \in Worker, SimDecision(s, w)
  PROVE  UsageInv'
<1>1. PlacementDecision(s, w) /\ JobTyped /\ usage' = UsageAfter(devices', {})
  BY DEF SimDecision, HandleDecision, CInv
<1>2. /\ job' = job /\ finished' = finished
      /\ \A r \in SubGraph : r # s => workerId'[r] = workerId[r]
      /\ workerId[s] = NoWorker
      /\ \A t \in TasksOf(job, s) : finished[t] = 0
  BY <1>1, DecisionHandsOut
<1>3. \A t \in Task : job.sg[t] \in SubGraph
  BY <1>1, JobFields
<1>4. ASSUME NEW t \in Task, finished[t] > 0 PROVE workerId'[job.sg[t]] = workerId[job.sg[t]]
  <2>1. ~(0 > 0)
    OBVIOUS
  <2>2. job.sg[t] # s
    BY <1>2, <1>4, <2>1 DEF TasksOf
  <2> QED BY <1>2, <1>3, <2>2
<1>5. Done' = Done /\ \A t \in Done : t \in Task /\ finished[t] > 0
  BY <1>2 DEF Done
<1>6. \A v \in Worker : DoneOn(v)' = DoneOn(v)
  BY <1>2, <1>4, <1>5 DEF DoneOn
<1>7. KeepRunning(devices, devices')
  BY DecisionDevices
<1>8. \A v \in Worker : RunningOn(devices, v) \subseteq RunningOn(devices', v)
  BY <1>7 DEF KeepRunning, RunningOn
<1>9. \A v \in Worker : /\ DoneOn(v)' = DoneOn(v) \cup ({} \cap RunningOn(devices, v))
                        /\ RunningOn(devices, v) \ {} \subseteq RunningOn(devices', v)
  BY <1>6, <1>8
<1> QED BY <1>1, <1>2, <1>9, UsageStep

LEMMA FinishUsage ==
  ASSUME IInv, IInv', CInv, DevInv, DevInv', UsageInv, NEW t \in Task, SimFinish(t)
  PROVE  UsageInv'
<1> DEFINE u == workerId[job.sg[t]]
<1>1. /\ TaskFinish(t) /\ JobTyped /\ usage' = UsageAfter(devices', {t})
      /\ u # NoWorker /\ t \in devices[u][job.kind[t]].running
  BY DEF SimFinish, Finish, CInv
<1>2. job' = job /\ workerId' = workerId
  BY <1>1 DEF TaskFinish
<1>3. t \notin Done /\ Done' = Done \cup {t}
  BY <1>1, FinishEffect
<1>4. u \in Worker /\ job.kind[t] \in Kind
  BY <1>1, JobFields DEF IInv, TypeOK
<1>5. t \in RunningOn(devices, u)
  BY <1>1, <1>4 DEF RunningOn
<1>6. \A v \in Worker : t \in RunningOn(devices, v) => v = u
  BY RunningIsOpen
<1>7. ASSUME NEW v \in Worker
      PROVE  /\ DoneOn(v)' = DoneOn(v) \cup ({t} \cap RunningOn(devices, v))
             /\ RunningOn(devices, v) \ {t} \subseteq RunningOn(devices', v)
  <2>1. DoneOn(v)' = {x \in Done \cup {t} : workerId[job.sg[x]] = v}
    BY <1>2, <1>3 DEF DoneOn
  <2>2. {t} \cap RunningOn(devices, v) = IF v = u THEN {t} ELSE {}
    BY <1>5, <1>6
  <2>3. DoneOn(v)' = DoneOn(v) \cup IF v = u THEN {t} ELSE {}
    BY <2>1 DEF DoneOn
  <2>4. \A k \in Kind : devices[v][k].running \ {t} \subseteq devices'[v][k].running
    BY FinishDevices
  <2>5. RunningOn(devices, v) \ {t} \subseteq RunningOn(devices', v)
    BY <2>4 DEF RunningOn
  <2> QED BY <2>2, <2>3, <2>5
<1> QED BY <1>1, <1>2, <1>7, UsageStep

LEMMA StepUsage ==
  IInv /\ IInv' /\ CInv /\ DevInv /\ DevInv' /\ UsageInv /\ [SimNext]_simVars => UsageInv'
<1> SUFFICES ASSUME IInv, IInv', CInv, DevInv, DevInv', UsageInv, [SimNext]_simVars
             PROVE  UsageInv'
  OBVIOUS
<1>1. ASSUME UNCHANGED <<devices, usage, job, workerId, placed, finished>> PROVE UsageInv'
  <2>1. UsesSummed /\ UsesSummed'
    BY UsesAreSums, PTL
  <2>2. \A S : Taken(S)' = Taken(S) /\ GivenBack(S)' = GivenBack(S)
    BY <1>1, <2>1 DEF UsesSummed
  <2>3. ASSUME NEW w \in Worker
        PROVE  StartedOn(w)' = StartedOn(w) /\ DoneOn(w)' = DoneOn(w) /\ usage'[w] = usage[w]
    BY <1>1 DEF StartedOn, DoneOn, Done, RunningOn
  <2> QED BY <2>2, <2>3 DEF UsageInv
<1>2. CASE SimSchedule
  BY <1>1, <1>2, ScheduleFrame
<1>3. ASSUME NEW s \in SubGraph, NEW w \in Worker, SimDecision(s, w) PROVE UsageInv'
  BY <1>3, DecisionUsage
<1>4. ASSUME NEW t \in Task, SimFinish(t) PROVE UsageInv'
  BY <1>4, FinishUsage
<1>5. CASE UNCHANGED simVars
  <2>1. UNCHANGED <<devices, usage, job, workerId, placed, finished>>
    BY <1>5 DEF simVars, clusterVars, vars
  <2> QED BY <1>1, <2>1
<1> QED BY <1>2, <1>3, <1>4, <1>5 DEF SimNext

(* The memory in use on a worker is what the tasks that have started there *)
(* have taken, less what those that have finished gave back.               *)
THEOREM UsageFollowsStarts == SimSpec => []UsageInv
<1> QED BY SimulationKeepsCluster, DevicesHoldInFlight, InitUsage, StepUsage, PTL DEF SimSpec

-----------------------------------------------------------------------------
(* What is in use by the subgraphs of S, of those placed on worker w, and  *)
(* what has been reserved for them.                                        *)

PlacedOn(w) == {s \in SubGraphsOf(job) : workerId[s] = w}

UseOf(w, S) ==
  Taken({t \in StartedOn(w) : job.sg[t] \in S})
    + GivenBack({t \in DoneOn(w) : job.sg[t] \in S})

NeedOf(S) == SumFunctionOnSet(job.memory, {s \in S : OpenTasks({s}) # {}})

(* A subgraph is admitted with all the memory its tasks may take.          *)
LEMMA CapIsAllTaken ==
  ASSUME JobTyped, MemoryAddsUp(job), NEW s \in SubGraphsOf(job)
  PROVE  /\ Taken(TasksOf(job, s)) = Unit * job.memory[s]
         /\ job.memory[s] \in Nat
<1> DEFINE P == {t \in TasksOf(job, s) : job.use[t] > 0}
           f == job.use
           g == [t \in Task |-> job.use[t] \div Unit]
<1>1. P \in SUBSET Task /\ IsFiniteSet(P)
  <2>1. P \in SUBSET Task
    BY DEF TasksOf
  <2> HIDE DEF P
  <2> QED BY <2>1, JobFields
<1>2. Unit \in Nat \ {0} /\ \A t \in Task : f[t] \in Int /\ f[t] % Unit = 0
  BY UseTyped, SimulationAssumption DEF MemoryAddsUp
<1>3. ASSUME NEW t \in P PROVE g[t] \in Int /\ f[t] = Unit * g[t]
  <2>1. t \in Task /\ f[t] \in Int /\ f[t] % Unit = 0
    BY <1>1, <1>2
  <2>2. g[t] = f[t] \div Unit
    BY <2>1
  <2> HIDE DEF f, g
  <2>3. f[t] = Unit * (f[t] \div Unit) /\ f[t] \div Unit \in Int
    BY <1>2, <2>1, WholeUnits
  <2> QED BY <2>2, <2>3
<1>4. Taken(TasksOf(job, s)) = SumFunctionOnSet(f, P)
  BY UsesAreSums DEF UsesSummed
<1>5. MemoryCap(job, s) = (Unit * SumFunctionOnSet(g, P)) \div Unit
  <2> HIDE DEF P
  <2>1. MapThenSumSet(LAMBDA t : job.use[t] \div Unit, P) = SumFunctionOnSet(g, P)
    BY <1>1, UnitSums
  <2>2. SumFunctionOnSet(g, P) \in Int
    <3> HIDE DEF g
    <3> QED BY <1>1, <1>3, SumType
  <2>3. P = TakingTasks(job, s)
    BY DEF P, TakingTasks
  <2>4. MemoryCap(job, s)
          = (Unit * MapThenSumSet(LAMBDA t : job.use[t] \div Unit, P) - GetMaxFlow(job, s)) \div Unit
    BY <2>3, Zenon DEF MemoryCap
  <2>5. GetMaxFlow(job, s) = 0
    BY NoFlow
  <2> HIDE DEF g
  <2>6. Unit * SumFunctionOnSet(g, P) - 0 = Unit * SumFunctionOnSet(g, P)
    BY <1>2, <2>2
  <2> QED BY <2>1, <2>4, <2>5, <2>6, Zenon
<1>6. SumFunctionOnSet(f, P) = Unit * SumFunctionOnSet(g, P)
  <2> HIDE DEF P, f, g
  <2>1. Unit \in Int
    BY <1>2
  <2> QED BY <1>1, <1>3, <2>1, SumScaled
<1>7. job.memory[s] = MemoryCap(job, s) /\ job.memory[s] \in Nat
  <2>1. s \in SubGraph
    BY JobFields
  <2> QED BY <2>1, UseTyped, JobFields
<1>8. (Unit * SumFunctionOnSet(g, P)) \div Unit = SumFunctionOnSet(g, P)
  <2> HIDE DEF P
  <2>1. SumFunctionOnSet(g, P) \in Int
    <3> HIDE DEF g
    <3> QED BY <1>1, <1>3, SumType
  <2> HIDE DEF g
  <2> QED BY <1>2, <2>1, Cancelled
<1> QED BY <1>4, <1>5, <1>6, <1>7, <1>8

(* A set of tasks closed under parents is one that may be done.            *)
LEMMA DoneMayBe == ASSUME IInv PROVE Done \in MayBeDone(job)
<1>1. Done \in SUBSET Task
  BY DEF Done
<1>2. ASSUME NEW t \in Task \ Done, NEW c \in ChildSet(job, t), c \in Done PROVE FALSE
  <2>1. c \in Task /\ placed[c] # << >>
    BY <1>1, <1>2, TestsAreExact
  <2>2. Parents(job, c) \subseteq Done
    BY <2>1 DEF IInv, HandedOut
  <2>3. t \in Parents(job, c)
    BY DEF Parents
  <2> QED BY <2>2, <2>3
<1> QED BY <1>1, <1>2 DEF MayBeDone

LEMMA SubGraphCovered ==
  ASSUME IInv, JobTyped, DevInv, MemoryAddsUp(job), NEW w \in Worker, NEW s \in PlacedOn(w)
  PROVE  /\ UseOf(w, {s}) \in Nat
         /\ UseOf(w, {s}) <= Unit * (IF OpenTasks({s}) # {} THEN job.memory[s] ELSE 0)
<1> DEFINE T == TasksOf(job, s)
           A == {t \in StartedOn(w) : job.sg[t] \in {s}}
           B == {t \in DoneOn(w) : job.sg[t] \in {s}}
<1>1. s \in SubGraphsOf(job) /\ workerId[s] = w
  BY DEF PlacedOn
<1>2. /\ DoneOn(w) \in SUBSET Task /\ StartedOn(w) \in SUBSET Task
      /\ DoneOn(w) \subseteq StartedOn(w)
  BY OnWorkersTyped DEF WorkersTyped, StartedOn
<1>3. /\ B = Done \cap T /\ B \subseteq A /\ A \subseteq T /\ T \in SUBSET Task
      /\ Done \in SUBSET Task
  BY <1>1, <1>2 DEF DoneOn, TasksOf, Done
<1>4. OpenTasks({s}) # {} <=> ~(T \subseteq Done)
  <2>1. \A t \in Task : finished[t] \in Nat
    BY DEF IInv, TypeOK
  <2> QED BY <2>1 DEF OpenTasks, TasksOf, Done
<1>5. UseOf(w, {s}) = Taken(A) + GivenBack(B)
  BY DEF UseOf
<1> HIDE DEF A, B
<1>6. /\ A \in SUBSET Task /\ B \in SUBSET Task /\ A \ B \in SUBSET Task /\ T \ A \in SUBSET Task
      /\ B \cap (A \ B) = {} /\ A \cap (T \ A) = {}
      /\ A = B \cup (A \ B) /\ T = A \cup (T \ A)
  BY <1>3
<1> HIDE DEF T
<1>7. /\ Taken(B \cup (A \ B)) = Taken(B) + Taken(A \ B)
      /\ Taken(A \cup (T \ A)) = Taken(A) + Taken(T \ A)
  BY <1>6, UseOfBoth
<1>8. Taken(A) = Taken(B) + Taken(A \ B) /\ Taken(T) = Taken(A) + Taken(T \ A)
  BY <1>6, <1>7, Zenon
<1>9. /\ Taken(A) \in Nat /\ Taken(B) \in Nat /\ Taken(A \ B) \in Nat /\ Taken(T \ A) \in Nat
      /\ GivenBack(B) \in Int /\ GivenBack(B) <= 0
      /\ SumUse(job, B) = Taken(B) + GivenBack(B)
  BY <1>6, UseSigns
<1>10. SumUse(job, B) >= 0
  <2>1. SumUse(job, Done \cap TasksOf(job, s)) >= 0
    BY <1>1, DoneMayBe DEF MemoryAddsUp
  <2> QED BY <1>3, <2>1 DEF T
<1>11. UseOf(w, {s}) \in Nat
  BY <1>5, <1>8, <1>9, <1>10
<1>12. CASE OpenTasks({s}) # {}
  <2>1. Taken(T) = Unit * job.memory[s]
    BY <1>1, CapIsAllTaken DEF T
  <2>2. UseOf(w, {s}) <= Taken(T)
    BY <1>5, <1>8, <1>9
  <2> QED BY <1>11, <1>12, <2>1, <2>2
<1>13. CASE ~(OpenTasks({s}) # {})
  <2>1. A = T /\ B = T
    BY <1>3, <1>4, <1>13
  <2>2. SumUse(job, T) = 0
    BY <1>1 DEF MemoryAddsUp, T
  <2>3. UseOf(w, {s}) = 0
    BY <1>5, <1>9, <2>1, <2>2
  <2>4. Unit * 0 = 0
    BY SimulationAssumption
  <2> QED BY <1>13, <2>3, <2>4
<1> QED BY <1>11, <1>12, <1>13

LEMMA NeedAdds ==
  ASSUME JobTyped, NEW A \in SUBSET SubGraphsOf(job), NEW B \in SUBSET SubGraphsOf(job),
         A \cap B = {}
  PROVE  /\ NeedOf(A \cup B) = NeedOf(A) + NeedOf(B)
         /\ NeedOf(A) \in Nat /\ NeedOf(B) \in Nat
<1> DEFINE O(S) == {s \in S : OpenTasks({s}) # {}}
           f == job.memory
<1>1. /\ IsFiniteSet(O(A)) /\ IsFiniteSet(O(B)) /\ O(A) \cap O(B) = {}
      /\ O(A \cup B) = O(A) \cup O(B)
      /\ O(A) \cup O(B) \subseteq SubGraph
  <2>1. IsFiniteSet(SubGraphsOf(job)) /\ SubGraphsOf(job) \subseteq SubGraph
    BY JobFields
  <2>2. O(A) \in SUBSET SubGraphsOf(job) /\ O(B) \in SUBSET SubGraphsOf(job)
    OBVIOUS
  <2>3. O(A) \cap O(B) = {} /\ O(A \cup B) = O(A) \cup O(B)
    OBVIOUS
  <2> HIDE DEF O
  <2> QED BY <2>1, <2>2, <2>3, FS_Subset
<1>2. \A s \in SubGraph : f[s] \in Nat
  BY JobFields
<1>3. NeedOf(A) = SumFunctionOnSet(f, O(A)) /\ NeedOf(B) = SumFunctionOnSet(f, O(B))
      /\ NeedOf(A \cup B) = SumFunctionOnSet(f, O(A \cup B))
  BY DEF NeedOf
<1> HIDE DEF O, f
<1>4. SumFunctionOnSet(f, O(A)) \in Nat /\ SumFunctionOnSet(f, O(B)) \in Nat
  BY <1>1, <1>2, SumNat
<1>5. SumFunctionOnSet(f, O(A) \cup O(B)) = SumFunctionOnSet(f, O(A)) + SumFunctionOnSet(f, O(B))
  <2>1. \A s \in O(A) \cup O(B) : f[s] \in Int
    BY <1>1, <1>2
  <2> QED BY <1>1, <2>1, SumUnion
<1> QED BY <1>1, <1>3, <1>4, <1>5, Zenon

LEMMA UseAdds ==
  ASSUME IInv, JobTyped, DevInv, NEW w \in Worker, NEW S, NEW x, x \notin S
  PROVE  UseOf(w, S \cup {x}) = UseOf(w, S) + UseOf(w, {x})
<1> DEFINE A(R) == {t \in StartedOn(w) : job.sg[t] \in R}
           B(R) == {t \in DoneOn(w) : job.sg[t] \in R}
<1>1. DoneOn(w) \in SUBSET Task /\ StartedOn(w) \in SUBSET Task
  BY OnWorkersTyped DEF WorkersTyped, StartedOn
<1>2. /\ A(S) \in SUBSET Task /\ A({x}) \in SUBSET Task /\ A(S) \cap A({x}) = {}
      /\ B(S) \in SUBSET Task /\ B({x}) \in SUBSET Task /\ B(S) \cap B({x}) = {}
      /\ A(S \cup {x}) = A(S) \cup A({x})
      /\ B(S \cup {x}) = B(S) \cup B({x})
  BY <1>1
<1>3. /\ UseOf(w, S) = Taken(A(S)) + GivenBack(B(S))
      /\ UseOf(w, {x}) = Taken(A({x})) + GivenBack(B({x}))
      /\ UseOf(w, S \cup {x}) = Taken(A(S \cup {x})) + GivenBack(B(S \cup {x}))
  BY DEF UseOf
<1> HIDE DEF A, B
<1>4. /\ Taken(A(S) \cup A({x})) = Taken(A(S)) + Taken(A({x}))
      /\ GivenBack(B(S) \cup B({x})) = GivenBack(B(S)) + GivenBack(B({x}))
  BY <1>2, UseOfBoth
<1>5. /\ Taken(A(S)) \in Int /\ Taken(A({x})) \in Int
      /\ GivenBack(B(S)) \in Int /\ GivenBack(B({x})) \in Int
  <2>1. \A R \in SUBSET Task : Taken(R) \in Int /\ GivenBack(R) \in Int
    BY UseSigns
  <2> QED BY <1>2, <2>1
<1>6. UseOf(w, S \cup {x}) = (Taken(A(S)) + Taken(A({x}))) + (GivenBack(B(S)) + GivenBack(B({x})))
  BY <1>2, <1>3, <1>4, Zenon
<1> QED BY <1>3, <1>5, <1>6

LEMMA PlacedCovered ==
  ASSUME IInv, JobTyped, DevInv, MemoryAddsUp(job), NEW w \in Worker
  PROVE  \A S \in SUBSET PlacedOn(w) : UseOf(w, S) \in Nat /\ UseOf(w, S) <= Unit * NeedOf(S)
<1> DEFINE D == PlacedOn(w)
           P == {S \in SUBSET D : UseOf(w, S) \in Nat /\ UseOf(w, S) <= Unit * NeedOf(S)}
<1>1. IsFiniteSet(D) /\ D \in SUBSET SubGraphsOf(job) /\ Unit \in Nat
  <2>1. D \in SUBSET SubGraphsOf(job)
    BY DEF PlacedOn
  <2> QED BY <2>1, JobFields, FS_Subset, SimulationAssumption
<1> HIDE DEF D
<1>2. ASSUME NEW S \in SUBSET D, \A R \in SUBSET S : R # S => R \in P
      PROVE  S \in P
  <2>1. CASE S = {}
    <3>1. UseOf(w, S) = Taken({}) + GivenBack({})
      <4>1. {t \in StartedOn(w) : job.sg[t] \in S} = {} /\ {t \in DoneOn(w) : job.sg[t] \in S} = {}
        BY <2>1
      <4> QED BY <4>1, Zenon DEF UseOf
    <3>2. Taken({}) = 0 /\ GivenBack({}) = 0
      BY NothingUsed
    <3>3. NeedOf(S) = 0
      <4>1. {s \in S : OpenTasks({s}) # {}} = {}
        BY <2>1
      <4> QED BY <4>1, SumEmpty DEF NeedOf
    <3>4. Unit * 0 = 0
      BY <1>1
    <3> QED BY <3>1, <3>2, <3>3, <3>4
  <2>2. ASSUME NEW x \in S PROVE S \in P
    <3> DEFINE R == S \ {x}
               need == IF OpenTasks({x}) # {} THEN job.memory[x] ELSE 0
    <3>1. R \in P /\ S = R \cup {x} /\ x \notin R /\ R \cap {x} = {}
      BY <1>2
    <3>2. R \in SUBSET SubGraphsOf(job) /\ {x} \in SUBSET SubGraphsOf(job) /\ x \in PlacedOn(w)
      BY <1>1 DEF D
    <3> HIDE DEF R
    <3>3. UseOf(w, R \cup {x}) = UseOf(w, R) + UseOf(w, {x})
      BY <3>1, UseAdds
    <3>4. UseOf(w, {x}) \in Nat /\ UseOf(w, {x}) <= Unit * need
      BY <3>2, SubGraphCovered
    <3>5. NeedOf(R \cup {x}) = NeedOf(R) + NeedOf({x}) /\ NeedOf(R) \in Nat /\ NeedOf({x}) \in Nat
      BY <3>1, <3>2, NeedAdds
    <3>6. NeedOf({x}) = need
      <4> DEFINE O == {s \in {x} : OpenTasks({s}) # {}}
      <4>1. CASE OpenTasks({x}) # {}
        <5>1. O = {x}
          BY <4>1
        <5> HIDE DEF O
        <5>2. job.memory[x] \in Int
          BY <3>2, JobFields
        <5>3. SumFunctionOnSet(job.memory, {x}) = job.memory[x]
          <6>1. /\ IsFiniteSet({x}) /\ x \in {x} /\ {x} \ {x} = {}
                /\ \A y \in {x} : job.memory[y] \in Int
            BY <5>2, FS_Singleton
          <6> DEFINE E == {x} \ {x}
          <6>2. SumFunctionOnSet(job.memory, {x}) = job.memory[x] + SumFunctionOnSet(job.memory, E)
            BY <6>1, SumRemove
          <6>3. SumFunctionOnSet(job.memory, E) = 0
            BY <6>1, SumEmpty
          <6> QED BY <5>2, <6>2, <6>3
        <5>4. NeedOf({x}) = SumFunctionOnSet(job.memory, O)
          BY DEF NeedOf, O
        <5> QED BY <4>1, <5>1, <5>3, <5>4
      <4>2. CASE ~(OpenTasks({x}) # {})
        <5>1. O = {}
          BY <4>2
        <5> HIDE DEF O
        <5>2. NeedOf({x}) = SumFunctionOnSet(job.memory, O)
          BY DEF NeedOf, O
        <5> QED BY <4>2, <5>1, <5>2, SumEmpty
      <4> QED BY <4>1, <4>2
    <3>7. UseOf(w, R) \in Nat /\ UseOf(w, R) <= Unit * NeedOf(R)
      BY <3>1
    <3> HIDE DEF need
    <3>8. UseOf(w, R) + UseOf(w, {x}) <= Unit * (NeedOf(R) + need)
      <4> DEFINE a == UseOf(w, R)
                 b == UseOf(w, {x})
                 c == NeedOf(R)
      <4>1. a \in Nat /\ b \in Nat /\ c \in Nat /\ need \in Nat /\ Unit \in Nat
            /\ a <= Unit * c /\ b <= Unit * need
        BY <1>1, <3>4, <3>5, <3>6, <3>7
      <4> HIDE DEF a, b, c
      <4>2. Unit * (c + need) = Unit * c + Unit * need /\ Unit * c \in Nat /\ Unit * need \in Nat
        BY <4>1
      <4>3. a + b <= Unit * (c + need)
        BY <4>1, <4>2
      <4> QED BY <4>3 DEF a, b, c
    <3>9. UseOf(w, S) = UseOf(w, R) + UseOf(w, {x}) /\ NeedOf(S) = NeedOf(R) + need
      BY <3>1, <3>3, <3>5, <3>6, Zenon
    <3>10. UseOf(w, S) \in Nat /\ UseOf(w, S) <= Unit * NeedOf(S)
      <4>1. UseOf(w, R) + UseOf(w, {x}) \in Nat
        BY <3>4, <3>7
      <4> QED BY <3>8, <3>9, <4>1
    <3> QED BY <3>10
  <2> QED BY <2>1, <2>2
<1>3. SUBSET D \subseteq P
  <2> HIDE DEF P
  <2> QED BY <1>1, <1>2, SubsetInduction
<1> QED BY <1>3 DEF D

(* A running task is ready: when it finishes, what is done may be done.    *)
LEMMA FinishMayBe ==
  ASSUME IInv, DevInv, NEW w \in Worker, NEW t \in RunningOn(devices, w)
  PROVE  /\ t \in Task /\ workerId[job.sg[t]] = w /\ t \notin Done
         /\ Done \cup {t} \in MayBeDone(job)
<1>1. t \in Task /\ workerId[job.sg[t]] = w /\ t \notin Done /\ placed[t] # << >>
  BY RunningIsOpen
<1>2. Parents(job, t) \subseteq Done
  BY <1>1 DEF IInv, HandedOut
<1>3. Done \in MayBeDone(job)
  BY DoneMayBe
<1>4. \A p \in Task \ Done : t \notin ChildSet(job, p)
  BY <1>2 DEF Parents
<1> QED BY <1>1, <1>3, <1>4 DEF MayBeDone

(* What a running task gives back, its subgraph has taken.                 *)
LEMMA GiveBackCovered ==
  ASSUME IInv, JobTyped, DevInv, MemoryAddsUp(job),
         NEW w \in Worker, NEW t \in RunningOn(devices, w)
  PROVE  /\ job.sg[t] \in PlacedOn(w)
         /\ UseOf(w, {job.sg[t]}) + GivenBack({t}) >= 0
<1> DEFINE s == job.sg[t]
           T == TasksOf(job, s)
           A == {x \in StartedOn(w) : job.sg[x] \in {s}}
           B == {x \in DoneOn(w) : job.sg[x] \in {s}}
           C == B \cup {t}
<1>1. t \in Task /\ workerId[s] = w /\ t \notin Done /\ Done \cup {t} \in MayBeDone(job)
  BY FinishMayBe
<1>2. s \in SubGraphsOf(job) /\ s \in PlacedOn(w)
  BY <1>1 DEF SubGraphsOf, PlacedOn
<1>3. /\ DoneOn(w) \in SUBSET Task /\ StartedOn(w) \in SUBSET Task
      /\ DoneOn(w) \subseteq StartedOn(w) /\ t \in StartedOn(w)
  BY OnWorkersTyped DEF WorkersTyped, StartedOn
<1>4. B = Done \cap T /\ t \notin B /\ C \subseteq A /\ C = (Done \cup {t}) \cap T
      /\ A \in SUBSET Task /\ B \in SUBSET Task /\ C \in SUBSET Task
  BY <1>1, <1>3 DEF DoneOn, TasksOf, Done
<1>5. UseOf(w, {s}) = Taken(A) + GivenBack(B)
  BY DEF UseOf
<1>6. SumUse(job, C) >= 0
  <2>1. SumUse(job, (Done \cup {t}) \cap TasksOf(job, s)) >= 0
    BY <1>1, <1>2 DEF MemoryAddsUp
  <2> QED BY <1>4, <2>1 DEF T
<1> HIDE DEF A, B, T
<1>7. GivenBack(C) = GivenBack(B) + GivenBack({t})
  <2>1. B \cap {t} = {} /\ {t} \in SUBSET Task
    BY <1>1, <1>4
  <2> QED BY <1>4, <2>1, UseOfBoth
<1>8. Taken(A) = Taken(C) + Taken(A \ C)
  <2>1. C \cap (A \ C) = {} /\ A \ C \in SUBSET Task /\ A = C \cup (A \ C)
    BY <1>4
  <2> HIDE DEF C
  <2>2. Taken(C \cup (A \ C)) = Taken(C) + Taken(A \ C)
    BY <1>4, <2>1, UseOfBoth
  <2> QED BY <2>1, <2>2, Zenon
<1> HIDE DEF C
<1>9. /\ Taken(A) \in Nat /\ Taken(C) \in Nat /\ Taken(A \ C) \in Nat
      /\ GivenBack(B) \in Int /\ GivenBack({t}) \in Int
      /\ SumUse(job, C) = Taken(C) + GivenBack(C)
  <2>1. A \ C \in SUBSET Task /\ {t} \in SUBSET Task
    BY <1>1, <1>4
  <2> QED BY <1>4, <2>1, UseSigns
<1> QED BY <1>2, <1>5, <1>6, <1>7, <1>8, <1>9

(* The memory the tasks on a worker use is covered by what is reserved     *)
(* there, and never negative, in a job whose memory adds up.               *)
THEOREM UsageIsCovered == SimSpec => []UsageCovered
<1>1. IInv /\ CInv /\ DevInv /\ UsageInv => UsageCovered
  <2> SUFFICES ASSUME IInv, CInv, DevInv, UsageInv, job \in JobsThatAddUp, NEW w \in Worker
               PROVE  /\ 0 <= usage[w]
                      /\ \A t \in RunningOn(devices, w) : 0 <= usage[w] + GivenBack({t})
                      /\ usage[w] <= Unit * reservation[w]["memory"]
    BY DEF UsageCovered
  <2> DEFINE P == PlacedOn(w)
             A == AssignedTo(w)
             R == A \ P
  <2>1. JobTyped /\ MemoryAddsUp(job)
    BY DEF CInv, JobsThatAddUp
  <2>2. P \in SUBSET SubGraphsOf(job) /\ R \in SUBSET SubGraphsOf(job)
        /\ P \cap R = {} /\ A = P \cup R
    BY DEF PlacedOn, AssignedTo
  <2>3. usage[w] = UseOf(w, P)
    <3>1. \A t \in StartedOn(w) : job.sg[t] \in P
      <4>1. ASSUME NEW t \in StartedOn(w) PROVE t \in Task /\ workerId[job.sg[t]] = w
        BY RunningIsOpen DEF StartedOn, DoneOn, Done
      <4> QED BY <4>1 DEF PlacedOn, SubGraphsOf
    <3>2. DoneOn(w) \subseteq StartedOn(w)
      BY DEF StartedOn
    <3> HIDE DEF P
    <3>3. {t \in StartedOn(w) : job.sg[t] \in P} = StartedOn(w)
          /\ {t \in DoneOn(w) : job.sg[t] \in P} = DoneOn(w)
      BY <3>1, <3>2
    <3>4. UseOf(w, P) = Taken(StartedOn(w)) + GivenBack(DoneOn(w))
      BY <3>3, Zenon DEF UseOf
    <3> QED BY <3>4 DEF UsageInv
  <2>4. UseOf(w, P) \in Nat /\ UseOf(w, P) <= Unit * NeedOf(P)
    BY <2>1, PlacedCovered
  <2>14. ASSUME NEW t \in RunningOn(devices, w) PROVE 0 <= usage[w] + GivenBack({t})
    <3> DEFINE x == job.sg[t]
               Q == P \ {x}
    <3>1. x \in P /\ UseOf(w, {x}) + GivenBack({t}) >= 0
      BY <2>1, GiveBackCovered
    <3>2. UseOf(w, Q) \in Nat /\ UseOf(w, {x}) \in Nat
      <4>1. Q \in SUBSET PlacedOn(w) /\ {x} \in SUBSET PlacedOn(w)
        BY <3>1
      <4> HIDE DEF Q, x, P
      <4> QED BY <2>1, <4>1, PlacedCovered
    <3>3. x \notin Q /\ P = Q \cup {x}
      BY <3>1
    <3> HIDE DEF Q, x, P
    <3>4. UseOf(w, Q \cup {x}) = UseOf(w, Q) + UseOf(w, {x})
      BY <2>1, <3>3, UseAdds
    <3>5. usage[w] = UseOf(w, Q) + UseOf(w, {x})
      BY <2>3, <3>3, <3>4, Zenon
    <3>6. GivenBack({t}) \in Int
      <4>1. {t} \in SUBSET Task
        BY RunningIsOpen
      <4> QED BY <2>1, <4>1, UseSigns
    <3> QED BY <3>1, <3>2, <3>5, <3>6
  <2>5. reservation[w]["memory"] = Held(A)["memory"] + OthersHold({o \in Others : otherWorker[o] = w \/ <<o, w>> \in decisions})["memory"]
    BY DEF CInv, ReservationExact, Add, Resource
  <2>6. OthersHold({o \in Others : otherWorker[o] = w \/ <<o, w>> \in decisions})["memory"] \in Nat
    <3> DEFINE O == {o \in Others : otherWorker[o] = w \/ <<o, w>> \in decisions}
    <3>1. O \in SUBSET Others
      OBVIOUS
    <3> HIDE DEF O
    <3>2. OthersHold(O) \in Pack
      BY <3>1, OthersHoldType
    <3> QED BY <3>2 DEF O, Pack, Resource
  <2>7. Held(A)["memory"] = NeedOf(A)
    BY DEF Held, NeedOf, Resource
  <2> DEFINE o == OthersHold({o \in Others : otherWorker[o] = w \/ <<o, w>> \in decisions})["memory"]
  <2> HIDE DEF P, A, R, o
  <2>8. NeedOf(P \cup R) = NeedOf(P) + NeedOf(R) /\ NeedOf(P) \in Nat /\ NeedOf(R) \in Nat
    BY <2>1, <2>2, NeedAdds
  <2>9. NeedOf(A) = NeedOf(P) + NeedOf(R)
    BY <2>2, <2>8, Zenon
  <2>10. reservation[w]["memory"] = (NeedOf(P) + NeedOf(R)) + o /\ o \in Nat
    BY <2>5, <2>6, <2>7, <2>9 DEF o
  <2> DEFINE m == reservation[w]["memory"]
             n == NeedOf(P)
             r == NeedOf(R)
  <2>11. m = (n + r) + o /\ n \in Nat /\ r \in Nat /\ o \in Nat /\ Unit \in Nat
    BY <2>8, <2>10, SimulationAssumption
  <2> HIDE DEF m, n, r
  <2>12. Unit * m = Unit * n + Unit * (r + o) /\ Unit * (r + o) \in Nat /\ Unit * n \in Nat
    BY <2>11
  <2>13. Unit * n <= Unit * m
    BY <2>12
  <2> QED BY <2>3, <2>4, <2>12, <2>13, <2>14 DEF m, n
<1> QED BY <1>1, SimulationKeepsCluster, DevicesHoldInFlight, UsageFollowsStarts, PTL

UsageOfWorkers == usage = [w \in Worker |-> usage[w]] /\ algorithm \in Algorithms

(* Type correctness, of the devices and the memory in use too.             *)
THEOREM SimTypeCorrect == SimSpec => []SimTypeOK
<1>1. SimInit => UsageOfWorkers
  BY DEF SimInit, UsageOfWorkers
<1>2. UsageOfWorkers /\ [SimNext]_simVars => UsageOfWorkers'
  <2> SUFFICES ASSUME UsageOfWorkers, [SimNext]_simVars PROVE UsageOfWorkers'
    OBVIOUS
  <2>1. algorithm' = algorithm
    BY DEF SimNext, SimSchedule, SimDecision, SimFinish, simVars
  <2>2. usage' = usage \/ \E done : usage' = UsageAfter(devices', done)
    BY DEF SimNext, SimSchedule, SimDecision, SimFinish, simVars
  <2>3. CASE usage' = usage
    BY <2>1, <2>3 DEF UsageOfWorkers
  <2>4. ASSUME NEW done, usage' = UsageAfter(devices', done) PROVE UsageOfWorkers'
    BY <2>1, <2>4 DEF UsageOfWorkers, UsageAfter
  <2> QED BY <2>2, <2>3, <2>4
<1>3. IInv /\ CInv /\ DevInv /\ UsageInv /\ UsageOfWorkers => SimTypeOK
  <2> SUFFICES ASSUME IInv, CInv, DevInv, UsageInv, UsageOfWorkers PROVE SimTypeOK
    OBVIOUS
  <2>1. ASSUME NEW w \in Worker PROVE usage[w] \in Int
    <3>1. StartedOn(w) \in SUBSET Task /\ DoneOn(w) \in SUBSET Task
      BY OnWorkersTyped DEF WorkersTyped, StartedOn
    <3>2. Taken(StartedOn(w)) \in Int /\ GivenBack(DoneOn(w)) \in Int
      BY <3>1, UseSigns DEF CInv
    <3> QED BY <3>2 DEF UsageInv
  <2>2. usage \in [Worker -> Int]
    BY <2>1 DEF UsageOfWorkers
  <2>3. ClusterTypeOK
    BY InvariantsType
  <2> QED BY <2>2, <2>3 DEF SimTypeOK, DevInv, AllOK, UsageOfWorkers
<1> QED
  BY <1>1, <1>2, <1>3, SimulationKeepsCluster, DevicesHoldInFlight, UsageFollowsStarts, PTL
     DEF SimSpec

(* In a job whose memory adds up, the CHECK of IncreaseMemoryUsage holds:  *)
(* no worker uses more memory than it has.                                 *)
THEOREM MemoryCheckKept == SimSpec => [](job \in JobsThatAddUp => MemoryCheckHolds)
<1>1. CInv /\ UsageCovered /\ SimTypeOK => (job \in JobsThatAddUp => MemoryCheckHolds)
  <2> SUFFICES ASSUME CInv, UsageCovered, SimTypeOK, job \in JobsThatAddUp, NEW w \in Worker
               PROVE  usage[w] <= Unit * Limit[w]["memory"]
    BY DEF MemoryCheckHolds
  <2> DEFINE m == reservation[w]["memory"]
             n == Limit[w]["memory"]
  <2>1. usage[w] <= Unit * m /\ usage[w] \in Int
    BY DEF UsageCovered, SimTypeOK
  <2>2. m \in Nat /\ n \in Nat /\ Unit \in Nat
    BY ClusterAssumption, SimulationAssumption DEF CInv, Pack, Resource
  <2>3. m <= n
    <3>1. CASE reservation[w] = NoPack
      BY <2>2, <3>1 DEF NoPack, Resource
    <3>2. CASE reservation[w] # NoPack
      <4>1. n > m
        BY <3>2 DEF CInv, NeverOverReserved, FitIn, Resource
      <4> QED BY <2>2, <4>1
    <3> QED BY <3>1, <3>2
  <2> HIDE DEF m, n
  <2>4. Unit * m <= Unit * n /\ Unit * m \in Nat /\ Unit * n \in Nat
    BY <2>2, <2>3
  <2> QED BY <2>1, <2>4 DEF n
<1> QED BY <1>1, SimulationKeepsCluster, UsageIsCovered, SimTypeCorrect, PTL

=============================================================================
