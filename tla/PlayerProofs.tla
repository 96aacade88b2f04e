---------------------------- MODULE PlayerProofs ----------------------------
(***************************************************************************)
(* The player, for every log: the load it replays is that of the units     *)
(* under way, and the report shows it where it says so.                    *)
(***************************************************************************)
EXTENDS Player, ReportProofs

-----------------------------------------------------------------------------
(* The log.                                                                *)

(* What a finite set is mapped to is finite.                               *)
LEMMA FiniteImage ==
  ASSUME NEW S, IsFiniteSet(S), NEW f
  PROVE  IsFiniteSet({f[x] : x \in S})
<1> DEFINE T == {f[x] : x \in S}
           g == [x \in S |-> f[x]]
<1>1. g \in [S -> T] /\ \A y \in T : \E x \in S : g[x] = y
  OBVIOUS
<1> HIDE DEF g, T
<1>2. g \in Surjection(S, T)
  BY <1>1 DEF Surjection
<1>3. IsFiniteSet(T)
  BY <1>2, FS_Surjection
<1> QED BY <1>3 DEF T

LogOK ==
  /\ log \in [Unit -> UnitRecord]
  /\ \A u \in Unit : log[u].assigned <= log[u].finished

LEMMA FixedLog ==
  ASSUME NEW l \in Logs
  PROVE  /\ FixTimeLine(l) \in [Unit -> UnitRecord]
         /\ \A u \in Unit : FixTimeLine(l)[u].assigned <= FixTimeLine(l)[u].finished
<1> DEFINE A == {l[u].assigned : u \in Unit}
           f == [u \in Unit |-> l[u].assigned]
           start == Min(A)
<1>1. l \in [Unit -> UnitRecord] /\ \A u \in Unit : l[u].assigned <= l[u].finished
  BY PlayerAssumption
<1>2. A = {f[u] : u \in Unit}
  OBVIOUS
<1>3. IsFiniteSet({f[u] : u \in Unit})
  <2> HIDE DEF f
  <2> QED BY PlayerAssumption, FiniteImage
<1>4. IsFiniteSet(A) /\ A \subseteq Int /\ A # {} /\ A \subseteq Nat
  <2>1. A \subseteq Nat
    BY <1>1 DEF UnitRecord
  <2>2. A # {}
    BY PlayerAssumption
  <2>3. A \subseteq Int
    BY <2>1
  <2>4. IsFiniteSet(A)
    BY <1>2, <1>3, Zenon
  <2> QED BY <2>1, <2>2, <2>3, <2>4
<1>5. start \in A /\ \A x \in A : start <= x
  <2> HIDE DEF A
  <2> QED BY <1>4, MinIs
<1>6. start \in Nat /\ \A u \in Unit : start <= l[u].assigned
  BY <1>4, <1>5
<1>7. FixTimeLine(l) =
        [u \in Unit |-> [l[u] EXCEPT !.assigned = @ - start, !.finished = @ - start]]
  BY DEF FixTimeLine
<1> HIDE DEF start
<1>8. ASSUME NEW u \in Unit
      PROVE  /\ [l[u] EXCEPT !.assigned = @ - start, !.finished = @ - start] \in UnitRecord
             /\ FixTimeLine(l)[u].assigned <= FixTimeLine(l)[u].finished
  <2> DEFINE r == l[u]
  <2>1. r \in UnitRecord /\ r.assigned <= r.finished /\ start <= r.assigned
    BY <1>1, <1>6
  <2>2. FixTimeLine(l)[u] = [r EXCEPT !.assigned = @ - start, !.finished = @ - start]
    BY <1>7
  <2> HIDE DEF r
  <2>3. /\ r.assigned \in Nat /\ r.finished \in Nat
    BY <2>1 DEF UnitRecord
  <2>4. r.assigned - start \in Nat /\ r.finished - start \in Nat
        /\ r.assigned - start <= r.finished - start
    BY <1>6, <2>1, <2>3
  <2>5. [r EXCEPT !.assigned = @ - start, !.finished = @ - start] \in UnitRecord
    BY <2>1, <2>4 DEF UnitRecord
  <2>6. FixTimeLine(l)[u].assigned = r.assigned - start
        /\ FixTimeLine(l)[u].finished = r.finished - start
    BY <2>1, <2>2 DEF UnitRecord
  <2> QED BY <2>4, <2>5, <2>6 DEF r
<1>9. FixTimeLine(l) \in [Unit -> UnitRecord]
  BY <1>7, <1>8
<1> QED BY <1>8, <1>9

LEMMA WorkerOfUnit ==
  ASSUME LogOK, NEW u \in Unit
  PROVE  log[u].worker \in WorkersOf(log)
<1> DEFINE W == {log[v].worker : v \in Unit}
           f == [v \in Unit |-> log[v].worker]
<1>1. W = {f[v] : v \in Unit}
  OBVIOUS
<1>2. IsFiniteSet({f[v] : v \in Unit})
  <2> HIDE DEF f
  <2> QED BY PlayerAssumption, FiniteImage
<1>3. IsFiniteSet(W)
  BY <1>1, <1>2, Zenon
<1>4. W \subseteq Nat /\ log[u].worker \in W
  BY DEF LogOK, UnitRecord
<1>5. Max(W) \in W /\ \A x \in W : x <= Max(W)
  <2>1. W \subseteq Int /\ W # {}
    BY <1>4
  <2> HIDE DEF W
  <2> QED BY <1>3, <2>1, MaxIs
<1> QED BY <1>4, <1>5 DEF WorkersOf

(* No load is negative.                                                    *)
LEMMA LoadOfNat ==
  ASSUME LogOK, NEW u \in Unit, NEW a \in Amount
  PROVE  LoadOf(u, a) \in Nat
<1> DEFINE r == log[u]
<1>1. /\ r.request \in Nat /\ r.memory \in Nat /\ r.assigned \in Nat /\ r.finished \in Nat
      /\ r.kind \in {"cpu", "network", "disk"} /\ r.assigned <= r.finished
  BY DEF LogOK, UnitRecord
<1>2. Rate(u) \in Nat
  <2>1. Rate(u) = r.request \div (r.finished - r.assigned + 1)
    BY DEF Rate
  <2> HIDE DEF r
  <2> DEFINE d == r.finished - r.assigned + 1
             q == r.request
  <2>2. d \in Nat \ {0} /\ q \in Nat
    BY <1>1
  <2> HIDE DEF d, q
  <2>3. q \div d \in Nat
    BY <2>2
  <2> QED BY <2>1, <2>3 DEF d, q
<1>3. CASE a = "memory"
  BY <1>1, <1>3 DEF LoadOf
<1>4. CASE a = "cpu"
  BY <1>1, <1>4 DEF LoadOf
<1>5. CASE a = "network"
  BY <1>1, <1>2, <1>5 DEF LoadOf
<1> QED BY <1>3, <1>4, <1>5 DEF Amount

(* The sum of the loads of a set of units, with one more or one less.      *)
LEMMA LoadMore ==
  ASSUME LogOK, NEW U \in SUBSET Unit, NEW u \in Unit, NEW a \in Amount
  PROVE  /\ SumLoad(U, a) \in Nat
         /\ u \notin U => SumLoad(U \cup {u}, a) = SumLoad(U, a) + LoadOf(u, a)
         /\ u \in U => /\ SumLoad(U \ {u}, a) = SumLoad(U, a) - LoadOf(u, a)
                       /\ LoadOf(u, a) <= SumLoad(U, a)
<1> DEFINE f == [v \in Unit |-> LoadOf(v, a)]
<1>1. \A v \in Unit : f[v] = LoadOf(v, a) /\ f[v] \in Nat /\ f[v] \in Int
  BY LoadOfNat
<1>2. \A V \in SUBSET Unit : IsFiniteSet(V)
  BY FS_Subset, PlayerAssumption
<1>3. \A V \in SUBSET Unit : SumLoad(V, a) = SumFunctionOnSet(f, V)
  BY DEF SumLoad
<1> HIDE DEF f
<1>4. \A V \in SUBSET Unit :
        SumFunctionOnSet(f, V) \in Nat /\ \A v \in V : f[v] <= SumFunctionOnSet(f, V)
  <2> TAKE V \in SUBSET Unit
  <2>1. IsFiniteSet(V) /\ \A v \in V : f[v] \in Nat
    BY <1>1, <1>2
  <2> QED BY <2>1, SumNat
<1>5. \A V \in SUBSET Unit : \A v \in V :
        SumFunctionOnSet(f, V) = f[v] + SumFunctionOnSet(f, V \ {v})
  <2> TAKE V \in SUBSET Unit
  <2> TAKE v \in V
  <2>1. IsFiniteSet(V) /\ \A y \in V : f[y] \in Int
    BY <1>1, <1>2
  <2> QED BY <2>1, SumRemove
<1>6. ASSUME u \notin U
      PROVE  SumLoad(U \cup {u}, a) = SumLoad(U, a) + LoadOf(u, a)
  <2> DEFINE V == U \cup {u}
  <2>1. V \in SUBSET Unit /\ u \in V /\ V \ {u} = U
    BY <1>6
  <2> HIDE DEF V
  <2>2. SumFunctionOnSet(f, V) = f[u] + SumFunctionOnSet(f, U)
    BY <1>5, <2>1
  <2>3. SumLoad(V, a) = LoadOf(u, a) + SumLoad(U, a)
    BY <1>1, <1>3, <2>1, <2>2
  <2>4. LoadOf(u, a) \in Nat /\ SumLoad(U, a) \in Nat
    BY <1>1, <1>3, <1>4
  <2> QED BY <2>3, <2>4 DEF V
<1>7. ASSUME u \in U
      PROVE  /\ SumLoad(U \ {u}, a) = SumLoad(U, a) - LoadOf(u, a)
             /\ LoadOf(u, a) <= SumLoad(U, a)
  <2> DEFINE V == U \ {u}
  <2>1. V \in SUBSET Unit
    OBVIOUS
  <2>2. SumFunctionOnSet(f, U) = f[u] + SumFunctionOnSet(f, V)
    BY <1>5, <1>7
  <2> HIDE DEF V
  <2>3. SumLoad(U, a) = LoadOf(u, a) + SumLoad(V, a)
    BY <1>1, <1>3, <2>1, <2>2
  <2>4. LoadOf(u, a) \in Nat /\ SumLoad(V, a) \in Nat /\ SumLoad(U, a) \in Nat
    BY <1>1, <1>3, <1>4, <2>1
  <2> QED BY <2>3, <2>4 DEF V
<1> QED BY <1>3, <1>4, <1>6, <1>7

-----------------------------------------------------------------------------
(* The inductive invariant.                                                *)

(* What a worker has under way.                                            *)
UnderWay(w) == {u \in Unit : /\ log[u].worker = w
                             /\ <<u, "start">> \notin pending
                             /\ <<u, "finish">> \in pending}

(* Events are replayed in the order of their times, so no unit finishes    *)
(* before it starts.                                                       *)
InTime ==
  /\ pending \subseteq Event
  /\ \A e \in pending, f \in Event \ pending : Time(f) <= Time(e)
  /\ Lasting => \A u \in Unit : <<u, "start">> \in pending => <<u, "finish">> \in pending

Loaded ==
  /\ snapshot \in [WorkersOf(log) -> [Amount -> Int]]
  /\ Lasting => \A w \in WorkersOf(log), a \in Amount :
                  snapshot[w][a] = SumLoad(UnderWay(w), a)

(* A worker has a record of 0 and of each time at which an event of its    *)
(* was replayed; if that was the only one of its time the record is the    *)
(* load of that time.                                                      *)
Recorded ==
  /\ DOMAIN record = WorkersOf(log)
  /\ \A w \in WorkersOf(log) :
       DOMAIN record[w] = {0} \cup {Time(e) : e \in {f \in Event \ pending :
                                                       log[f[1]].worker = w}}
  /\ Lasting =>
       \A w \in WorkersOf(log) : \A n \in DOMAIN record[w] :
         n > 0 /\ AloneAt(w, n) =>
           \A a \in Amount : record[w][n][a] = LoadAt(w, n, a)

PInv == LogOK /\ InTime /\ Loaded /\ Recorded

LEMMA EventIs ==
  ASSUME LogOK, NEW e \in Event
  PROVE  /\ e[1] \in Unit
         /\ e = <<e[1], "start">> \/ e = <<e[1], "finish">>
         /\ Time(e) \in Nat
BY DEF Event, Time, LogOK, UnitRecord

LEMMA StartAndFinish ==
  ASSUME LogOK, NEW u \in Unit
  PROVE  /\ <<u, "start">> \in Event /\ <<u, "finish">> \in Event
         /\ <<u, "start">> # <<u, "finish">>
         /\ Time(<<u, "start">>) = log[u].assigned
         /\ Time(<<u, "finish">>) = log[u].finished
         /\ log[u].assigned \in Nat /\ log[u].finished \in Nat
BY DEF Event, Time, LogOK, UnitRecord

(* What an event does to the load of its worker.                           *)
LEMMA AfterStart ==
  ASSUME NEW load, NEW u, NEW a \in Amount
  PROVE  After(load, <<u, "start">>)[a] = load[a] + LoadOf(u, a)
BY DEF After

LEMMA AfterFinish ==
  ASSUME NEW load, NEW u, NEW a \in Amount, load[a] \in Int, LoadOf(u, a) \in Nat,
         LoadOf(u, a) <= load[a]
  PROVE  After(load, <<u, "finish">>)[a] = load[a] - LoadOf(u, a)
<1> DEFINE x == load[a] - LoadOf(u, a)
<1>1. x \in Nat
  OBVIOUS
<1> HIDE DEF x
<1>2. Max({0, x}) = x
  <2>1. {0, x} \subseteq Int /\ x \in {0, x} /\ \A y \in {0, x} : y <= x
    BY <1>1
  <2> QED BY <2>1, MaxFound
<1>3. After(load, <<u, "finish">>)[a] = IF Clamped(u, a) THEN Max({0, x}) ELSE x
  BY DEF After, x
<1> QED BY <1>2, <1>3 DEF x

LEMMA AfterType ==
  ASSUME LogOK, NEW load \in [Amount -> Int], NEW e \in Event
  PROVE  After(load, e) \in [Amount -> Int]
<1>1. ASSUME NEW a \in Amount PROVE After(load, e)[a] \in Int
  <2> DEFINE x == load[a] - LoadOf(e[1], a)
  <2>1. e[1] \in Unit /\ load[a] \in Int /\ LoadOf(e[1], a) \in Nat
    BY EventIs, LoadOfNat
  <2>2. x \in Int
    BY <2>1
  <2>3. Max({0, x}) \in Int
    <3> HIDE DEF x
    <3>1. CASE x <= 0
      <4>1. {0, x} \subseteq Int /\ 0 \in {0, x} /\ \A y \in {0, x} : y <= 0
        BY <2>2, <3>1
      <4> QED BY <4>1, MaxFound
    <3>2. CASE 0 <= x
      <4>1. {0, x} \subseteq Int /\ x \in {0, x} /\ \A y \in {0, x} : y <= x
        BY <2>2, <3>2
      <4> QED BY <2>2, <4>1, MaxFound
    <3> QED BY <2>2, <3>1, <3>2
  <2> QED BY <2>1, <2>2, <2>3 DEF After
<1> QED BY <1>1 DEF After

LEMMA FiniteEvents == IsFiniteSet(Event)
<1>1. IsFiniteSet({"start", "finish"})
  <2>1. {"start", "finish"} = {"start"} \cup {"finish"}
    OBVIOUS
  <2>2. IsFiniteSet({"start"}) /\ IsFiniteSet({"finish"})
    BY FS_Singleton
  <2>3. IsFiniteSet({"start"} \cup {"finish"})
    BY <2>2, FS_Union
  <2> QED BY <2>1, <2>3
<1> QED BY <1>1, FS_Product, PlayerAssumption DEF Event

LEMMA InitPlayer == Init => PInv
<1> SUFFICES ASSUME Init PROVE PInv
  OBVIOUS
<1>1. LogOK
  BY FixedLog DEF Init, LogOK
<1>2. InTime
  <2>1. \A u \in Unit : <<u, "finish">> \in Event
    BY DEF Event
  <2> QED BY <2>1 DEF Init, InTime
<1>3. ASSUME NEW w \in WorkersOf(log), NEW a \in Amount
      PROVE  snapshot[w] = NoLoad /\ snapshot[w][a] = SumLoad(UnderWay(w), a)
  <2>1. UnderWay(w) = {}
    BY DEF Init, UnderWay, Event
  <2>2. SumLoad({}, a) = 0
    BY SumEmpty DEF SumLoad
  <2>3. snapshot[w] = NoLoad /\ NoLoad[a] = 0
    BY DEF Init, NoLoad
  <2> QED BY <2>1, <2>2, <2>3
<1>4. snapshot \in [WorkersOf(log) -> [Amount -> Int]]
  <2>1. NoLoad \in [Amount -> Int]
    BY DEF NoLoad
  <2> QED BY <2>1 DEF Init
<1>5. Loaded
  BY <1>3, <1>4 DEF Loaded
<1>6. ASSUME NEW w \in WorkersOf(log)
      PROVE  /\ DOMAIN record[w] = {0}
             /\ {Time(e) : e \in {f \in Event \ pending : log[f[1]].worker = w}} = {}
  BY DEF Init
<1>7. Recorded
  <2>1. DOMAIN record = WorkersOf(log)
    BY DEF Init
  <2> QED BY <1>6, <2>1 DEF Recorded
<1> QED BY <1>1, <1>2, <1>5, <1>7 DEF PInv

(* The log does not change, and neither does what is said of it alone.     *)
LEMMA SameLog ==
  ASSUME UNCHANGED log
  PROVE  /\ LogOK' <=> LogOK
         /\ Lasting' <=> Lasting
         /\ \A e : Time(e)' = Time(e)
         /\ \A U, a : SumLoad(U, a)' = SumLoad(U, a)
         /\ \A w, n : AloneAt(w, n)' <=> AloneAt(w, n)
         /\ \A w, n, a : LoadAt(w, n, a)' = LoadAt(w, n, a)
<1>1. \A e : Time(e)' = Time(e)
  BY DEF Time
<1>2. \A u, a : LoadOf(u, a)' = LoadOf(u, a)
  BY DEF LoadOf, Rate
<1>3. \A U, a : SumLoad(U, a)' = SumLoad(U, a)
  BY <1>2 DEF SumLoad
<1>4. \A w, n : AloneAt(w, n)' <=> AloneAt(w, n)
  BY <1>1 DEF AloneAt
<1>5. \A w, n, a : LoadAt(w, n, a)' = LoadAt(w, n, a)
  BY <1>3 DEF LoadAt
<1>6. (LogOK' <=> LogOK) /\ (Lasting' <=> Lasting)
  BY DEF LogOK, Lasting
<1> QED BY <1>1, <1>3, <1>4, <1>5, <1>6

LEMMA ReplayInTime ==
  ASSUME LogOK, InTime, NEW e \in Event, Replay(e)
  PROVE  InTime'
<1>1. e \in pending /\ pending' = pending \ {e} /\ \A f \in pending : Time(e) <= Time(f)
  BY DEF Replay, IsNext
<1>2. \A f : Time(f)' = Time(f)
  BY SameLog DEF Replay
<1>3. Lasting' <=> Lasting
  BY SameLog DEF Replay
<1>4. pending' \subseteq Event
  BY <1>1 DEF InTime
<1>5. ASSUME NEW g \in pending', NEW f \in Event \ pending'
      PROVE  Time(f)' <= Time(g)'
  <2>1. g \in pending /\ (f = e \/ f \in Event \ pending)
    BY <1>1
  <2>2. Time(f) <= Time(g)
    BY <1>1, <2>1 DEF InTime
  <2> QED BY <1>2, <2>2
<1>6. ASSUME Lasting, NEW u \in Unit, <<u, "start">> \in pending'
      PROVE  <<u, "finish">> \in pending'
  <2>1. <<u, "start">> \in pending /\ <<u, "finish">> \in pending
    BY <1>1, <1>6 DEF InTime
  <2>2. <<u, "finish">> # e
    <3> SUFFICES ASSUME e = <<u, "finish">> PROVE FALSE
      OBVIOUS
    <3>1. log[u].finished <= log[u].assigned
      BY <1>1, <2>1, StartAndFinish
    <3>2. log[u].assigned < log[u].finished
      BY <1>6 DEF Lasting
    <3>3. log[u].assigned \in Nat /\ log[u].finished \in Nat
      BY StartAndFinish
    <3> QED BY <3>1, <3>2, <3>3
  <2> QED BY <1>1, <2>1, <2>2
<1> QED BY <1>3, <1>4, <1>5, <1>6 DEF InTime

(* What a replayed event does to what is under way.                        *)
LEMMA ReplayUnderWay ==
  ASSUME LogOK, InTime, Lasting, NEW u \in Unit, NEW k \in {"start", "finish"},
         Replay(<<u, k>>), NEW w, w = log[u].worker
  PROVE  /\ \A v : v # w => UnderWay(v)' = UnderWay(v)
         /\ k = "start" => /\ u \notin UnderWay(w)
                           /\ UnderWay(w)' = UnderWay(w) \cup {u}
         /\ k = "finish" => /\ u \in UnderWay(w)
                            /\ UnderWay(w)' = UnderWay(w) \ {u}
<1> DEFINE e == <<u, k>>
<1>1. /\ e \in pending /\ pending' = pending \ {e} /\ log' = log
      /\ \A f \in pending : Time(e) <= Time(f)
  BY DEF Replay, IsNext
<1>2. \A x \in Unit, j \in {"start", "finish"} :
        (x # u \/ j # k) => (<<x, j>> \in pending' <=> <<x, j>> \in pending)
  BY <1>1
<1>3. <<u, k>> \in pending /\ <<u, k>> \notin pending'
  BY <1>1
<1>4. ASSUME NEW v, v # w PROVE UnderWay(v)' = UnderWay(v)
  <2>1. \A x \in Unit : log[x].worker = v => x # u
    BY <1>4
  <2> QED BY <1>1, <1>2, <2>1 DEF UnderWay
<1>5. ASSUME k = "start"
      PROVE  u \notin UnderWay(w) /\ UnderWay(w)' = UnderWay(w) \cup {u}
  <2>1. <<u, "start">> \in pending /\ <<u, "start">> \notin pending'
    BY <1>3, <1>5
  <2>2. <<u, "finish">> \in pending
    BY <2>1 DEF InTime
  <2>3. <<u, "finish">> \in pending'
    BY <1>2, <1>5, <2>2
  <2>4. u \notin UnderWay(w)
    BY <2>1 DEF UnderWay
  <2>5. \A x \in Unit : x \in UnderWay(w)' <=> x \in UnderWay(w) \/ x = u
    BY <1>1, <1>2, <2>1, <2>3 DEF UnderWay
  <2> QED BY <2>4, <2>5 DEF UnderWay
<1>6. ASSUME k = "finish"
      PROVE  u \in UnderWay(w) /\ UnderWay(w)' = UnderWay(w) \ {u}
  <2>1. <<u, "finish">> \in pending /\ <<u, "finish">> \notin pending'
    BY <1>3, <1>6
  <2>2. <<u, "start">> \notin pending
    <3> SUFFICES ASSUME <<u, "start">> \in pending PROVE FALSE
      OBVIOUS
    <3>1. log[u].finished <= log[u].assigned
      BY <1>1, <1>6, StartAndFinish
    <3>2. log[u].assigned < log[u].finished
      BY DEF Lasting
    <3>3. log[u].assigned \in Nat /\ log[u].finished \in Nat
      BY StartAndFinish
    <3> QED BY <3>1, <3>2, <3>3
  <2>3. u \in UnderWay(w)
    BY <2>1, <2>2 DEF UnderWay
  <2>4. \A x \in Unit : x \in UnderWay(w)' <=> x \in UnderWay(w) /\ x # u
    BY <1>1, <1>2, <2>1 DEF UnderWay
  <2> QED BY <2>3, <2>4 DEF UnderWay
<1> QED BY <1>4, <1>5, <1>6

LEMMA ReplayLoaded ==
  ASSUME LogOK, InTime, Loaded, NEW e \in Event, Replay(e)
  PROVE  Loaded'
<1> DEFINE u == e[1]
<1>0. PICK w : w = log[u].worker
  OBVIOUS
<1>1. u \in Unit /\ (e = <<u, "start">> \/ e = <<u, "finish">>)
  BY EventIs
<1>2. /\ log' = log
      /\ snapshot' = [snapshot EXCEPT ![w] = After(snapshot[w], e)]
  BY <1>0 DEF Replay
<1>3. w \in WorkersOf(log) /\ WorkersOf(log)' = WorkersOf(log)
  <2>1. w \in WorkersOf(log)
    BY <1>0, <1>1, WorkerOfUnit
  <2> QED BY <1>2, <2>1
<1>4. snapshot' \in [WorkersOf(log) -> [Amount -> Int]]
  <2>1. snapshot \in [WorkersOf(log) -> [Amount -> Int]]
    BY DEF Loaded
  <2>2. After(snapshot[w], e) \in [Amount -> Int]
    BY <1>3, <2>1, AfterType
  <2> QED BY <1>2, <1>3, <2>1, <2>2
<1>5. snapshot'[w] = After(snapshot[w], e)
      /\ \A v \in WorkersOf(log) : v # w => snapshot'[v] = snapshot[v]
  <2>1. DOMAIN snapshot = WorkersOf(log)
    BY DEF Loaded
  <2> QED BY <1>2, <1>3, <2>1
<1>6. ASSUME Lasting, NEW v \in WorkersOf(log), NEW a \in Amount
      PROVE  snapshot'[v][a] = SumLoad(UnderWay(v)', a)
  <2>1. /\ snapshot[v][a] = SumLoad(UnderWay(v), a)
        /\ snapshot[w][a] = SumLoad(UnderWay(w), a)
    BY <1>3, <1>6 DEF Loaded
  <2>2. /\ \A x : x # w => UnderWay(x)' = UnderWay(x)
        /\ e = <<u, "start">> => u \notin UnderWay(w) /\ UnderWay(w)' = UnderWay(w) \cup {u}
        /\ e = <<u, "finish">> => u \in UnderWay(w) /\ UnderWay(w)' = UnderWay(w) \ {u}
    <3>1. CASE e = <<u, "start">>
      <4>1. Replay(<<u, "start">>) /\ "start" \in {"start", "finish"}
        BY <3>1
      <4> HIDE DEF u
      <4>2. e # <<u, "finish">>
        BY <3>1
      <4> QED BY <1>0, <1>1, <1>6, <4>1, <4>2, ReplayUnderWay
    <3>2. CASE e = <<u, "finish">>
      <4>1. Replay(<<u, "finish">>) /\ "finish" \in {"start", "finish"}
        BY <3>2
      <4> HIDE DEF u
      <4>2. e # <<u, "start">>
        BY <3>2
      <4> QED BY <1>0, <1>1, <1>6, <4>1, <4>2, ReplayUnderWay
    <3> QED BY <1>1, <3>1, <3>2
  <2>3. LoadOf(u, a) \in Nat
    BY <1>1, LoadOfNat
  <2>4. UnderWay(w) \in SUBSET Unit
    BY DEF UnderWay
  <2>5. /\ SumLoad(UnderWay(w), a) \in Nat
        /\ u \notin UnderWay(w) =>
             SumLoad(UnderWay(w) \cup {u}, a) = SumLoad(UnderWay(w), a) + LoadOf(u, a)
        /\ u \in UnderWay(w) =>
             /\ SumLoad(UnderWay(w) \ {u}, a) = SumLoad(UnderWay(w), a) - LoadOf(u, a)
             /\ LoadOf(u, a) <= SumLoad(UnderWay(w), a)
    <3> HIDE DEF u
    <3> QED BY <1>1, <2>4, LoadMore
  <2>6. CASE v # w
    BY <1>5, <2>1, <2>2, <2>6
  <2>7. CASE v = w /\ e = <<u, "start">>
    <3>1. After(snapshot[w], <<u, "start">>)[a] = snapshot[w][a] + LoadOf(u, a)
      BY AfterStart
    <3> HIDE DEF u
    <3> QED BY <1>5, <2>1, <2>2, <2>5, <2>7, <3>1
  <2>8. CASE v = w /\ e = <<u, "finish">>
    <3>1. snapshot[w][a] \in Int /\ LoadOf(u, a) <= snapshot[w][a]
      BY <2>1, <2>2, <2>5, <2>8
    <3>2. After(snapshot[w], <<u, "finish">>)[a] = snapshot[w][a] - LoadOf(u, a)
      <4> HIDE DEF u
      <4> QED BY <2>3, <3>1, AfterFinish
    <3> HIDE DEF u
    <3> QED BY <1>5, <2>1, <2>2, <2>5, <2>8, <3>2
  <2> QED BY <1>1, <2>6, <2>7, <2>8
<1>7. (Lasting' <=> Lasting) /\ \A U, a : SumLoad(U, a)' = SumLoad(U, a)
  BY <1>2, SameLog
<1>8. \A v, a : SumLoad(UnderWay(v), a)' = SumLoad(UnderWay(v)', a)
  <2>1. \A x, a : LoadOf(x, a)' = LoadOf(x, a)
    BY <1>2 DEF LoadOf, Rate
  <2> QED BY <2>1 DEF SumLoad
<1> QED BY <1>3, <1>4, <1>6, <1>7, <1>8 DEF Loaded

(* When the only event of a worker at some time has been replayed, the     *)
(* units under way are those the time falls into.                          *)
LEMMA UnderWayNow ==
  ASSUME LogOK, InTime, Lasting, NEW e \in Event, Replay(e),
         NEW w, w = log[e[1]].worker, AloneAt(w, Time(e))
  PROVE  UnderWay(w)' = {u \in Unit : /\ log[u].worker = w
                                      /\ log[u].assigned <= Time(e)
                                      /\ Time(e) < log[u].finished}
<1> DEFINE n == Time(e)
           S == {f \in Event : log[f[1]].worker = w /\ Time(f) = n}
<1>1. /\ e \in pending /\ pending' = pending \ {e} /\ log' = log
      /\ \A f \in pending : n <= Time(f)
  BY DEF Replay, IsNext
<1>2. \A f \in Event \ pending : Time(f) <= n
  BY <1>1 DEF InTime
<1>3. \A f \in S : f = e
  <2>1. IsFiniteSet(S)
    BY FiniteEvents, FS_Subset
  <2>2. Cardinality(S) = 1
    BY DEF AloneAt
  <2>3. e \in S
    OBVIOUS
  <2> HIDE DEF S
  <2>4. \E x : S = {x}
    BY <2>1, <2>2, FS_Singleton
  <2> QED BY <2>3, <2>4
<1>4. n \in Nat
  BY EventIs
<1> HIDE DEF n
<1>5. ASSUME NEW f \in Event, log[f[1]].worker = w
      PROVE  /\ f \in pending' => n < Time(f)
             /\ f \notin pending' => Time(f) <= n
  <2>1. Time(f) \in Nat
    BY EventIs
  <2>2. CASE f \in pending'
    <3>1. f # e /\ n <= Time(f)
      BY <1>1, <2>2
    <3>2. Time(f) # n
      BY <1>3, <1>5, <3>1
    <3> QED BY <1>4, <2>1, <2>2, <3>1, <3>2
  <2>3. CASE f \notin pending'
    <3>1. f = e \/ f \in Event \ pending
      BY <1>1, <2>3
    <3>2. Time(f) <= n
      BY <1>2, <1>4, <3>1 DEF n
    <3> QED BY <2>3, <3>2
  <2> QED BY <2>2, <2>3
<1>6. ASSUME NEW u \in Unit, log[u].worker = w
      PROVE  /\ <<u, "start">> \notin pending' <=> log[u].assigned <= n
             /\ <<u, "finish">> \in pending' <=> n < log[u].finished
  <2>1. /\ <<u, "start">> \in Event /\ <<u, "finish">> \in Event
        /\ Time(<<u, "start">>) = log[u].assigned
        /\ Time(<<u, "finish">>) = log[u].finished
        /\ log[u].assigned \in Nat /\ log[u].finished \in Nat
    BY StartAndFinish
  <2>2. log[<<u, "start">>[1]].worker = w /\ log[<<u, "finish">>[1]].worker = w
    BY <1>6
  <2>3. /\ <<u, "start">> \in pending' => n < log[u].assigned
        /\ <<u, "start">> \notin pending' => log[u].assigned <= n
        /\ <<u, "finish">> \in pending' => n < log[u].finished
        /\ <<u, "finish">> \notin pending' => log[u].finished <= n
    BY <1>5, <2>1, <2>2
  <2> QED BY <1>4, <2>1, <2>3
<1>7. \A u \in Unit : log'[u].worker = log[u].worker
  BY <1>1
<1> QED BY <1>6, <1>7 DEF UnderWay, n

LEMMA ReplayRecorded ==
  ASSUME LogOK, InTime, Loaded, Recorded, NEW e \in Event, Replay(e), Loaded'
  PROVE  Recorded'
<1> DEFINE n == Time(e)
<1>0. PICK w : w = log[e[1]].worker
  OBVIOUS
<1>1. /\ log' = log /\ e \in pending /\ pending' = pending \ {e}
      /\ record' = [record EXCEPT ![w] = Inserted(record[w], n, snapshot'[w])]
  BY <1>0 DEF Replay, IsNext
<1>2. w \in WorkersOf(log) /\ WorkersOf(log)' = WorkersOf(log) /\ n \in Nat
  <2>1. e[1] \in Unit /\ n \in Nat
    BY EventIs
  <2>2. w \in WorkersOf(log)
    BY <1>0, <2>1, WorkerOfUnit
  <2> QED BY <1>1, <2>1, <2>2
<1> HIDE DEF n
<1>3. DOMAIN record = WorkersOf(log) /\ DOMAIN record' = WorkersOf(log)
  BY <1>1 DEF Recorded
<1>4. /\ record'[w] = Inserted(record[w], n, snapshot'[w])
      /\ \A v \in WorkersOf(log) : v # w => record'[v] = record[v]
  BY <1>1, <1>2, <1>3
<1>5. /\ DOMAIN record'[w] = DOMAIN record[w] \cup {n}
      /\ \A k \in DOMAIN record[w] : record'[w][k] = record[w][k]
      /\ n \notin DOMAIN record[w] => record'[w][n] = snapshot'[w]
  <2> DEFINE r == record[w]
             s == snapshot'[w]
  <2>1. record'[w] = Inserted(r, n, s)
    BY <1>4
  <2> HIDE DEF r, s
  <2>2. record'[w] = [k \in DOMAIN r \cup {n} |-> IF k \in DOMAIN r THEN r[k] ELSE s]
    BY <2>1 DEF Inserted
  <2>3. /\ DOMAIN record'[w] = DOMAIN r \cup {n}
        /\ \A k \in DOMAIN r : record'[w][k] = r[k]
        /\ n \notin DOMAIN r => record'[w][n] = s
    BY <2>2
  <2> QED BY <2>3 DEF r, s
<1>6. /\ \A f : Time(f)' = Time(f)
      /\ Lasting' <=> Lasting
      /\ \A v, k : AloneAt(v, k)' <=> AloneAt(v, k)
      /\ \A v, k, a : LoadAt(v, k, a)' = LoadAt(v, k, a)
  BY <1>1, SameLog
<1>7. ASSUME NEW v \in WorkersOf(log)
      PROVE  DOMAIN record'[v] =
               {0} \cup {Time(f) : f \in {g \in Event \ pending' : log[g[1]].worker = v}}
  <2> DEFINE Old == {g \in Event \ pending : log[g[1]].worker = v}
             New == {g \in Event \ pending' : log[g[1]].worker = v}
  <2>1. DOMAIN record[v] = {0} \cup {Time(f) : f \in Old}
    BY DEF Recorded
  <2>2. ASSUME v = w PROVE DOMAIN record'[v] = {0} \cup {Time(f) : f \in New}
    <3>1. New = Old \cup {e}
      BY <1>0, <1>1, <2>2
    <3>2. {Time(f) : f \in Old \cup {e}} = {Time(f) : f \in Old} \cup {n}
      <4> HIDE DEF Old
      <4> QED BY DEF n
    <3> HIDE DEF Old, New
    <3> QED BY <1>5, <2>1, <2>2, <3>1, <3>2
  <2>3. ASSUME v # w PROVE DOMAIN record'[v] = {0} \cup {Time(f) : f \in New}
    <3>1. New = Old
      BY <1>0, <1>1, <2>3
    <3> HIDE DEF Old, New
    <3> QED BY <1>4, <2>1, <2>3, <3>1
  <2> QED BY <2>2, <2>3
<1>8. ASSUME Lasting, NEW v \in WorkersOf(log), NEW k \in DOMAIN record'[v], k > 0,
             AloneAt(v, k), NEW a \in Amount
      PROVE  record'[v][k][a] = LoadAt(v, k, a)
  <2>1. CASE k \in DOMAIN record[v]
    <3>1. record'[v][k] = record[v][k]
      BY <1>4, <1>5, <2>1
    <3>2. record[v][k][a] = LoadAt(v, k, a)
      BY <1>8, <2>1 DEF Recorded
    <3> QED BY <3>1, <3>2
  <2>2. CASE k \notin DOMAIN record[v]
    <3>1. v = w /\ k = n
      BY <1>4, <1>5, <2>2
    <3>2. record'[v][k] = snapshot'[w]
      BY <1>5, <2>2, <3>1
    <3>3. UnderWay(w)' = {u \in Unit : /\ log[u].worker = w
                                       /\ log[u].assigned <= n
                                       /\ n < log[u].finished}
      BY <1>0, <1>8, <3>1, UnderWayNow DEF n
    <3>4. \A U, b : SumLoad(U, b)' = SumLoad(U, b)
      BY <1>1, SameLog
    <3>5. snapshot'[w][a] = SumLoad(UnderWay(w)', a)
      <4>1. \A x, b : LoadOf(x, b)' = LoadOf(x, b)
        BY <1>1 DEF LoadOf, Rate
      <4>2. snapshot'[w][a] = SumLoad(UnderWay(w), a)'
        BY <1>2, <1>6, <1>8 DEF Loaded
      <4> QED BY <4>1, <4>2 DEF SumLoad
    <3>6. SumLoad(UnderWay(w)', a) = LoadAt(w, n, a)
      BY <3>3 DEF LoadAt
    <3> QED BY <3>1, <3>2, <3>5, <3>6
  <2> QED BY <2>1, <2>2
<1>9. \A v \in WorkersOf(log) :
        {Time(f)' : f \in {g \in Event \ pending' : log'[g[1]].worker = v}}
          = {Time(f) : f \in {g \in Event \ pending' : log[g[1]].worker = v}}
  BY <1>1, <1>6
<1> QED BY <1>1, <1>2, <1>3, <1>6, <1>7, <1>8, <1>9 DEF Recorded

LEMMA StepPlayer ==
  ASSUME PInv, [Next]_vars
  PROVE  PInv'
<1>1. CASE UNCHANGED vars
  <2>1. UNCHANGED <<log, pending, snapshot, record>>
    BY <1>1 DEF vars
  <2> QED BY <2>1, SameLog
          DEF PInv, InTime, Loaded, Recorded, UnderWay, WorkersOf
<1>2. ASSUME NEW e \in Event, Replay(e) PROVE PInv'
  <2>1. LogOK' /\ InTime' /\ Loaded'
    BY <1>2, SameLog, ReplayInTime, ReplayLoaded DEF PInv, Replay
  <2> QED BY <1>2, <2>1, ReplayRecorded DEF PInv
<1> QED BY <1>1, <1>2 DEF Next

(* The events are replayed in the order of their times, and the snapshot   *)
(* and the records are what that order makes of the log.                   *)
THEOREM PlayerInvariant == Spec => []PInv
BY InitPlayer, StepPlayer, PTL DEF Spec

-----------------------------------------------------------------------------
(* The theorems.                                                           *)

(* At any moment of the replay the snapshot of a worker is the sum of what *)
(* its units under way add to it, if every unit lasts a second or more     *)
(* (player.h, GenerateRecord).                                             *)
THEOREM LoadIsExact == Spec => []LoadExact
<1>1. PInv => LoadExact
  BY DEF PInv, Loaded, LoadExact, UnderWay
<1> QED BY <1>1, PlayerInvariant, PTL

(* What the clamping leaves of a load that is taken away.                  *)
LEMMA AfterFinishAtLeast ==
  ASSUME NEW load, NEW u, NEW a \in Amount, load[a] \in Int, LoadOf(u, a) \in Nat
  PROVE  /\ After(load, <<u, "finish">>)[a] >= load[a] - LoadOf(u, a)
         /\ a = "memory" => After(load, <<u, "finish">>)[a] = load[a] - LoadOf(u, a)
<1> DEFINE x == load[a] - LoadOf(u, a)
<1>1. x \in Int
  OBVIOUS
<1> HIDE DEF x
<1>2. Max({0, x}) >= x
  <2>1. CASE x <= 0
    <3>1. {0, x} \subseteq Int /\ 0 \in {0, x} /\ \A y \in {0, x} : y <= 0
      BY <1>1, <2>1
    <3>2. Max({0, x}) = 0
      BY <3>1, MaxFound
    <3> QED BY <1>1, <2>1, <3>2
  <2>2. CASE 0 <= x
    <3>1. {0, x} \subseteq Int /\ x \in {0, x} /\ \A y \in {0, x} : y <= x
      BY <1>1, <2>2
    <3>2. Max({0, x}) = x
      BY <3>1, MaxFound
    <3> QED BY <1>1, <3>2
  <2> QED BY <1>1, <2>1, <2>2
<1>3. After(load, <<u, "finish">>)[a] = IF Clamped(u, a) THEN Max({0, x}) ELSE x
  BY DEF After, x
<1>4. a = "memory" => ~Clamped(u, a)
  BY DEF Clamped
<1>5. x >= x
  BY <1>1
<1> QED BY <1>2, <1>3, <1>4, <1>5 DEF x

(* In any log: what has started less what has finished, in either order,   *)
(* is never more than the snapshot.                                        *)
Left(w, a) == SumLoad(StartedOn(w), a) - SumLoad(FinishedOn(w), a)

Kept ==
  \A w \in WorkersOf(log), a \in Amount :
     /\ Left(w, a) <= snapshot[w][a]
     /\ a = "memory" => snapshot[w][a] = Left(w, a)

LEMMA InitKept == Init => Kept
<1> SUFFICES ASSUME Init, NEW w \in WorkersOf(log), NEW a \in Amount
             PROVE  Left(w, a) = 0 /\ snapshot[w][a] = 0
  BY DEF Kept
<1>1. StartedOn(w) = {} /\ FinishedOn(w) = {}
  BY DEF Init, StartedOn, FinishedOn, Event
<1>2. SumLoad({}, a) = 0
  BY SumEmpty DEF SumLoad
<1>3. snapshot[w][a] = 0
  BY DEF Init, NoLoad
<1> QED BY <1>1, <1>2, <1>3 DEF Left

LEMMA ReplayKept ==
  ASSUME PInv, Kept, NEW u \in Unit, NEW k \in {"start", "finish"}, Replay(<<u, k>>)
  PROVE  Kept'
<1> DEFINE e == <<u, k>>
<1>0. PICK w : w = log[u].worker
  OBVIOUS
<1>1. /\ e \in pending /\ pending' = pending \ {e} /\ log' = log
      /\ snapshot' = [snapshot EXCEPT ![w] = After(snapshot[w], e)]
  BY <1>0 DEF Replay, IsNext
<1>2. /\ LogOK
      /\ snapshot \in [WorkersOf(log) -> [Amount -> Int]]
      /\ w \in WorkersOf(log) /\ WorkersOf(log)' = WorkersOf(log)
  BY <1>0, <1>1, WorkerOfUnit DEF PInv, Loaded
<1>3. \A x \in Unit, j \in {"start", "finish"} :
        (x # u \/ j # k) => (<<x, j>> \in pending' <=> <<x, j>> \in pending)
  BY <1>1
<1>5. \A v, a : Left(v, a)' = SumLoad(StartedOn(v)', a) - SumLoad(FinishedOn(v)', a)
  <2>1. \A x, a : LoadOf(x, a)' = LoadOf(x, a)
    BY <1>1 DEF LoadOf, Rate
  <2> QED BY <2>1 DEF Left, SumLoad
<1>6. ASSUME NEW v \in WorkersOf(log), NEW a \in Amount
      PROVE  /\ Left(v, a)' <= snapshot'[v][a]
             /\ a = "memory" => snapshot'[v][a] = Left(v, a)'
  <2>1. CASE v # w
    <3>1. StartedOn(v)' = StartedOn(v) /\ FinishedOn(v)' = FinishedOn(v)
      BY <1>0, <1>1, <1>3, <2>1 DEF StartedOn, FinishedOn
    <3>2. snapshot'[v] = snapshot[v]
      BY <1>1, <1>2, <2>1
    <3>3. Left(v, a)' = Left(v, a)
      BY <1>5, <3>1 DEF Left
    <3> QED BY <3>2, <3>3 DEF Kept
  <2>2. CASE v = w
    <3> DEFINE S == StartedOn(w)
               F == FinishedOn(w)
               old == snapshot[w][a]
               load == LoadOf(u, a)
    <3>1. S \in SUBSET Unit /\ F \in SUBSET Unit
      BY DEF StartedOn, FinishedOn
    <3>2. load \in Nat /\ old \in Int
      BY <1>2, LoadOfNat
    <3>3. /\ SumLoad(S, a) \in Nat /\ SumLoad(F, a) \in Nat
          /\ u \notin S => SumLoad(S \cup {u}, a) = SumLoad(S, a) + load
          /\ u \notin F => SumLoad(F \cup {u}, a) = SumLoad(F, a) + load
      <4> HIDE DEF S, F
      <4> QED BY <1>2, <3>1, LoadMore
    <3>4. /\ SumLoad(S, a) - SumLoad(F, a) <= old
          /\ a = "memory" => old = SumLoad(S, a) - SumLoad(F, a)
      BY <1>2 DEF Kept, Left
    <3>5. snapshot'[w][a] = After(snapshot[w], e)[a]
      BY <1>1, <1>2
    <3>6. CASE k = "start"
      <4>1. u \notin S /\ StartedOn(w)' = S \cup {u} /\ FinishedOn(w)' = F
        BY <1>0, <1>1, <1>3, <3>6 DEF StartedOn, FinishedOn
      <4>2. snapshot'[w][a] = old + load
        BY <3>5, <3>6, AfterStart
      <4>3. Left(w, a)' = SumLoad(S, a) + load - SumLoad(F, a)
        <5>1. Left(w, a)' = SumLoad(S \cup {u}, a) - SumLoad(F, a)
          BY <1>5, <4>1
        <5> HIDE DEF S, F, load
        <5> QED BY <3>2, <3>3, <4>1, <5>1
      <4> HIDE DEF S, F, old, load
      <4> QED BY <2>2, <3>2, <3>3, <3>4, <4>2, <4>3
    <3>7. CASE k = "finish"
      <4>1. u \notin F /\ FinishedOn(w)' = F \cup {u} /\ StartedOn(w)' = S
        BY <1>0, <1>1, <1>3, <3>7 DEF StartedOn, FinishedOn
      <4>2. /\ snapshot'[w][a] >= old - load
            /\ a = "memory" => snapshot'[w][a] = old - load
        BY <3>2, <3>5, <3>7, AfterFinishAtLeast
      <4>3. Left(w, a)' = SumLoad(S, a) - (SumLoad(F, a) + load)
        BY <1>5, <3>3, <4>1
      <4>4. snapshot'[w][a] \in Int
        <5>1. After(snapshot[w], e) \in [Amount -> Int]
          BY <1>2, AfterType DEF Event
        <5> QED BY <3>5, <5>1
      <4> HIDE DEF S, F, old, load
      <4> QED BY <2>2, <3>2, <3>3, <3>4, <4>2, <4>3, <4>4
    <3> QED BY <3>6, <3>7
  <2> QED BY <2>1, <2>2
<1> QED BY <1>2, <1>6 DEF Kept

LEMMA StepKept ==
  ASSUME PInv, Kept, [Next]_vars
  PROVE  Kept'
<1>1. CASE UNCHANGED vars
  <2>1. UNCHANGED <<log, pending, snapshot>>
    BY <1>1 DEF vars
  <2>2. \A U, a : SumLoad(U, a)' = SumLoad(U, a)
    BY <2>1, SameLog
  <2>3. \A w : StartedOn(w)' = StartedOn(w) /\ FinishedOn(w)' = FinishedOn(w)
    BY <2>1 DEF StartedOn, FinishedOn
  <2>4. \A x, a : LoadOf(x, a)' = LoadOf(x, a)
    BY <2>1 DEF LoadOf, Rate
  <2>5. \A w, a : Left(w, a)' = Left(w, a)
    BY <2>3, <2>4 DEF Left, SumLoad
  <2>6. WorkersOf(log)' = WorkersOf(log)
    BY <2>1
  <2> QED BY <2>1, <2>5, <2>6 DEF Kept
<1>2. ASSUME NEW e \in Event, Replay(e) PROVE Kept'
  <2>1. PICK u \in Unit, k \in {"start", "finish"} : e = <<u, k>>
    BY DEF Event
  <2>2. Replay(<<u, k>>)
    BY <1>2, <2>1
  <2> QED BY <2>2, ReplayKept
<1> QED BY <1>1, <1>2 DEF Next

LEMMA KeptIsEnough == PInv /\ Kept => NoLoadLost
<1> SUFFICES ASSUME PInv, Kept, NEW w \in WorkersOf(log), NEW a \in Amount,
                    FinishedOn(w) \subseteq StartedOn(w)
             PROVE  SumLoad(StartedOn(w) \ FinishedOn(w), a) = Left(w, a)
  BY DEF NoLoadLost, Kept
<1> DEFINE f == [u \in Unit |-> LoadOf(u, a)]
           S == StartedOn(w)
           F == FinishedOn(w)
           R == S \ F
<1>1. /\ \A U : SumLoad(U, a) = SumFunctionOnSet(f, U)
      /\ \A u \in Unit : f[u] \in Int
  BY LoadOfNat DEF SumLoad, PInv
<1>2. S \in SUBSET Unit /\ F \in SUBSET Unit /\ F \subseteq S
  BY DEF StartedOn, FinishedOn
<1> HIDE DEF f, S, F
<1>3. S = F \cup R /\ F \cap R = {} /\ R \in SUBSET Unit
  BY <1>2
<1>4. IsFiniteSet(F) /\ IsFiniteSet(R)
  BY <1>2, <1>3, FS_Subset, PlayerAssumption
<1>5. SumFunctionOnSet(f, F \cup R) = SumFunctionOnSet(f, F) + SumFunctionOnSet(f, R)
  <2>1. \A u \in F \cup R : f[u] \in Int
    BY <1>1, <1>2, <1>3
  <2> HIDE DEF R
  <2> QED BY <1>3, <1>4, <2>1, SumUnion
<1>6. SumLoad(F, a) \in Nat /\ SumLoad(R, a) \in Nat
  <2> HIDE DEF R
  <2> QED BY <1>2, <1>3, LoadMore, PlayerAssumption DEF PInv
<1>7. SumLoad(S, a) = SumLoad(F, a) + SumLoad(R, a)
  <2> HIDE DEF R
  <2> QED BY <1>1, <1>3, <1>5
<1> QED BY <1>6, <1>7 DEF Left, S, F

(* No order of the events of a second makes the replay of any log lose the *)
(* load of a unit, and memory is exact (player.h, GenerateRecord).         *)
THEOREM LoadIsNotLost == Spec => []NoLoadLost
<1>1. Spec => []Kept
  BY InitKept, StepKept, PlayerInvariant, PTL DEF Spec
<1> QED BY <1>1, KeptIsEnough, PlayerInvariant, PTL

(* Nothing happens to a worker between one of its events and the next.     *)
LEMMA LoadHolds ==
  ASSUME LogOK, NEW w, NEW n \in Int, NEW m \in Int, m <= n,
         \A k \in Seconds(w) : k <= n => k <= m, NEW a
  PROVE  LoadAt(w, n, a) = LoadAt(w, m, a)
<1>1. ASSUME NEW u \in Unit, log[u].worker = w
      PROVE  /\ log[u].assigned <= n <=> log[u].assigned <= m
             /\ n < log[u].finished <=> m < log[u].finished
  <2>1. /\ <<u, "start">> \in Event /\ <<u, "finish">> \in Event
        /\ Time(<<u, "start">>) = log[u].assigned
        /\ Time(<<u, "finish">>) = log[u].finished
        /\ log[u].assigned \in Nat /\ log[u].finished \in Nat
    BY StartAndFinish
  <2>2. <<u, "start">>[1] = u /\ <<u, "finish">>[1] = u
    OBVIOUS
  <2>3. log[u].assigned \in Seconds(w) /\ log[u].finished \in Seconds(w)
    BY <1>1, <2>1, <2>2 DEF Seconds
  <2> QED BY <2>1, <2>3
<1> QED BY <1>1 DEF LoadAt

LEMMA ReportShows == PInv => ReportIsLoad
<1> SUFFICES ASSUME PInv, Lasting, pending = {}, NEW w \in WorkersOf(log)
             PROVE  LET lines == ReportOf(w) IN
                    /\ Len(lines) = Max({0} \cup Seconds(w)) + 1
                    /\ \A n \in 0 .. Len(lines) - 1 :
                         LET latest == Max({0} \cup {m \in Seconds(w) : m <= n})
                         IN  latest > 0 /\ AloneAt(w, latest) =>
                               \A a \in Amount : lines[n + 1][a] = LoadAt(w, n, a)
  BY DEF ReportIsLoad
<1> DEFINE D == {0} \cup Seconds(w)
           r == record[w]
           lines == ReportOf(w)
<1>1. D = DOMAIN r
  BY DEF PInv, Recorded, Seconds
<1>2. IsFiniteSet(D) /\ D \subseteq Nat /\ D \subseteq Int /\ 0 \in D /\ D # {}
  <2> DEFINE E == {f \in Event : log[f[1]].worker = w}
             T == [e \in Event |-> Time(e)]
  <2>1. IsFiniteSet(E)
    BY FiniteEvents, FS_Subset
  <2>2. Seconds(w) = {T[e] : e \in E}
    BY DEF Seconds
  <2>3. IsFiniteSet({T[e] : e \in E})
    <3> HIDE DEF T, E
    <3> QED BY <2>1, FiniteImage
  <2>4. IsFiniteSet(Seconds(w))
    BY <2>2, <2>3, Zenon
  <2>5. IsFiniteSet(D)
    BY <2>4, FS_Singleton, FS_Union
  <2>6. Seconds(w) \subseteq Nat
    BY EventIs DEF Seconds, PInv
  <2> QED BY <2>5, <2>6
<1> HIDE DEF D
<1>3. Min(D) = 0
  <2> DEFINE m == Min(D)
  <2>1. m \in D /\ m <= 0
    BY <1>2, MinIs
  <2> HIDE DEF m
  <2>2. m \in Nat
    BY <1>2, <2>1
  <2>3. m = 0
    BY <2>1, <2>2
  <2> QED BY <2>3 DEF m
<1>4. Max(D) \in Nat
  <2>1. Max(D) \in D
    BY <1>2, MaxIs
  <2> QED BY <1>2, <2>1
<1>5. lines = [k \in 1 .. Max(D) - 0 + 1 |-> r[Latest(D, 0 + k - 1)]]
  <2>1. ReportUtilization(r) = LinesFrom(r, Min(D))
    BY <1>1, <1>2, ReportLines
  <2>2. LinesFrom(r, 0) = [k \in 1 .. Max(D) - 0 + 1 |-> r[Latest(D, 0 + k - 1)]]
    BY <1>1 DEF LinesFrom
  <2> QED BY <1>3, <2>1, <2>2 DEF ReportOf
<1> HIDE DEF lines, r
<1>6. Len(lines) = Max(D) + 1
  BY <1>4, <1>5
<1>7. ASSUME NEW n \in 0 .. Len(lines) - 1, Latest(D, n) > 0, AloneAt(w, Latest(D, n)),
             NEW a \in Amount
      PROVE  lines[n + 1][a] = LoadAt(w, n, a)
  <2> DEFINE m == Latest(D, n)
  <2>1. n \in Nat /\ n <= Max(D)
    BY <1>4, <1>6
  <2>2. m \in D /\ m <= n /\ \A k \in D : k <= n => k <= m
    <3>1. n \in Int /\ \E k \in D : k <= n
      BY <1>2, <2>1
    <3> QED BY <1>2, <3>1, LatestIs
  <2>3. lines[n + 1] = r[m]
    <3>1. n + 1 \in 1 .. Max(D) - 0 + 1 /\ 0 + (n + 1) - 1 = n
      BY <1>4, <2>1
    <3> HIDE DEF m
    <3> QED BY <1>5, <3>1 DEF m
  <2> HIDE DEF m
  <2>4. m > 0 /\ AloneAt(w, m)
    BY <1>7 DEF m
  <2>5. r[m][a] = LoadAt(w, m, a)
    BY <1>1, <2>2, <2>4 DEF PInv, Recorded, r
  <2>6. LoadAt(w, n, a) = LoadAt(w, m, a)
    <3>1. LogOK /\ m \in Int /\ n \in Int /\ \A k \in Seconds(w) : k <= n => k <= m
      BY <1>2, <2>1, <2>2 DEF PInv, D
    <3> QED BY <2>2, <3>1, LoadHolds
  <2> QED BY <2>3, <2>5, <2>6
<1>8. ASSUME NEW n \in 0 .. Len(lines) - 1
      PROVE  Max({0} \cup {m \in Seconds(w) : m <= n}) = Latest(D, n)
  <2>1. {0} \cup {m \in Seconds(w) : m <= n} = {m \in D : m <= n}
    <3>1. 0 <= n
      BY <1>4, <1>6
    <3> QED BY <3>1 DEF D
  <2> QED BY <2>1 DEF Latest
<1> QED BY <1>6, <1>7, <1>8 DEF D, lines

(* When the replay is over the report of a worker has a line for every     *)
(* second to its last event, and the line is the load of that second,      *)
(* wherever the latest second with an event had one (player.h,             *)
(* GenerateRecords and ReportUtilization).                                 *)
THEOREM ReportShowsLoad == Spec => []ReportIsLoad
BY PlayerInvariant, ReportShows, PTL

=============================================================================
