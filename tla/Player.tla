------------------------------- MODULE Player -------------------------------
(***************************************************************************)
(* The player (src/play_back/player.h): it replays a log of finished units *)
(* of work and reports the load of each worker over time.                  *)
(*                                                                         *)
(* Each unit gives a start and a finish event.  They are taken from a      *)
(* priority queue that compares times only, so the order of the events of  *)
(* one moment is whatever the heap makes of it.  The four amounts of a     *)
(* snapshot are independent but for the disk, whose units are counted as   *)
(* one core each; cpu is what units of type 0 and of type 2 share.         *)
(*                                                                         *)
(* A unit is a record                                                      *)
(*   worker, kind ("cpu", "network" or "disk"), request, memory,           *)
(*   assigned, finished     its times, assigned <= finished                *)
(* Definitions whose name starts with Wrong are slips nothing uses, as in  *)
(* JobGraph.                                                               *)
(***************************************************************************)
EXTENDS Integers, FiniteSets, FiniteSetsExt, Functions, UtilizationReport

CONSTANTS
  Unit,     \* the units of the log
  Logs      \* the functions from Unit to records that a log may hold

(* GenerateRecord stops at a unit that asks for nothing.                   *)
UnitRecord ==
  [worker : Nat, kind : {"cpu", "network", "disk"}, request : Nat \ {0}, memory : Nat,
   assigned : Nat, finished : Nat]

ASSUME PlayerAssumption ==
  /\ IsFiniteSet(Unit) /\ Unit # {}
  /\ Logs \subseteq [Unit -> UnitRecord]
  /\ \A l \in Logs : \A u \in Unit : l[u].assigned <= l[u].finished

VARIABLES
  log,      \* units_, never modified after FixTimeLine
  pending,  \* event_queue_
  snapshot, \* worker_snapshot_
  record    \* worker_record_: of each worker, a map from times

vars == <<log, pending, snapshot, record>>

Amount == {"cpu", "memory", "network"}
NoLoad == [a \in Amount |-> 0]

-----------------------------------------------------------------------------
(* CollectUnits and FixTimeLine: times count from the first assignment.    *)
FixTimeLine(l) ==
  LET start == Min({l[u].assigned : u \in Unit})
  IN  [u \in Unit |-> [l[u] EXCEPT !.assigned = @ - start, !.finished = @ - start]]

(* ComputeWorkerNum is the largest worker id.                              *)
WorkersOf(l) == 0 .. Max({l[u].worker : u \in Unit})

(* The rate of a network unit: the amount over the seconds it took, the    *)
(* first and the last one included.  The code divides doubles, here what   *)
(* is left over is dropped; either way the finish takes away the rate the  *)
(* start has added.                                                        *)
Rate(u) == log[u].request \div (log[u].finished - log[u].assigned + 1)

(* What a unit adds to the snapshot of its worker.                         *)
LoadOf(u, a) ==
  CASE a = "memory"  -> log[u].memory
    [] a = "cpu"     -> CASE log[u].kind = "cpu"  -> log[u].request
                          [] log[u].kind = "disk" -> 1
                          [] OTHER                -> 0
    [] a = "network" -> IF log[u].kind = "network" THEN Rate(u) ELSE 0

(* The amount of the unit's kind is not allowed to become negative when a  *)
(* network or disk unit finishes.                                          *)
WrongClampedAlways(u, a) == TRUE

Clamped(u, a) == \/ log[u].kind = "network" /\ a = "network"
                 \/ log[u].kind = "disk" /\ a = "cpu"

-----------------------------------------------------------------------------
(* GenerateEvent: a start and a finish event of every unit.                *)
Event == Unit \X {"start", "finish"}
Time(e) == IF e[2] = "start" THEN log[e[1]].assigned ELSE log[e[1]].finished

WrongIsNextLatest(e) == e \in pending /\ \A f \in pending : Time(f) <= Time(e)
IsNext(e) == e \in pending /\ \A f \in pending : Time(e) <= Time(f)

(* GenerateRecord.                                                         *)
After(load, e) ==
  [a \in Amount |->
     IF e[2] = "start" THEN load[a] + LoadOf(e[1], a)
     ELSE IF Clamped(e[1], a) THEN Max({0, load[a] - LoadOf(e[1], a)})
     ELSE load[a] - LoadOf(e[1], a)]

Init ==
  /\ log \in {FixTimeLine(l) : l \in Logs}
  /\ pending = Event
  /\ snapshot = [w \in WorkersOf(log) |-> NoLoad]
  /\ record = [w \in WorkersOf(log) |-> [time \in {0} |-> NoLoad]]

(* One turn of the loop of GenerateRecords.  A map keeps the first record  *)
(* of a time; the record of time 0 is there from the start.                *)
Replay(e) ==
  LET w == log[e[1]].worker IN
  /\ IsNext(e)
  /\ pending' = pending \ {e}
  /\ snapshot' = [snapshot EXCEPT ![w] = After(@, e)]
  /\ record' = [record EXCEPT ![w] = Inserted(@, Time(e), snapshot'[w])]
  /\ UNCHANGED log

Next == \E e \in Event : Replay(e)

Spec == Init /\ [][Next]_vars

(* GetPeakUsageForEachWork.                                                *)
Peak(w, a) == Max({record[w][time][a] : time \in DOMAIN record[w]})

(* The file written for a worker.                                          *)
ReportOf(w) == ReportUtilization(record[w])

-----------------------------------------------------------------------------
(* No unit starts and finishes in the same second.  The code accepts such  *)
(* units (it counts the seconds of a unit inclusively).  The finish of one *)
(* may be replayed before its start: a network or disk load is clamped at  *)
(* zero, then added, and stays.  NoLoadLost holds of these logs, too.      *)
Lasting == \A u \in Unit : log[u].assigned < log[u].finished

SumLoad(U, a) == SumFunctionOnSet([u \in Unit |-> LoadOf(u, a)], U)

(* In a log of such units the snapshot of a worker is the load of those    *)
(* that have started and not finished, so nothing is left at the end.  It  *)
(* is exact arithmetic that is meant: the clamping at zero hides nothing   *)
(* but the rounding of the doubles.                                        *)
LoadExact ==
  Lasting =>
    \A w \in WorkersOf(log), a \in Amount :
       snapshot[w][a] = SumLoad({u \in Unit : /\ log[u].worker = w
                                             /\ <<u, "start">> \notin pending
                                             /\ <<u, "finish">> \in pending}, a)

(* In every log, whenever each unit of a worker that has finished has also *)
(* started, whichever came first, nothing is missing from the snapshot,    *)
(* and the memory, which is never clamped, is exactly that of the units    *)
(* under way.                                                              *)
StartedOn(w) == {u \in Unit : log[u].worker = w /\ <<u, "start">> \notin pending}
FinishedOn(w) == {u \in Unit : log[u].worker = w /\ <<u, "finish">> \notin pending}

NoLoadLost ==
  \A w \in WorkersOf(log), a \in Amount :
     FinishedOn(w) \subseteq StartedOn(w) =>
       LET load == SumLoad(StartedOn(w) \ FinishedOn(w), a) IN
       /\ load <= snapshot[w][a]
       /\ a = "memory" => snapshot[w][a] = load

(* The report of a worker has a line for every second until its last unit  *)
(* finishes, and the line is the load of that second if the worker had one *)
(* event in the latest second with an event.  (If it had several, the line *)
(* is what the first one left; and the first second is always reported     *)
(* without load.)                                                          *)
Seconds(w) == {Time(e) : e \in {f \in Event : log[f[1]].worker = w}}

AloneAt(w, n) ==
  Cardinality({e \in Event : log[e[1]].worker = w /\ Time(e) = n}) = 1

LoadAt(w, n, a) ==
  SumLoad({u \in Unit : /\ log[u].worker = w
                        /\ log[u].assigned <= n
                        /\ n < log[u].finished}, a)

ReportIsLoad ==
  Lasting /\ pending = {} =>
    \A w \in WorkersOf(log) :
       LET lines == ReportOf(w) IN
       /\ Len(lines) = Max({0} \cup Seconds(w)) + 1
       /\ \A n \in 0 .. Len(lines) - 1 :
            LET latest == Max({0} \cup {m \in Seconds(w) : m <= n})
            IN  latest > 0 /\ AloneAt(w, latest) =>
                  \A a \in Amount : lines[n + 1][a] = LoadAt(w, n, a)

(* "cpu peak usage: " (GetPeakUsageForEachWork): no load that              *)
(* lasted from one second to the next is above the reported peak.          *)
PeakIsPeak ==
  Lasting /\ pending = {} =>
    \A w \in WorkersOf(log), a \in Amount, v \in Unit :
       Peak(w, a) >= LoadAt(w, log[v].assigned, a)

=============================================================================
