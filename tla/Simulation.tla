----------------------------- MODULE Simulation -----------------------------
(***************************************************************************)
(* Cluster with the workers inside: what a worker does with a task it is   *)
(* handed (src/worker/worker_abstract.h, worker_cpu.h, worker_disk.h,      *)
(* worker_network.h) and the memory the running tasks use.                 *)
(*                                                                         *)
(* The cpu cores, the disk and the network of a worker treat a task in the *)
(* same way: it runs if a slot is free and nobody waits, and waits in a    *)
(* queue otherwise.  The durations are left open (BandwidthDevice has      *)
(* those of the disk and the network): any running task may finish next.   *)
(*                                                                         *)
(* The jobs of Cluster get one more field:                                 *)
(*   use   the memory a task takes when it starts, or, if it is negative,  *)
(*         gives back when it finishes, in 1 / Unit of the unit of the     *)
(*         configuration file                                              *)
(* Definitions whose name starts with Wrong are slips nothing uses, as in  *)
(* JobGraph.                                                               *)
(***************************************************************************)
EXTENDS Cluster, SequencesExt

CONSTANTS
  Slots,      \* how many tasks a device of each kind runs at once
  Unit,       \* the fractions of memory a task may use
  Algorithms  \* the values "TaskPlacement" of the file may have

(* What the tasks of S take and give back in all. *)
SumUse(j, S) == MapThenSumSet(LAMBDA t : j.use[t], S)

TakingTasks(j, s) == {t \in TasksOf(j, s) : j.use[t] > 0}

(***************************************************************************)
(* The flow network of GetMemoryCap, as edges [from, to, cap]: the source  *)
(* feeds the tasks that take memory, the others drain into the sink, and   *)
(* an edge no flow can fill leads from each child to its parent.  A task's *)
(* vertex is <<t>>.  The map from tasks to vertices gives 0, the source,   *)
(* for a child in another subgraph.                                        *)
(***************************************************************************)
Source == << >>
Sink == <<"sink", "sink">>
Vertex(j, s, t) == IF j.sg[t] = s THEN <<t>> ELSE Source
Infinite(j) == 1 + SumUse(j, {t \in Task : j.use[t] > 0})

Network(j, s) ==
  {[from |-> Source, to |-> <<t>>, cap |-> j.use[t]] : t \in TakingTasks(j, s)}
  \cup
  {[from |-> <<t>>, to |-> Sink, cap |-> -j.use[t]] : t \in TasksOf(j, s) \ TakingTasks(j, s)}
  \cup
  UNION {{[from |-> Vertex(j, s, c), to |-> <<t>>, cap |-> Infinite(j)] : c \in ChildSet(j, t)} :
           t \in TasksOf(j, s)}

(* Dinic::Bfs before there is any flow: it follows the edges with capacity *)
(* left, which the reverse edges do not have.                              *)
Bfs(E, from, to) ==
  LET reached[n \in Nat] ==
        IF n = 0 THEN {from}
        ELSE LET before == reached[n - 1]
             IN  before \cup {e.to : e \in {f \in E : f.from \in before /\ f.cap > 0}}
  IN  to \in reached[Cardinality(Task) + 1]

(* Dinic::GetMaxFlow: nothing if the first search fails, else what it is   *)
(* written to compute, the capacity of the smallest cut.                   *)
MaxFlow(E, from, to) ==
  LET inner     == ({e.from : e \in E} \cup {e.to : e \in E}) \ {from, to}
      Across(U) == MapThenSumSet(LAMBDA e : e.cap, {e \in E : e.from \in U /\ e.to \notin U})
  IN  IF Bfs(E, from, to) THEN Min({Across(U \cup {from}) : U \in SUBSET inner}) ELSE 0

(* Dinic::Init takes the source before the sink; GetMemoryCap gives it the *)
(* sink first.                                                             *)
GetMaxFlow(j, s) == MaxFlow(Network(j, s), Sink, Source)

(***************************************************************************)
(* GetMemoryCap: an int to which the memory of every task that takes some  *)
(* is added in turn, so each loses its fraction, less the flow.            *)
(***************************************************************************)
WrongMemoryCapOne(j, s) == IF TakingTasks(j, s) # {} THEN 1 ELSE 0

MemoryCap(j, s) ==
  (Unit * MapThenSumSet(LAMBDA t : j.use[t] \div Unit, TakingTasks(j, s))
     - GetMaxFlow(j, s)) \div Unit

ASSUME SimulationAssumption ==
  /\ Slots \in [Kind -> Nat \ {0}]
  /\ Unit \in Nat \ {0}
  /\ Algorithms \subseteq {"FIFO", "TETRIS"}
  /\ Others = {}
  /\ \A j \in Jobs : /\ j.use \in [Task -> Int]
                     /\ \A s \in SubGraphsOf(j) : j.memory[s] = MemoryCap(j, s)

VARIABLES
  devices,  \* of each worker and kind, the tasks running and the queue
  usage,    \* the memory part of resource_usage_ of each worker
  algorithm \* AlgorithmBook::task_placement, never modified

simVars == <<clusterVars, devices, usage, algorithm>>

-----------------------------------------------------------------------------
(* PlaceNewTask of a device with n slots.                                  *)
WrongEnqueueStrict(d, t, n) ==
  IF d.queue = << >> /\ Cardinality(d.running) + 1 < n
  THEN [d EXCEPT !.running = @ \cup {t}]
  ELSE [d EXCEPT !.queue = Append(@, t)]

Enqueue(d, t, n) ==
  IF d.queue = << >> /\ Cardinality(d.running) + 1 <= n
  THEN [d EXCEPT !.running = @ \cup {t}]
  ELSE [d EXCEPT !.queue = Append(@, t)]

(* TaskFinish of a device with n slots: the first task of the queue takes  *)
(* over the slot, if there is one and it is available.                     *)
WrongDequeueLeavesQueue(d, t, n) == [d EXCEPT !.running = @ \ {t}]
WrongDequeueKeepsHead(d, t, n) ==
  IF d.queue = << >>
  THEN [d EXCEPT !.running = @ \ {t}]
  ELSE [d EXCEPT !.running = (@ \ {t}) \cup {Head(d.queue)}]

Dequeue(d, t, n) ==
  LET others == d.running \ {t} IN
  IF d.queue # << >> /\ Cardinality(others) + 1 <= n
  THEN [running |-> others \cup {Head(d.queue)}, queue |-> Tail(d.queue)]
  ELSE [d EXCEPT !.running = others]

(* WorkerAbstract::PlaceNewTask for those tasks of ts that are in T, in    *)
(* turn, each on the worker its subgraph has in wid.                       *)
PlaceInTurn(devs, ts, T, wid) ==
  FoldLeft(LAMBDA ds, t :
             IF t \in T
             THEN [ds EXCEPT ![wid[job.sg[t]]][job.kind[t]] =
                     Enqueue(@, t, Slots[job.kind[t]])]
             ELSE ds,
           devs, ts)

RunningOn(devs, w) == UNION {devs[w][k].running : k \in Kind}

(* IncreaseMemoryUsage: a task that takes memory does so when it starts, a *)
(* task that gives memory back when it finishes.                           *)
Taken(S) == MapThenSumSet(LAMBDA t : job.use[t], {t \in S : job.use[t] > 0})
GivenBack(S) == MapThenSumSet(LAMBDA t : job.use[t], {t \in S : job.use[t] < 0})

UsageAfter(devs, done) ==
  [w \in Worker |-> usage[w]
     + Taken(RunningOn(devs, w) \ RunningOn(devices, w))
     + GivenBack(done \cap RunningOn(devices, w))]

-----------------------------------------------------------------------------
(***************************************************************************)
(* TETRIS: the first request of the queue goes to the worker, of those     *)
(* that can reserve it, whose free resources meet it best, the first one   *)
(* of several; to none if they do not meet it at all.  A device is free to *)
(* the extent that its slots are.                                          *)
(***************************************************************************)
GetAvailableResource(w) ==
  [r \in Resource |->
     IF r = "memory" THEN Unit * Limit[w]["memory"] - usage[w]
     ELSE Unit * (Slots[r] - Cardinality(devices[w][r].running))]

DotProduct(p, q) == MapThenSumSet(LAMBDA r : p[r] * q[r], Resource)

TryToReserve(w, p) == FitIn(Add(reservation[w], p), Limit[w])

Product(w, p) ==
  IF TryToReserve(w, p) THEN DotProduct(GetAvailableResource(w), p) ELSE 0

IsBest(w, p) ==
  /\ Product(w, p) > 0
  /\ \A v \in Worker : /\ Product(v, p) <= Product(w, p)
                       /\ v < w => Product(v, p) < Product(w, p)

TETRIS(q) ==
  LET p == PackOf(Head(q)) IN
  /\ \/ \E w \in Worker :
          /\ IsBest(w, p)
          /\ reservation' = [reservation EXCEPT ![w] = Add(@, p)]
          /\ reqQueue' = Tail(q)
          /\ decisions' = decisions \cup {<<Head(q), w>>}
     \/ /\ \A w \in Worker : ~IsBest(w, p)
        /\ reqQueue' = q
        /\ UNCHANGED <<reservation, decisions>>
  /\ UNCHANGED lastWorker

AssignReqToWorker(q) ==
  \/ algorithm = "FIFO" /\ FIFO(q)
  \/ algorithm = "TETRIS" /\ TETRIS(q)

-----------------------------------------------------------------------------

SimInit ==
  /\ ClusterInit
  /\ devices = [w \in Worker |-> [k \in Kind |-> [running |-> {}, queue |-> << >>]]]
  /\ usage = [w \in Worker |-> 0]
  /\ algorithm \in Algorithms

(* HandleNewReq and HandleResourceAvailable with either algorithm.         *)
SimNewReq(s) == TakeRequest(s) /\ \E q \in QueuesWith(s) : AssignReqToWorker(q)

SimResourceAvailable ==
  /\ TakeAvailable
  /\ \/ reqQueue # << >> /\ AssignReqToWorker(reqQueue)
     \/ reqQueue = << >> /\ UNCHANGED <<decisions, reqQueue, lastWorker, reservation>>

(* The scheduler and the admission do not touch the devices.               *)
SimSchedule ==
  /\ \/ Admission
     \/ \E s \in SubGraph : SimNewReq(s)
     \/ SimResourceAvailable
     \/ \E j \in JobFinishWaiting : HandleJobFinish(j)
  /\ UNCHANGED <<devices, usage, algorithm>>

(* The tasks of the subgraph that are ready are placed, in the order in    *)
(* which the file lists them, which may be any.                            *)
SimDecision(s, w) ==
  /\ HandleDecision(s, w)
  /\ \E ts \in SetToSeqs(TasksOf(job, s)) :
        devices' = PlaceInTurn(devices, ts, {t \in Task : Satisfied(t)}, workerId')
  /\ usage' = UsageAfter(devices', {})
  /\ UNCHANGED algorithm

(* The device of the finished task is served first, then the children are  *)
(* placed in their order.                                                  *)
SimFinish(t) ==
  LET w == workerId[job.sg[t]]
      k == job.kind[t]
  IN
  /\ w # NoWorker
  /\ t \in devices[w][k].running
  /\ Finish(t)
  /\ devices' = PlaceInTurn([devices EXCEPT ![w][k] = Dequeue(@, t, Slots[k])],
                            job.children[t], ChildrenToPlace(t), workerId)
  /\ usage' = UsageAfter(devices', {t})
  /\ UNCHANGED algorithm

SimNext ==
  \/ SimSchedule
  \/ \E s \in SubGraph, w \in Worker : SimDecision(s, w)
  \/ \E t \in Task : SimFinish(t)

SimSpec == SimInit /\ [][SimNext]_simVars

(* Every running task has an event, and Serve handles events until there   *)
(* are none.                                                               *)
SimFairSpec == SimSpec /\ WF_simVars(SimNext)

-----------------------------------------------------------------------------

Device == [running : SUBSET Task, queue : Seq(Task)]

SimTypeOK ==
  /\ ClusterTypeOK
  /\ devices \in [Worker -> [Kind -> Device]]
  /\ usage \in [Worker -> Int]
  /\ algorithm \in Algorithms

(* A task that was handed out and has not finished is on the device of its *)
(* kind of its subgraph's worker, once, running or waiting; so the finish  *)
(* of a running task is reported where it runs.                            *)
InFlightOn(w, k) ==
  {t \in Task : /\ finished[t] < Len(placed[t])
                /\ workerId[job.sg[t]] = w
                /\ job.kind[t] = k}

OnOneDevice ==
  \A w \in Worker, k \in Kind :
     LET d == devices[w][k] IN
     /\ d.running \cup Range(d.queue) = InFlightOn(w, k)
     /\ Cardinality(d.running) + Len(d.queue) = Cardinality(InFlightOn(w, k))

(* A task waits only while all slots of its device are taken.              *)
DevicesBusy ==
  \A w \in Worker, k \in Kind :
     /\ Cardinality(devices[w][k].running) <= Slots[k]
     /\ devices[w][k].queue # << >> =>
           Cardinality(devices[w][k].running) = Slots[k]

(***************************************************************************)
(* The jobs whose memory adds up, as in all files under conf/: memory is   *)
(* in whole units, a subgraph gives back what it takes, and what has been  *)
(* given back at any time was taken by a task that had to start before.    *)
(***************************************************************************)
(* The sets of tasks that may be all that are done at some time.           *)
MayBeDone(j) == {D \in SUBSET Task : \A t \in Task \ D : ChildSet(j, t) \cap D = {}}

MemoryAddsUp(j) ==
  /\ \A t \in Task : j.use[t] % Unit = 0
  /\ \A s \in SubGraphsOf(j) : SumUse(j, TasksOf(j, s)) = 0
  /\ \A D \in MayBeDone(j), s \in SubGraphsOf(j) : SumUse(j, D \cap TasksOf(j, s)) >= 0

JobsThatAddUp == {j \in Jobs : MemoryAddsUp(j)}

(* What the tasks of a worker use is covered by what the scheduler has     *)
(* reserved there, and is never negative, from the first start on a worker *)
(* until the last memory is given back (the CHECK of                       *)
(* GenerateUtilizationRecord, "resource usage cannot be lower than 0").    *)
(* That includes the record WorkerAbstract::TaskFinish makes within        *)
(* SimFinish, when a running task has given back its memory and no child   *)
(* of it has taken any yet.                                                *)
UsageCovered ==
  job \in JobsThatAddUp =>
    \A w \in Worker : /\ 0 <= usage[w]
                      /\ \A t \in RunningOn(devices, w) : 0 <= usage[w] + GivenBack({t})
                      /\ usage[w] <= Unit * reservation[w]["memory"]

(***************************************************************************)
(* A job whose subgraphs find room everywhere for the most memory they use *)
(* at any time comes to its end: the flow network makes of MemoryCap this  *)
(* peak, if GetMaxFlow starts at the source, and Dinic declares "void      *)
(* Init(int vertex_num, int source, int sink)".                            *)
(***************************************************************************)
PeakMemory(j, s) == Max({SumUse(j, D \cap TasksOf(j, s)) : D \in MayBeDone(j)})

PeakFitsEverywhere(j) ==
  \A s \in SubGraphsOf(j), w \in Worker :
     FitIn([SubGraphPack(j, s) EXCEPT !["memory"] = PeakMemory(j, s) \div Unit], Limit[w])

JobsThatShouldComplete ==
  {j \in JobsThatCanEnd : HoldsNothingWhileWaiting(j) /\ PeakFitsEverywhere(j)}

FittingJobCompletes ==
  job \in JobsThatShouldComplete /\ OthersFit
    => <>(Range(jobRecords) = {"job"} \cup Others)

(* The CHECK of IncreaseMemoryUsage in worker_common.h, which aborts the   *)
(* simulation with "memory usage is larger than capactiy!!!".              *)
MemoryCheckHolds ==
  \A w \in Worker : usage[w] <= Unit * Limit[w]["memory"]

=============================================================================
