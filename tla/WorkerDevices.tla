---------------------------- MODULE WorkerDevices ----------------------------
(***************************************************************************)
(* The cpu cores, the disk and the network of one worker                   *)
(* (src/worker/worker.h, worker_abstract.h, worker_cpu.h, worker_disk.h,   *)
(* worker_network.h) on one event queue.  The three are separate objects,  *)
(* but they share the clock, the priority queue and the set of invalid     *)
(* event ids, which Simulator gives to every worker.                       *)
(*                                                                         *)
(* Disk and network are instances of BandwidthDevice.  Each has a clock of *)
(* its own, the time of the last event it handled; now is the time of the  *)
(* last event of the simulation.  The records of a worker are left out:    *)
(* they are the map of Player.                                             *)
(*                                                                         *)
(* Definitions whose name starts with Wrong are slips nothing uses, as in  *)
(* JobGraph.                                                               *)
(***************************************************************************)
EXTENDS Integers, Sequences, FiniteSets, Functions

CONSTANTS
  CpuTask, DiskTask, NetworkTask,  \* the tasks of each resource type
  Sizes,                           \* the requests a task may have
  Cores,                           \* the cpu capacity
  DiskCapacity, NetworkCapacity,   \* the bandwidths
  MaxDiskTasks, MaxNetworkTasks,   \* 10 each in the code
  NoiseSteps, NoiseUnit            \* as in BandwidthDevice

Task == CpuTask \cup DiskTask \cup NetworkTask

(* The disk and the network are devices as BandwidthDevice assumes them.   *)
ASSUME WorkerDevicesAssumption ==
  /\ IsFiniteSet(Task)
  /\ CpuTask \cap DiskTask = {}
  /\ (CpuTask \cup DiskTask) \cap NetworkTask = {}
  /\ Cores \in Nat \ {0}
  /\ Sizes \subseteq Nat
  /\ MaxDiskTasks \in Nat \ {0} /\ MaxNetworkTasks \in Nat \ {0}
  /\ DiskCapacity \in Nat /\ NetworkCapacity \in Nat
  /\ \A n \in 1 .. MaxDiskTasks : DiskCapacity >= n /\ DiskCapacity % n = 0
  /\ \A n \in 1 .. MaxNetworkTasks : NetworkCapacity >= n /\ NetworkCapacity % n = 0
  /\ NoiseUnit \in Nat \ {0}
  /\ NoiseSteps \subseteq 0 .. NoiseUnit - 1
  /\ 0 \in NoiseSteps

VARIABLES
  size, now, events, invalid,
  diskNow, diskArrived, diskQueue, diskRunning, diskCurrent, diskFinished, diskBusy,
  diskNoisy,
  netNow, netArrived, netQueue, netRunning, netCurrent, netFinished, netBusy,
  netNoisy,
  cpuArrived,   \* the tasks placed on the cpu, in order
  cpuQueue,     \* cpu_queue_
  cpuRunning,   \* the tasks that hold a core; resource_usage_ counts them
  cpuFinished   \* the tasks whose TASK_FINISH was handled

diskVars == <<diskNow, diskArrived, diskQueue, diskRunning, diskCurrent,
              diskFinished, diskBusy, diskNoisy>>
netVars == <<netNow, netArrived, netQueue, netRunning, netCurrent,
             netFinished, netBusy, netNoisy>>
cpuVars == <<cpuArrived, cpuQueue, cpuRunning, cpuFinished>>
workerVars == <<size, now, events, invalid, diskVars, netVars, cpuVars>>

Only(T) == {e \in events : e.id[1] \in T}
OnlyInvalid(T) == {id \in invalid : id[1] \in T}

(* The devices as they act on the shared queue ...                         *)
Disk == INSTANCE BandwidthDevice WITH
  Task <- DiskTask, Capacity <- DiskCapacity, MaxTasks <- MaxDiskTasks,
  size <- [t \in DiskTask |-> size[t]], now <- diskNow,
  arrived <- diskArrived, queue <- diskQueue, running <- diskRunning,
  current <- diskCurrent, finished <- diskFinished, busy <- diskBusy,
  noisy <- diskNoisy

Network == INSTANCE BandwidthDevice WITH
  Task <- NetworkTask, Capacity <- NetworkCapacity, MaxTasks <- MaxNetworkTasks,
  size <- [t \in NetworkTask |-> size[t]], now <- netNow,
  arrived <- netArrived, queue <- netQueue, running <- netRunning,
  current <- netCurrent, finished <- netFinished, busy <- netBusy,
  noisy <- netNoisy

(* ... and as they would be alone, with the events that are their own and  *)
(* tasks arriving at any time.                                             *)
DiskAlone == INSTANCE BandwidthDevice WITH
  Task <- DiskTask, Capacity <- DiskCapacity, MaxTasks <- MaxDiskTasks,
  size <- [t \in DiskTask |-> size[t]], now <- diskNow,
  arrived <- diskArrived, queue <- diskQueue, running <- diskRunning,
  current <- diskCurrent, finished <- diskFinished, busy <- diskBusy,
  noisy <- diskNoisy,
  events <- Only(DiskTask), invalid <- OnlyInvalid(DiskTask)

NetworkAlone == INSTANCE BandwidthDevice WITH
  Task <- NetworkTask, Capacity <- NetworkCapacity, MaxTasks <- MaxNetworkTasks,
  size <- [t \in NetworkTask |-> size[t]], now <- netNow,
  arrived <- netArrived, queue <- netQueue, running <- netRunning,
  current <- netCurrent, finished <- netFinished, busy <- netBusy,
  noisy <- netNoisy,
  events <- Only(NetworkTask), invalid <- OnlyInvalid(NetworkTask)

-----------------------------------------------------------------------------

WorkerInit ==
  /\ size \in [Task -> Sizes]
  /\ now = 0
  /\ Disk!Init
  /\ Network!Init
  /\ cpuArrived = << >>
  /\ cpuQueue = << >>
  /\ cpuRunning = {}
  /\ cpuFinished = << >>

(* WorkerCPU::ResourceAvailable, n cores being in use.                     *)
WrongCoreAvailableAlways(n) == TRUE
CoreAvailable(n) == n + 1 <= Cores

(* A task keeps its core for as long as it was given at its start.         *)
CpuEvents(t, time) ==
  {[id |-> <<t, 1>>, time |-> time + size[t] + noise] : noise \in Disk!Noise(size[t])}

CpuPlace(t, time) ==
  /\ t \notin Range(cpuArrived)
  /\ cpuArrived' = Append(cpuArrived, t)
  /\ \/ /\ cpuQueue = << >> /\ CoreAvailable(Cardinality(cpuRunning))
        /\ cpuRunning' = cpuRunning \cup {t}
        /\ \E e \in CpuEvents(t, time) : events' = events \cup {e}
        /\ UNCHANGED cpuQueue
     \/ /\ ~(cpuQueue = << >> /\ CoreAvailable(Cardinality(cpuRunning)))
        /\ cpuQueue' = Append(cpuQueue, t)
        /\ UNCHANGED <<cpuRunning, events>>
  /\ UNCHANGED <<invalid, cpuFinished>>

CpuFinish(e) ==
  LET rest == cpuRunning \ {e.id[1]} IN
  /\ cpuFinished' = Append(cpuFinished, e.id[1])
  /\ \/ /\ cpuQueue # << >> /\ CoreAvailable(Cardinality(rest))
        /\ cpuQueue' = Tail(cpuQueue)
        /\ cpuRunning' = rest \cup {Head(cpuQueue)}
        /\ \E f \in CpuEvents(Head(cpuQueue), e.time) :
              events' = (events \ {e}) \cup {f}
     \/ /\ ~(cpuQueue # << >> /\ CoreAvailable(Cardinality(rest)))
        /\ cpuRunning' = rest
        /\ events' = events \ {e}
        /\ UNCHANGED cpuQueue
  /\ UNCHANGED <<invalid, cpuArrived>>

(***************************************************************************)
(* WorkerAbstract::PlaceNewTask, called by the job manager while it        *)
(* handles an event: the last one of this worker, or one from elsewhere,   *)
(* which was the first of the queue (see Arrive in BandwidthDevice).       *)
(***************************************************************************)
Place(t) ==
  /\ now' \in Int
  /\ now' = now \/ \A e \in events : now' <= e.time
  /\ UNCHANGED size
  /\ \/ t \in CpuTask /\ CpuPlace(t, now') /\ UNCHANGED <<diskVars, netVars>>
     \/ t \in DiskTask /\ Disk!PlaceNewTask(t, now') /\ UNCHANGED <<netVars, cpuVars>>
     \/ t \in NetworkTask /\ Network!PlaceNewTask(t, now') /\ UNCHANGED <<diskVars, cpuVars>>

IsNext(e) == e \in events /\ \A f \in events : e.time <= f.time

(* WorkerAbstract::TaskFinish.                                             *)
Finish(e) ==
  /\ IsNext(e)
  /\ e.id \notin invalid
  /\ now' = e.time
  /\ UNCHANGED size
  /\ \/ e.id[1] \in CpuTask /\ CpuFinish(e) /\ UNCHANGED <<diskVars, netVars>>
     \/ e.id[1] \in DiskTask /\ Disk!TaskFinish(e) /\ UNCHANGED <<netVars, cpuVars>>
     \/ e.id[1] \in NetworkTask /\ Network!TaskFinish(e) /\ UNCHANGED <<diskVars, cpuVars>>

WrongSkipClearsIds(e) ==
  /\ IsNext(e)
  /\ e.id \in invalid
  /\ events' = events \ {e}
  /\ invalid' = {}
  /\ UNCHANGED <<size, now, diskVars, netVars, cpuVars>>

WrongSkipKeepsOthers(e) ==
  /\ IsNext(e)
  /\ e.id \in invalid
  /\ events' = {f \in events : f.id \notin invalid}
  /\ invalid' = invalid \ {e.id}
  /\ UNCHANGED <<size, now, diskVars, netVars, cpuVars>>

(* Serve drops an invalid event, whosever it is.                           *)
Skip(e) ==
  /\ IsNext(e)
  /\ e.id \in invalid
  /\ events' = events \ {e}
  /\ invalid' = invalid \ {e.id}
  /\ UNCHANGED <<size, now, diskVars, netVars, cpuVars>>

WorkerNext ==
  \/ \E t \in Task : Place(t)
  \/ \E e \in events : Finish(e)
  \/ \E e \in events : Skip(e)

WorkerSpec == WorkerInit /\ [][WorkerNext]_workerVars

-----------------------------------------------------------------------------
(* Sharing the queue and the invalid ids with the other devices does not   *)
(* change what a disk does (Worker::Init hands one set to all): every step *)
(* of the worker is a step of the disk alone or leaves it as it is.        *)
DiskUndisturbed == DiskAlone!Spec

(* The same for the network.                                               *)
NetworkUndisturbed == NetworkAlone!Spec

(* The cores: a task runs until the one event made for it, which nobody    *)
(* drops; a task waits only while all cores are taken, and is started      *)
(* after those placed before it.                                           *)
CoresInOrder ==
  /\ \A e \in Only(CpuTask) : e.id \notin invalid
  /\ {e.id[1] : e \in Only(CpuTask)} = cpuRunning
  /\ Cardinality(cpuRunning) <= Cores
  /\ cpuQueue # << >> => Cardinality(cpuRunning) = Cores
  /\ cpuQueue = SubSeq(cpuArrived, Len(cpuArrived) - Len(cpuQueue) + 1, Len(cpuArrived))
  /\ Len(cpuArrived) = Len(cpuQueue) + Cardinality(cpuRunning) + Len(cpuFinished)

=============================================================================
